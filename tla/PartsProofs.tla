----------------------------- MODULE PartsProofs -----------------------------
(***************************************************************************)
(* Theorems of the parts, for all values of their constants: Handles, then *)
(* DoubleFork, DemoSession, Calendar and Text. What is about jsoncpp is in *)
(* JsonProofs.                                                             *)
(***************************************************************************)
EXTENDS Parts, JsonProofs, Integers, Sequences, TLAPS, SequenceTheorems

(* A source that is not handed out has nothing left from its last use, and *)
(* one that is calls its owner, but for a server's that has no callback.   *)
Clean ==
    /\ \A s \in Sources : ~source[s].live => source[s] = NoSource
    /\ \A o \in Objects : handle[o] # None => source[handle[o]].ctx = o \/ o \in HttpServers

(* All of the invariant but what relates it to the lives of the objects.   *)
Types ==
    /\ handle \in [Objects -> Sources \cup {None}]
    /\ sock_fd \in [Objects -> Fds \cup {None}]
    /\ source \in [Sources -> [live : BOOLEAN, ctx : Objects \cup {None},
                               fd : Fds \cup {None}]]
    /\ open \in SUBSET Fds /\ stray \in SUBSET Sources /\ lost \in SUBSET Fds
Holding == Types /\ Clean /\ SourcesHaveTheirObject /\ DescriptorsHaveOneOwner

Fresh(fd) == fd \in (Fds \ open) \cup {None}

(* A source for an object that has none, or does not look (event_new,      *)
(* bufferevent_socket_new, evconnlistener_new).                            *)
LEMMA StartHolds ==
    ASSUME HandlesAssumption, Holding, NEW o \in Objects, NEW s \in Sources, NEW fd, Fresh(fd),
           handle[o] = None \/ o \in Careless, Start(o, s, fd)
    PROVE  Holding'
<1> USE DEF HandlesAssumption, Holding, Types, Start, Held, Unused, NoSource, Fresh
<1>1. Types'
  OBVIOUS
<1>2. Clean'
  <2>1. ASSUME NEW t \in Sources, ~source'[t].live
        PROVE  source'[t] = NoSource
    BY <2>1 DEF Clean
  <2>2. ASSUME NEW p \in Objects, handle'[p] # None
        PROVE  source'[handle'[p]].ctx = p \/ p \in HttpServers
    <3>1. CASE p = o
      BY <2>2, <3>1
    <3>2. CASE p # o
      <4>1. handle'[p] = handle[p] /\ handle[p] \in Sources
        BY <2>2, <3>2
      <4>2. source[handle[p]].live /\ handle[p] # s
        BY <4>1, <3>2 DEF SourcesHaveTheirObject
      <4>3. source'[handle[p]] = source[handle[p]]
        BY <4>1, <4>2
      <4>4. QED
        BY <4>1, <4>3 DEF Clean
    <3>3. QED
      BY <3>1, <3>2
  <2>3. QED
    BY <2>1, <2>2 DEF Clean
<1>3. SourcesHaveTheirObject'
  BY DEF SourcesHaveTheirObject, Clean
<1>4. DescriptorsHaveOneOwner'
  BY DEF DescriptorsHaveOneOwner, Owned, Clean
<1>5. QED
  BY <1>1, <1>2, <1>3, <1>4

(* A start that fails overwrites the handle with a null pointer.           *)
LEMMA StartFailsHolds ==
    ASSUME HandlesAssumption, Holding, NEW o \in Objects, o \in Careless,
           NEW fds \in SUBSET (Fds \ open), StartFails(o, fds)
    PROVE  Holding'
<1> USE DEF HandlesAssumption, Holding, Types, StartFails, Held, NoSource
<1>1. Types'
  OBVIOUS
<1>2. Clean'
  BY DEF Clean
<1>3. SourcesHaveTheirObject'
  BY DEF SourcesHaveTheirObject, Clean
<1>4. DescriptorsHaveOneOwner'
  BY DEF DescriptorsHaveOneOwner, Owned
<1>5. QED
  BY <1>1, <1>2, <1>3, <1>4

(* Freeing what an object holds, if anything: afterwards it holds          *)
(* nothing.                                                                *)
LEMMA ReleaseHolds ==
    ASSUME HandlesAssumption, Holding, NEW o \in Objects, Release(o)
    PROVE  Holding' /\ handle'[o] = None /\ sock_fd'[o] = None
<1> USE DEF HandlesAssumption, Holding, Types, Release, Held, Freed, NoSource
<1>1. Types'
  OBVIOUS
<1>2. Clean'
  <2>1. ASSUME NEW t \in Sources, ~source'[t].live
        PROVE  source'[t] = NoSource
    BY <2>1 DEF Clean
  <2>2. ASSUME NEW p \in Objects, handle'[p] # None
        PROVE  source'[handle'[p]].ctx = p \/ p \in HttpServers
    <3>1. CASE p = o
      BY <2>2, <3>1
    <3>2. CASE p # o
      <4>1. handle'[p] = handle[p] /\ handle[p] \in Sources
        BY <2>2, <3>2
      <4>2. handle[p] # handle[o]
        BY <4>1, <3>2 DEF SourcesHaveTheirObject
      <4>3. source'[handle[p]] = source[handle[p]]
        BY <4>1, <4>2
      <4>4. QED
        BY <4>1, <4>3 DEF Clean
    <3>3. QED
      BY <3>1, <3>2
  <2>3. QED
    BY <2>1, <2>2 DEF Clean
<1>3. SourcesHaveTheirObject'
  BY DEF SourcesHaveTheirObject, Clean
<1>4. DescriptorsHaveOneOwner'
  BY DEF DescriptorsHaveOneOwner, Owned, Clean
<1>5. handle'[o] = None /\ sock_fd'[o] = None
  OBVIOUS
<1>6. QED
  BY <1>1, <1>2, <1>3, <1>4, <1>5

(* A second source in place of the first: the first is freed before.       *)
LEMMA ReplaceHolds ==
    ASSUME HandlesAssumption, Holding, NEW o \in Objects, NEW s \in Sources,
           NEW ctx, ctx = o \/ (ctx = None /\ o \in HttpServers), NEW fd, Fresh(fd),
           Replace(o, s, ctx, fd)
    PROVE  Holding'
<1> USE DEF HandlesAssumption, Holding, Types, Replace, Held, Freed, Unused, NoSource, Fresh
<1>1. Types'
  OBVIOUS
<1>2. Clean'
  <2>1. ASSUME NEW t \in Sources, ~source'[t].live
        PROVE  source'[t] = NoSource
    BY <2>1 DEF Clean
  <2>2. ASSUME NEW p \in Objects, handle'[p] # None
        PROVE  source'[handle'[p]].ctx = p \/ p \in HttpServers
    <3>1. CASE p = o
      BY <2>2, <3>1
    <3>2. CASE p # o
      <4>1. handle'[p] = handle[p] /\ handle[p] \in Sources
        BY <2>2, <3>2
      <4>2. source[handle[p]].live /\ handle[p] # s /\ handle[p] # handle[o]
        BY <4>1, <3>2 DEF SourcesHaveTheirObject
      <4>3. source'[handle[p]] = source[handle[p]]
        BY <4>1, <4>2
      <4>4. QED
        BY <4>1, <4>3 DEF Clean
    <3>3. QED
      BY <3>1, <3>2
  <2>3. QED
    BY <2>1, <2>2 DEF Clean
<1>3. SourcesHaveTheirObject'
  BY DEF SourcesHaveTheirObject, Clean
<1>4. DescriptorsHaveOneOwner'
  BY DEF DescriptorsHaveOneOwner, Owned, Clean
<1>5. QED
  BY <1>1, <1>2, <1>3, <1>4

(* A UDP socket and the event on it (bind_udp); a socket that was there is *)
(* lost, also when this one fails.                                         *)
LEMMA BindHolds ==
    ASSUME HandlesAssumption, Holding, NEW o \in Objects, o \in Careless, NEW s \in Sources,
           NEW fd \in Fds \ open, Bind(o, s, fd), lost' = lost \cup ({sock_fd[o]} \ {None})
    PROVE  Holding'
<1> USE DEF HandlesAssumption, Holding, Types, Bind, Held, Unused, NoSource
<1>1. Types'
  OBVIOUS
<1>2. Clean'
  <2>1. ASSUME NEW t \in Sources, ~source'[t].live
        PROVE  source'[t] = NoSource
    BY <2>1 DEF Clean
  <2>2. ASSUME NEW p \in Objects, handle'[p] # None
        PROVE  source'[handle'[p]].ctx = p \/ p \in HttpServers
    <3>1. CASE p = o
      BY <2>2, <3>1
    <3>2. CASE p # o
      <4>1. handle'[p] = handle[p] /\ handle[p] \in Sources
        BY <2>2, <3>2
      <4>2. source[handle[p]].live /\ handle[p] # s
        BY <4>1, <3>2 DEF SourcesHaveTheirObject
      <4>3. source'[handle[p]] = source[handle[p]]
        BY <4>1, <4>2
      <4>4. QED
        BY <4>1, <4>3 DEF Clean
    <3>3. QED
      BY <3>1, <3>2
  <2>3. QED
    BY <2>1, <2>2 DEF Clean
<1>3. SourcesHaveTheirObject'
  BY DEF SourcesHaveTheirObject, Clean
<1>4. DescriptorsHaveOneOwner'
  BY DEF DescriptorsHaveOneOwner, Owned, Clean
<1>5. QED
  BY <1>1, <1>2, <1>3, <1>4

LEMMA BindFailsHolds ==
    ASSUME HandlesAssumption, Holding, NEW o \in Objects, o \in Careless, NEW forgets \in BOOLEAN,
           BindFails(o, forgets), lost' = lost \cup ({sock_fd[o]} \ {None})
    PROVE  Holding'
<1> USE DEF HandlesAssumption, Holding, Types, BindFails, Held, NoSource
<1>1. Types'
  OBVIOUS
<1>2. Clean'
  BY DEF Clean
<1>3. SourcesHaveTheirObject'
  BY DEF SourcesHaveTheirObject, Clean
<1>4. DescriptorsHaveOneOwner'
  BY DEF DescriptorsHaveOneOwner, Owned
<1>5. QED
  BY <1>1, <1>2, <1>3, <1>4

(* A descriptor that nobody keeps on the way to an exception.              *)
LEMMA LeftOpenHolds ==
    ASSUME HandlesAssumption, Holding, NEW fd \in Fds \ open, LeftOpen(fd)
    PROVE  Holding'
<1> USE DEF HandlesAssumption, Holding, Types, LeftOpen
<1>1. Types' /\ Clean' /\ SourcesHaveTheirObject'
  BY DEF Clean, SourcesHaveTheirObject
<1>2. DescriptorsHaveOneOwner'
  BY DEF DescriptorsHaveOneOwner, Owned
<1>3. QED
  BY <1>1, <1>2

(* An operation that fails before it has anything.                         *)
LEMMA NothingStartedHolds ==
    ASSUME Holding, NothingStarted
    PROVE  Holding'
BY DEF Holding, Types, Clean, SourcesHaveTheirObject, DescriptorsHaveOneOwner, Owned,
       NothingStarted

Lives == /\ life \in [Objects -> {"none", "making", "made", "thrown", "torn"}]
         /\ NothingHeldWhenGone

IInv == Holding /\ Lives /\ deferred \in SUBSET Sources

(* Every operation has one of these effects on its object, whose life goes *)
(* on or ends in an exception.                                             *)
Starts(o) ==
    /\ handle[o] = None \/ o \in Careless
    /\ \E s \in Sources, fd \in (Fds \ open) \cup {None} : Start(o, s, fd)
Swaps(o) ==
    \E s \in Sources, fd \in (Fds \ open) \cup {None}, ctx \in {o, None} :
        (ctx = o \/ o \in HttpServers) /\ Replace(o, s, ctx, fd)
Binds(o) ==
    /\ lost' = lost \cup ({sock_fd[o]} \ {None})
    /\ \/ \E forgets \in BOOLEAN : BindFails(o, forgets)
       \/ \E s \in Sources, fd \in Fds \ open : Bind(o, s, fd)

Effect(o) ==
    \/ NothingStarted
    \/ Release(o)
    \/ \E fd \in Fds \ open : LeftOpen(fd)
    \/ Starts(o)
    \/ o \in Careless /\ \E fds \in SUBSET (Fds \ open) : StartFails(o, fds)
    \/ Swaps(o)
    \/ o \in Careless /\ Binds(o)

Called(o) ==
    /\ life[o] \in {"making", "made"}
    /\ Throw(o) \/ NoThrow
    /\ Effect(o)
    /\ deferred' \in SUBSET Sources

(* Whatever a call does to what the object holds.                          *)
LEMMA EffectHolds ==
    ASSUME HandlesAssumption, Holding, NEW o \in Objects, Effect(o)
    PROVE  Holding'
<1> USE DEF Fresh
<1>1. CASE NothingStarted
  BY <1>1, NothingStartedHolds
<1>2. CASE Release(o)
  BY <1>2, ReleaseHolds
<1>3. CASE \E fd \in Fds \ open : LeftOpen(fd)
  BY <1>3, LeftOpenHolds
<1>4. CASE Starts(o)
  BY <1>4, StartHolds DEF Starts
<1>5. CASE o \in Careless /\ \E fds \in SUBSET (Fds \ open) : StartFails(o, fds)
  BY <1>5, StartFailsHolds
<1>6. CASE Swaps(o)
  BY <1>6, ReplaceHolds DEF Swaps
<1>7. CASE o \in Careless /\ Binds(o)
  BY <1>7, BindHolds, BindFailsHolds DEF Binds
<1>8. QED
  BY <1>1, <1>2, <1>3, <1>4, <1>5, <1>6, <1>7 DEF Effect

(* An operation on one object leaves the lives of the others alone.        *)
LEMMA EffectIsLocal ==
    ASSUME Types, NEW o \in Objects, Effect(o), NEW p \in Objects, p # o
    PROVE  handle'[p] = handle[p] /\ sock_fd'[p] = sock_fd[p]
BY DEF Types, Effect, Starts, Swaps, Binds, NothingStarted, Release, LeftOpen, Start,
       StartFails, Replace, Bind, BindFails

(* A call of an object that is not deleted.                                *)
LEMMA CalledHolds ==
    ASSUME HandlesAssumption, IInv, NEW o \in Objects, Called(o)
    PROVE  IInv'
<1>1. Holding'
  BY EffectHolds DEF IInv, Called
<1>2. \A p \in Objects : p # o => handle'[p] = handle[p] /\ sock_fd'[p] = sock_fd[p]
  BY EffectIsLocal DEF IInv, Called, Holding
<1>3. Lives'
  BY <1>2 DEF IInv, Called, Lives, Throw, NoThrow, NothingHeldWhenGone
<1>4. QED
  BY <1>1, <1>3 DEF IInv, Called

(* The destructor frees what the object holds, through unref_me or at      *)
(* once.                                                                   *)
LEMMA DeleteHolds ==
    ASSUME HandlesAssumption, IInv, NEW o \in Objects, life[o] # "making", Delete(o),
           deferred' \in SUBSET Sources
    PROVE  IInv'
<1>1. Holding' /\ handle'[o] = None /\ sock_fd'[o] = None
  BY ReleaseHolds DEF Delete, IInv
<1>2. Effect(o)
  BY DEF Delete, Effect
<1>3. \A p \in Objects : p # o => handle'[p] = handle[p] /\ sock_fd'[p] = sock_fd[p]
  BY <1>2, EffectIsLocal DEF IInv, Holding
<1>4. Lives'
  BY <1>1, <1>3 DEF IInv, Lives, Delete, NothingHeldWhenGone
<1>5. QED
  BY <1>1, <1>4 DEF IInv

Operation(o) ==
    \/ o \in Timers /\ (start_timer(o) \/ stop_timer(o))
    \/ o \in SignalHandlers /\ start_handle_signal(o)
    \/ o \in Listeners /\ (start_listen_on_tcp(o) \/ start_listen_on_un(o))
    \/ o \in HttpServers /\ (start_server(o) \/ release_server(o))
    \/ o \in Diagrams /\ (bind_udp(o) \/ release_ev(o))
    \/ /\ o \in Connections
       /\ \/ take_socket(o) \/ connect_generic(o) \/ connect_tcp(o)
          \/ connect_unix(o) \/ take_bev(o)

(* Every operation is a call of an object that is there.                   *)
LEMMA OperationIsCalled ==
    ASSUME IInv, NEW o \in Objects, Operation(o)
    PROVE  Called(o)
<1>1. life[o] \in {"making", "made"}
  BY DEF Operation, start_timer, stop_timer, start_handle_signal, start_listen_on_tcp,
         start_listen_on_un, start_server, release_server, bind_udp, release_ev,
         take_socket, connect_generic, connect_tcp, connect_unix, take_bev, CanCall
<1>2. Throw(o) \/ NoThrow
  BY DEF Operation, start_timer, stop_timer, start_handle_signal, start_listen_on_tcp,
         start_listen_on_un, start_listen_on_fd, start_server, release_server, bind_udp,
         release_ev, take_socket, TakeSocket, connect_generic, connect_tcp,
         connect_unix, Connect, FailsAtOnce, take_bev
<1>3. Effect(o)
  <2> USE DEF Effect, Starts, Swaps, Careless
  <2>0. {} \in SUBSET (Fds \ open) /\ \A fd \in Fds \ open : {fd} \in SUBSET (Fds \ open)
    OBVIOUS
  <2>1. CASE o \in Timers /\ (start_timer(o) \/ stop_timer(o))
    BY <2>1 DEF start_timer, stop_timer
  <2>2. CASE o \in SignalHandlers /\ start_handle_signal(o)
    BY <2>0, <2>2 DEF start_handle_signal
  <2>3. CASE o \in Listeners /\ (start_listen_on_tcp(o) \/ start_listen_on_un(o))
    BY <2>0, <2>3 DEF start_listen_on_tcp, start_listen_on_un, start_listen_on_fd
  <2>4. CASE o \in HttpServers /\ (start_server(o) \/ release_server(o))
    BY <2>4 DEF start_server, release_server
  <2>5. CASE o \in Diagrams /\ (bind_udp(o) \/ release_ev(o))
    BY <2>5 DEF bind_udp, release_ev, Binds
  <2>6. CASE o \in Connections /\ (take_socket(o) \/ connect_generic(o))
    BY <2>0, <2>6 DEF take_socket, TakeSocket, connect_generic
  <2>7. CASE o \in Connections /\ (connect_tcp(o) \/ connect_unix(o))
    BY <2>0, <2>7 DEF connect_tcp, connect_unix, Connect, FailsAtOnce
  <2>8. CASE o \in Connections /\ take_bev(o)
    BY <2>8 DEF take_bev
  <2>9. QED
    BY <2>1, <2>2, <2>3, <2>4, <2>5, <2>6, <2>7, <2>8 DEF Operation
<1>4. deferred' \in SUBSET Sources
  BY DEF Operation, start_timer, stop_timer, start_handle_signal, start_listen_on_tcp,
         start_listen_on_un, start_server, release_server, bind_udp, release_ev,
         take_socket, connect_generic, connect_tcp, connect_unix, Connect,
         FailsAtOnce, take_bev, IInv
<1>5. QED
  BY <1>1, <1>2, <1>3, <1>4 DEF Called

(* Every step of the program keeps the invariant.                          *)
LEMMA NextHolds ==
    ASSUME HandlesAssumption, IInv, Next
    PROVE  IInv'
<1>1. ASSUME NEW o \in Objects, OperationOn(o)
      PROVE  IInv'
  <2>1. CASE Construct(o)
    <3>1. Holding'
      BY <2>1, NothingStartedHolds DEF Construct, IInv
    <3>2. Lives' /\ deferred' = deferred
      BY <2>1 DEF Construct, NothingStarted, IInv, Lives, NothingHeldWhenGone
    <3>3. QED
      BY <3>1, <3>2 DEF IInv
  <2>2. CASE Constructed(o)
    <3>1. Holding'
      BY <2>2, NothingStartedHolds DEF Constructed, IInv
    <3>2. Lives' /\ deferred' = deferred
      BY <2>2 DEF Constructed, NothingStarted, IInv, Lives, NothingHeldWhenGone
    <3>3. QED
      BY <3>1, <3>2 DEF IInv
  <2>3. CASE Destroy(o)
    BY <2>3, DeleteHolds DEF Destroy, IInv
  <2>4. CASE Operation(o)
    BY <2>4, OperationIsCalled, CalledHolds
  <2>5. QED
    BY <1>1, <2>1, <2>2, <2>3, <2>4 DEF OperationOn, Operation
<1>2. ASSUME NEW s \in Sources, Report(s)
      PROVE  IInv'
  <2>1. Holding'
    BY <1>2, NothingStartedHolds DEF Report, IInv
  <2>2. Lives' /\ deferred' \in SUBSET Sources
    BY <1>2 DEF Report, NoThrow, NothingStarted, IInv, Lives, NothingHeldWhenGone
  <2>3. QED
    BY <2>1, <2>2 DEF IInv
<1>3. ASSUME NEW s \in Sources, RunDeferred(s)
      PROVE  IInv'
  <2>1. deferred' \in SUBSET Sources
    BY <1>3 DEF RunDeferred, IInv
  <2>2. CASE NoThrow /\ NothingStarted
    <3>1. Holding'
      BY <2>2, NothingStartedHolds DEF IInv
    <3>2. Lives'
      BY <2>2 DEF NoThrow, NothingStarted, IInv, Lives, NothingHeldWhenGone
    <3>3. QED
      BY <2>1, <3>1, <3>2 DEF IInv
  <2>3. CASE source[s].live /\ source[s].ctx # None /\ Delete(source[s].ctx)
    <3>1. source[s].ctx \in Objects
      BY <2>3 DEF IInv, Holding, Types
    <3>2. life[source[s].ctx] # "making"
      BY <1>3, <3>1 DEF RunDeferred, Idle
    <3>3. QED
      BY <2>1, <2>3, <3>1, <3>2, DeleteHolds
  <2>4. QED
    BY <1>3, <2>2, <2>3 DEF RunDeferred
<1>4. QED
  BY <1>1, <1>2, <1>3 DEF Next

(* Whatever fails, throws, is started again or is deleted: every source    *)
(* calls an object that lives and holds it, but one that a second start    *)
(* has overwritten; every descriptor is open as long as one object answers *)
(* for it, but those that SourcesHaveTheirObject and                       *)
(* DescriptorsHaveOneOwner name; and what is gone holds nothing.           *)
THEOREM HandlesAreReturned ==
    HandlesAssumption /\ Spec => [](TypeOK /\ NothingOutlivesItsObject)
<1>1. HandlesAssumption /\ Init => IInv
  BY DEF HandlesAssumption, Init, IInv, Holding, Types, Clean, Lives, NoSource, Objects,
         SourcesHaveTheirObject, DescriptorsHaveOneOwner, Owned, NothingHeldWhenGone
<1>2. HandlesAssumption /\ IInv /\ [Next]_vars => IInv'
  <2> SUFFICES ASSUME HandlesAssumption, IInv, [Next]_vars PROVE IInv'
    OBVIOUS
  <2>1. CASE Next
    BY <2>1, NextHolds
  <2>2. CASE UNCHANGED vars
    <3>1. Holding'
      BY <2>2, NothingStartedHolds DEF vars, NothingStarted, IInv
    <3>2. Lives' /\ deferred' = deferred
      BY <2>2 DEF vars, IInv, Lives, NothingHeldWhenGone
    <3>3. QED
      BY <3>1, <3>2 DEF IInv
  <2>3. QED
    BY <2>1, <2>2
<1>3. HandlesAssumption => HandlesAssumption'
  BY DEF HandlesAssumption, Objects, Careless
<1>4. IInv => TypeOK /\ NothingOutlivesItsObject
  BY DEF IInv, Holding, Types, Lives, TypeOK, NothingOutlivesItsObject
<1>5. QED
  BY <1>1, <1>2, <1>3, <1>4, PTL DEF Spec

-----------------------------------------------------------------------------
(* DoubleFork.                                                             *)

(* Where the two children can be while the caller forks, waits or is back. *)
States == {"fork", "wait", "exit", "setsid", "exec", "command", "ended", "back", "none"}

(* A child's parent, as long as the child is there: the first is waited for*)
(* by the caller, the second belongs to the first until that one ends.     *)
Family ==
    /\ pc \in [{"first", "second", "caller"} -> States]
    /\ parent \in [{"first", "second"} -> {"nobody", "caller", "first", "init"}]
    /\ pc["caller"] \in {"fork", "wait", "back"}
    /\ pc["caller"] # "wait" => pc["first"] = "none"
    /\ pc["first"] # "none" => parent["first"] = "caller"
    /\ pc["first"] \in {"none", "ended"} => parent["second"] # "first"
    /\ pc["second"] # "none" => parent["second"] \in {"first", "init"}

(* What a child is about to do, by which fork failed: the first goes on to *)
(* be the command only without the second, which the other way round is    *)
(* there only if the first is about to exit.                               *)
Roles ==
    /\ pc["first"] = "fork" => ~secondFailed
    /\ pc["caller"] = "fork" => ~secondFailed /\ pc["second"] = "none"
    /\ pc["first"] = "fork" => pc["second"] = "none"
    /\ pc["first"] \in {"setsid", "exec", "command"} => secondFailed
    /\ secondFailed => pc["second"] = "none"
    /\ pc["first"] \in {"none", "fork", "exit", "setsid", "exec", "command", "ended"}
    /\ pc["second"] \in {"none", "setsid", "exec", "command", "ended"}
    /\ \A p \in {"first", "second"} : pc[p] \in {"exec", "command"} => p \in leader

ForkInv == Family /\ Roles

(* shell_cmd_no_wait (utils.cpp) runs the command in a session of its      *)
(* own, which neither stays a child of the caller nor its zombie, and      *)
(* the caller waits for the command itself only if the second fork         *)
(* failed. Not inductive: it takes who is whose parent and which process   *)
(* is there in which case.                                                 *)
THEOREM CommandDetaches == Fork!Spec => []CallDetaches
<1>1. Fork!Init => ForkInv
  BY DEF Fork!Init, Fork!Children, ForkInv, Family, Roles, States
<1>2. ForkInv /\ [Fork!Next]_(Fork!vars) => ForkInv'
  <2> SUFFICES ASSUME ForkInv, [Fork!Next]_(Fork!vars) PROVE ForkInv'
    OBVIOUS
  <2> USE DEF ForkInv, Family, Roles, States
  <2>1. CASE Fork!FirstFork
    BY <2>1 DEF Fork!FirstFork
  <2>2. CASE Fork!Waitpid
    BY <2>2 DEF Fork!Waitpid
  <2>3. CASE Fork!SecondFork
    BY <2>3 DEF Fork!SecondFork, Fork!AfterSecondFork
  <2>4. ASSUME NEW p \in {"first", "second"}, pc[p] \in {"exit", "exec", "command"}, Fork!End(p)
        PROVE  ForkInv'
    BY <2>4 DEF Fork!End
  <2>5. ASSUME NEW p \in {"first", "second"}, Fork!Setsid(p)
        PROVE  ForkInv'
    BY <2>5 DEF Fork!Setsid
  <2>6. ASSUME NEW p \in {"first", "second"}, Fork!Exec(p)
        PROVE  ForkInv'
    BY <2>4, <2>6 DEF Fork!Exec
  <2>7. CASE UNCHANGED Fork!vars
    BY <2>7 DEF Fork!vars
  <2>8. QED
    BY <2>1, <2>2, <2>3, <2>4, <2>5, <2>6, <2>7
    DEF Fork!Next, Fork!Children, Fork!Exit, Fork!CommandEnds
<1>3. ForkInv => CallDetaches
  BY DEF ForkInv, Family, Roles, CallDetaches, Fork!CallDetaches, Fork!Children
<1>4. QED
  BY <1>1, <1>2, <1>3, PTL DEF Fork!Spec

-----------------------------------------------------------------------------
(* DemoSession.                                                            *)

(* The variables of the session, which are no others' than its own.        *)
SessionTypes ==
    /\ client_conn \in {"NULL", "live", "dangling"}
    /\ exiting \in BOOLEAN /\ diedNow \in BOOLEAN /\ usedLate \in BOOLEAN
    /\ main \in {"looping", "stopping", "joined"}
    /\ worker \in {"idle", "job", "gone"}
    /\ to_worker \in Seq({"job", "quit"})
    /\ to_main \in Seq(Nat) /\ to_server \in Seq(Nat)
    /\ seq \in Nat /\ ticks \in Nat /\ jobs_done \in Nat

(* A connection that is gone was deleted in a round that is the last one.  *)
LastRound == client_conn = "dangling" => exiting /\ diedNow

(* The worker is asked to go once, behind all jobs.                        *)
AskedToGo == main = "stopping" /\ worker # "gone"
QuitIsLast ==
    /\ \A i \in DOMAIN to_worker :
          to_worker[i] = "quit" <=> AskedToGo /\ i = Len(to_worker)
    /\ AskedToGo => to_worker # <<>>
    /\ worker = "gone" => main # "looping" /\ to_worker = <<>>
    /\ main = "joined" => worker = "gone"

(* Every tick is a job in one place.                                       *)
JobsWaiting == Len(to_worker) - (IF AskedToGo THEN 1 ELSE 0)
EveryTickAccounted ==
    ticks = JobsWaiting + (IF worker = "job" THEN 1 ELSE 0) + Len(to_main) + jobs_done

(* As long as the connection lives the numbers run on from the server to   *)
(* the pipe and to the worker.                                             *)
NumbersRunOn ==
    /\ client_conn = "NULL" => to_server = <<>>
    /\ \A i \in DOMAIN to_server : to_server[i] = i - 1
    /\ client_conn = "live" =>
          /\ seq = Len(to_server) + Len(to_main)
          /\ \A i \in DOMAIN to_main : to_main[i] = Len(to_server) + i - 1

SessionInv ==
    /\ SessionTypes /\ LastRound /\ QuitIsLast /\ EveryTickAccounted /\ NumbersRunOn
    /\ ~usedLate

(* An element is put behind a sequence.                                    *)
LEMMA Appended ==
    ASSUME NEW S, NEW s \in Seq(S), NEW e \in S
    PROVE  /\ Append(s, e) \in Seq(S)
           /\ Len(s) \in Nat /\ Len(Append(s, e)) = Len(s) + 1
           /\ \A i \in 1 .. Len(s) + 1 :
                 Append(s, e)[i] = IF i = Len(s) + 1 THEN e ELSE s[i]
OBVIOUS

(* A sequence loses its first element.                                     *)
LEMMA Fetched ==
    ASSUME NEW S, NEW s \in Seq(S), s # <<>>
    PROVE  /\ Tail(s) \in Seq(S)
           /\ Len(s) \in Nat \ {0} /\ Len(Tail(s)) = Len(s) - 1
           /\ Head(s) = s[1] /\ Head(s) \in S
           /\ \A i \in 1 .. Len(s) - 1 : Tail(s)[i] = s[i + 1]
OBVIOUS

(* A sequence of length zero is the empty one.                             *)
LEMMA EmptyIfNone == ASSUME NEW S, NEW s \in Seq(S), Len(s) = 0 PROVE s = <<>>
OBVIOUS

(* The lengths of the three queues are numbers.                            *)
LEMMA Sizes ==
    ASSUME SessionTypes
    PROVE  Len(to_worker) \in Nat /\ Len(to_main) \in Nat /\ Len(to_server) \in Nat
BY DEF SessionTypes

(* A step of the loop that leaves queues, worker and counters alone.       *)
LEMMA LoopStep ==
    ASSUME SessionInv,
           \/ Session!NextRound \/ Session!JoinsRound \/ Session!signal_cb
           \/ Session!post_disconnected \/ Session!Join \/ UNCHANGED Session!vars
    PROVE  SessionInv'
<1> USE DEF Session!NextRound, Session!JoinsRound, Session!signal_cb, Session!Runs,
            Session!post_disconnected, Session!Join, Session!vars,
            Session!loopVars, Session!workerVars, Session!history
<1>1. UNCHANGED <<to_worker, worker, seq, to_main, ticks, to_server, jobs_done, usedLate>>
  OBVIOUS
<1>2. \/ main' = main
      \/ main = "stopping" /\ main' = "joined" /\ worker = "gone"
  OBVIOUS
<1>3. client_conn' \in {client_conn, "dangling"}
  OBVIOUS
<1>4. exiting' \in BOOLEAN /\ diedNow' \in BOOLEAN
  BY DEF SessionInv, SessionTypes
<1>5. LastRound'
  BY DEF SessionInv, SessionTypes, LastRound
<1>6. SessionTypes'
  BY <1>1, <1>2, <1>3, <1>4 DEF SessionInv, SessionTypes
<1>7. (QuitIsLast /\ EveryTickAccounted)'
  BY <1>1, <1>2 DEF SessionInv, QuitIsLast, EveryTickAccounted, JobsWaiting, AskedToGo
<1>8. (NumbersRunOn /\ ~usedLate)'
  BY <1>1, <1>3 DEF SessionInv, NumbersRunOn
<1>9. QED
  BY <1>5, <1>6, <1>7, <1>8 DEF SessionInv

(* timer_cb puts a tick into the pipe.                                     *)
LEMMA TimerStep == SessionInv /\ Session!timer_cb => SessionInv'
<1> SUFFICES ASSUME SessionInv, Session!timer_cb PROVE SessionInv'
  OBVIOUS
<1> USE DEF Session!timer_cb, Session!Runs, Session!history
<1>1. to_worker' = Append(to_worker, "job") /\ main = "looping"
  OBVIOUS
<1>2. /\ to_worker' \in Seq({"job", "quit"})
      /\ Len(to_worker) \in Nat /\ Len(to_worker') = Len(to_worker) + 1
      /\ \A i \in 1 .. Len(to_worker) + 1 :
            to_worker'[i] = IF i = Len(to_worker) + 1 THEN "job" ELSE to_worker[i]
  BY <1>1, Appended DEF SessionInv, SessionTypes
<1>3. SessionTypes'
  BY <1>2 DEF SessionInv, SessionTypes
<1>4. QuitIsLast'
  BY <1>2 DEF SessionInv, SessionTypes, QuitIsLast, AskedToGo
<1>5. EveryTickAccounted'
  BY <1>2, Sizes DEF SessionInv, SessionTypes, EveryTickAccounted, JobsWaiting, AskedToGo
<1>6. (LastRound /\ NumbersRunOn /\ ~usedLate)'
  BY DEF SessionInv, LastRound, NumbersRunOn
<1>7. QED
  BY <1>3, <1>4, <1>5, <1>6 DEF SessionInv

(* on_readable takes a result out of the pipe and writes it to the         *)
(* connection, if there is one.                                            *)
LEMMA ReadableStep == SessionInv /\ Session!on_readable => SessionInv'
<1> SUFFICES ASSUME SessionInv, Session!on_readable PROVE SessionInv'
  OBVIOUS
<1> USE DEF Session!on_readable, Session!Runs, Session!workerVars
<1>1. (SessionTypes /\ LastRound /\ QuitIsLast /\ ~usedLate)'
  BY DEF SessionInv, SessionTypes, LastRound, QuitIsLast, AskedToGo
<1>2. EveryTickAccounted'
  <2>1. JobsWaiting \in Int /\ JobsWaiting' = JobsWaiting
    BY Sizes DEF SessionInv, JobsWaiting, AskedToGo
  <2>2. Len(to_main') = 0 /\ jobs_done' = jobs_done + Len(to_main)
    OBVIOUS
  <2>3. QED
    BY <2>1, <2>2, Sizes DEF SessionInv, SessionTypes, EveryTickAccounted
<1>3. NumbersRunOn'
  <2>1. CASE client_conn # "live"
    BY <2>1 DEF SessionInv, SessionTypes, NumbersRunOn
  <2>2. CASE client_conn = "live"
    <3>1. to_server' = to_server \o to_main /\ to_main' = <<>> /\ client_conn' = "live"
      BY <2>2
    <3>2. /\ Len(to_server') = Len(to_server) + Len(to_main)
          /\ \A i \in DOMAIN to_server' :
                to_server'[i] = IF i <= Len(to_server) THEN to_server[i]
                                ELSE to_main[i - Len(to_server)]
      BY <3>1 DEF SessionInv, SessionTypes
    <3>3. \A i \in DOMAIN to_server' : to_server'[i] = i - 1
      <4> SUFFICES ASSUME NEW i \in DOMAIN to_server' PROVE to_server'[i] = i - 1
        OBVIOUS
      <4>1. to_server' \in Seq(Nat) /\ i \in 1 .. Len(to_server) + Len(to_main)
        BY <1>1, <3>2 DEF SessionTypes
      <4>2. CASE i <= Len(to_server)
        BY <3>2, <4>1, <4>2 DEF SessionInv, SessionTypes, NumbersRunOn
      <4>3. CASE i > Len(to_server)
        <5>1. i - Len(to_server) \in DOMAIN to_main
          BY <4>1, <4>3 DEF SessionInv, SessionTypes
        <5>2. to_main[i - Len(to_server)] = Len(to_server) + (i - Len(to_server)) - 1
          BY <2>2, <5>1 DEF SessionInv, NumbersRunOn
        <5>3. QED
          BY <3>2, <4>1, <4>3, <5>2 DEF SessionInv, SessionTypes
      <4>4. QED
        BY <4>1, <4>2, <4>3 DEF SessionInv, SessionTypes
    <3>4. seq' = Len(to_server') + Len(to_main')
      BY <2>2, <3>1, <3>2 DEF SessionInv, SessionTypes, NumbersRunOn
    <3>5. QED
      BY <3>1, <3>3, <3>4 DEF NumbersRunOn
  <2>3. QED
    BY <2>1, <2>2
<1>4. QED
  BY <1>1, <1>2, <1>3 DEF SessionInv

(* stop_worker puts the quit job behind all others.                        *)
LEMMA StopStep == SessionInv /\ Session!stop_worker => SessionInv'
<1> SUFFICES ASSUME SessionInv, Session!stop_worker PROVE SessionInv'
  OBVIOUS
<1> USE DEF Session!stop_worker, Session!history
<1>1. /\ to_worker' \in Seq({"job", "quit"})
      /\ Len(to_worker) \in Nat /\ Len(to_worker') = Len(to_worker) + 1
      /\ \A i \in 1 .. Len(to_worker) + 1 :
            to_worker'[i] = IF i = Len(to_worker) + 1 THEN "quit" ELSE to_worker[i]
  BY Appended DEF SessionInv, SessionTypes
<1>2. SessionTypes'
  BY <1>1 DEF SessionInv, SessionTypes
<1>3. QuitIsLast'
  BY <1>1 DEF SessionInv, SessionTypes, QuitIsLast, AskedToGo
<1>4. EveryTickAccounted'
  <2>1. ~AskedToGo /\ AskedToGo'
    BY DEF SessionInv, QuitIsLast, AskedToGo
  <2>2. JobsWaiting \in Int /\ JobsWaiting' = JobsWaiting
    BY <1>1, <2>1, Sizes DEF SessionInv, JobsWaiting, AskedToGo
  <2>3. QED
    BY <2>2, Sizes DEF SessionInv, SessionTypes, EveryTickAccounted
<1>5. (LastRound /\ NumbersRunOn /\ ~usedLate)'
  BY DEF SessionInv, LastRound, NumbersRunOn
<1>6. QED
  BY <1>2, <1>3, <1>4, <1>5 DEF SessionInv

(* The worker takes its next job out of the queue, or the quit job and     *)
(* ends.                                                                   *)
LEMMA FetchStep == SessionInv /\ Session!Fetch => SessionInv'
<1> SUFFICES ASSUME SessionInv, Session!Fetch PROVE SessionInv'
  OBVIOUS
<1> USE DEF Session!Fetch, Session!history, Session!loopVars
<1>1. /\ to_worker' \in Seq({"job", "quit"})
      /\ Len(to_worker) \in Nat \ {0} /\ Len(to_worker') = Len(to_worker) - 1
      /\ Head(to_worker) = to_worker[1] /\ Head(to_worker) \in {"job", "quit"}
      /\ \A i \in 1 .. Len(to_worker) - 1 : to_worker'[i] = to_worker[i + 1]
  BY Fetched DEF SessionInv, SessionTypes
<1>2. SessionTypes'
  BY <1>1 DEF SessionInv, SessionTypes
<1>3. DOMAIN to_worker = 1 .. Len(to_worker) /\ DOMAIN to_worker' = 1 .. Len(to_worker) - 1
  BY <1>1, <1>2 DEF SessionInv, SessionTypes
<1>4. (LastRound /\ NumbersRunOn /\ ~usedLate)'
  BY DEF SessionInv, LastRound, NumbersRunOn
<1>5. CASE Head(to_worker) = "quit"
  <2>1. AskedToGo /\ Len(to_worker) = 1 /\ worker' = "gone"
    BY <1>1, <1>3, <1>5 DEF SessionInv, QuitIsLast
  <2>2. Len(to_worker') = 0
    BY <1>1, <2>1
  <2>3. to_worker' = <<>>
    BY <1>1, <2>2, EmptyIfNone
  <2>4. ~AskedToGo' /\ main' = main /\ main # "joined" /\ main # "looping"
    BY <2>1 DEF AskedToGo
  <2>5. QuitIsLast'
    BY <1>3, <2>1, <2>2, <2>3, <2>4 DEF SessionInv, QuitIsLast, AskedToGo
  <2>6. JobsWaiting = 0 /\ JobsWaiting' = 0
    BY <2>1, <2>2, <2>4 DEF JobsWaiting, AskedToGo
  <2>7. EveryTickAccounted'
    BY <2>1, <2>6, Sizes DEF SessionInv, SessionTypes, EveryTickAccounted
  <2>8. QED
    BY <1>2, <1>4, <2>5, <2>7 DEF SessionInv
<1>6. CASE Head(to_worker) # "quit"
  <2>1. worker' = "job" /\ (AskedToGo' <=> AskedToGo) /\ main' = main
    BY <1>1, <1>6 DEF AskedToGo
  <2>2. AskedToGo => Len(to_worker) > 1
    BY <1>1, <1>3, <1>6 DEF SessionInv, QuitIsLast
  <2>3. QuitIsLast'
    <3>1. ASSUME NEW i \in DOMAIN to_worker'
          PROVE  to_worker'[i] = "quit" <=> AskedToGo' /\ i = Len(to_worker')
      <4>1. to_worker'[i] = to_worker[i + 1] /\ i + 1 \in DOMAIN to_worker
        BY <1>1, <1>3
      <4>2. i + 1 = Len(to_worker) <=> i = Len(to_worker')
        BY <1>1, <1>3
      <4>3. QED
        BY <2>1, <4>1, <4>2 DEF SessionInv, QuitIsLast
    <3>2. AskedToGo' => to_worker' # <<>>
      BY <1>1, <2>1, <2>2
    <3>3. worker' # "gone" /\ main' # "joined"
      BY <2>1 DEF SessionInv, QuitIsLast
    <3>4. QED
      BY <3>1, <3>2, <3>3 DEF QuitIsLast
  <2>4. EveryTickAccounted'
    <3>1. JobsWaiting \in Int /\ JobsWaiting' = JobsWaiting - 1
      BY <1>1, <2>1, Sizes DEF SessionInv, JobsWaiting, AskedToGo
    <3>2. QED
      BY <2>1, <3>1, Sizes DEF SessionInv, SessionTypes, EveryTickAccounted
  <2>5. QED
    BY <1>2, <1>4, <2>3, <2>4 DEF SessionInv
<1>7. QED
  BY <1>5, <1>6

(* The worker has done its job and hands over the result.                  *)
LEMMA WorkStep == SessionInv /\ Session!do_in_worker_thread => SessionInv'
<1> SUFFICES ASSUME SessionInv, Session!do_in_worker_thread PROVE SessionInv'
  OBVIOUS
<1> USE DEF Session!do_in_worker_thread, Session!history, Session!loopVars
<1>1. /\ to_main' \in Seq(Nat)
      /\ Len(to_main) \in Nat /\ Len(to_main') = Len(to_main) + 1
      /\ \A i \in 1 .. Len(to_main) + 1 :
            to_main'[i] = IF i = Len(to_main) + 1 THEN seq ELSE to_main[i]
  BY Appended DEF SessionInv, SessionTypes
<1>2. (SessionTypes /\ LastRound /\ ~usedLate)'
  BY <1>1 DEF SessionInv, SessionTypes, LastRound
<1>3. QuitIsLast'
  BY DEF SessionInv, QuitIsLast, AskedToGo
<1>4. EveryTickAccounted'
  BY <1>1, Sizes DEF SessionInv, SessionTypes, EveryTickAccounted, JobsWaiting, AskedToGo
<1>5. NumbersRunOn'
  <2>1. DOMAIN to_main = 1 .. Len(to_main) /\ DOMAIN to_main' = 1 .. Len(to_main) + 1
    BY <1>1, <1>2 DEF SessionInv, SessionTypes
  <2>2. client_conn = "live" =>
          \A i \in DOMAIN to_main' : to_main'[i] = Len(to_server) + i - 1
    BY <1>1, <2>1, Sizes DEF SessionInv, NumbersRunOn
  <2>3. client_conn = "live" => seq' = Len(to_server) + Len(to_main')
    BY <1>1, Sizes DEF SessionInv, NumbersRunOn
  <2>4. QED
    BY <2>2, <2>3 DEF SessionInv, NumbersRunOn
<1>6. QED
  BY <1>2, <1>3, <1>4, <1>5 DEF SessionInv

(* A session of wt_demo.cpp ends clean, for any number of ticks: the       *)
(* deleted connection is not used after its round, the server gets every   *)
(* number in order and exactly the jobs still in the pipe after the join   *)
(* are lost. The invariant says where each tick is, that the quit job is   *)
(* the last in the queue and that the numbers run on from the server       *)
(* through the pipe to the worker.                                         *)
THEOREM SessionEnds == Session!Spec => []SessionEndsClean
<1>1. Session!Init => SessionInv
  <2> SUFFICES ASSUME Session!Init PROVE SessionInv
    OBVIOUS
  <2> USE DEF Session!Init
  <2>1. <<>> \in Seq({"job", "quit"}) /\ <<>> \in Seq(Nat)
    OBVIOUS
  <2>2. SessionTypes /\ LastRound
    BY <2>1 DEF SessionTypes, LastRound
  <2>3. Len(to_worker) = 0 /\ Len(to_main) = 0 /\ Len(to_server) = 0 /\ ~AskedToGo
    BY DEF AskedToGo
  <2>4. DOMAIN to_worker = {} /\ DOMAIN to_main = {} /\ DOMAIN to_server = {}
    OBVIOUS
  <2>5. QuitIsLast /\ EveryTickAccounted /\ NumbersRunOn
    BY <2>3, <2>4 DEF QuitIsLast, EveryTickAccounted, JobsWaiting, NumbersRunOn
  <2>6. QED
    BY <2>2, <2>5 DEF SessionInv
<1>2. SessionInv /\ [Session!Next]_(Session!vars) => SessionInv'
  BY LoopStep, TimerStep, ReadableStep, StopStep, FetchStep, WorkStep DEF Session!Next
<1>3. SessionInv => SessionEndsClean
  BY DEF SessionInv, SessionTypes, QuitIsLast, AskedToGo, EveryTickAccounted, JobsWaiting,
         NumbersRunOn, SessionEndsClean, Session!SessionEndsClean,
         Session!DeadUsedInLastRoundOnly, Session!NumbersInOrder
<1>4. QED
  BY <1>1, <1>2, <1>3, PTL DEF Session!Spec

-----------------------------------------------------------------------------
(* Calendar.                                                               *)

(* Division that rounds towards 0, by the 12 months of a year: what is left*)
(* has the sign of the number that is divided.                             *)
LEMMA Months12 ==
    ASSUME NEW m \in Int
    PROVE  /\ Date!Quotient(m, 12) \in Int
           /\ Date!Remainder(m, 12) \in -11 .. 11
           /\ m = 12 * Date!Quotient(m, 12) + Date!Remainder(m, 12)
           /\ m >= 0 => Date!Remainder(m, 12) >= 0
           /\ m <= 0 => Date!Remainder(m, 12) <= 0
BY DEF Date!Quotient, Date!Remainder

(* is_leap_year counts years from 1900 and never finds a common century;   *)
(* from 1901 to 2099 there is none.                                        *)
LEMMA LeapYears ==
    ASSUME NEW y \in 1 .. 199
    PROVE  Date!is_leap_year(y) <=> Date!IsLeap(1900 + y)
BY DEF Date!is_leap_year, Date!IsLeap, Date!Quotient, Date!Remainder

(* Every month has 28 to 31 days, from 1901 to 2099 as many as the         *)
(* calendar says.                                                          *)
LEMMA MonthLengths ==
    ASSUME NEW y \in Int, NEW mon \in 0 .. 11
    PROVE  /\ Date!get_ym_days(y, mon) \in 28 .. 31
           /\ y \in 1 .. 199 => Date!get_ym_days(y, mon) = Date!LastDay(1900 + y, mon)
BY LeapYears DEF Date!get_ym_days, Date!days_of_month, Date!LastDay

(* The day is one of the month's as get_ym_days counts them.               *)
DateInv ==
    /\ tm.tm_year \in Int
    /\ tm.tm_mon \in 0 .. 11
    /\ tm.tm_mday \in 1 .. Date!get_ym_days(tm.tm_year, tm.tm_mon)

(* Months that are counted from January, and those that are counted from   *)
(* the month of the date.                                                  *)
LEMMA MonthsOfSum ==
    ASSUME NEW year \in Int, NEW mon \in 0 .. 11, NEW from \in 0 .. 11
    PROVE  LET months == 12 * year + mon + from
           IN  (months \div 12 = year /\ months % 12 = mon) <=> from = 0
OBVIOUS

LEMMA JanuaryAddsUp ==
    ASSUME DateInv, NEW y \in Int, NEW m \in Int,
           Date!date_add_ym(tm, y, m).tm_year \in 1 .. 199
    PROVE  Date!date_add_ym(tm, y, m) = Date!Sum(tm, y, m) <=> tm.tm_mon = 0
<1> DEFINE rest == Date!Remainder(m, 12)
           borrow == IF rest < 0 THEN 1 ELSE 0
           year == tm.tm_year + y + Date!Quotient(m, 12) - borrow
           mon == rest + 12 * borrow
           months == 12 * (tm.tm_year + y) + tm.tm_mon + m
<1>1. Date!date_add_ym(tm, y, m) =
        [tm_year |-> year, tm_mon |-> mon,
         tm_mday |-> Date!Least(tm.tm_mday, Date!get_ym_days(year, mon))]
  BY DEF Date!date_add_ym
<1>2. Date!Sum(tm, y, m) =
        [tm_year |-> months \div 12, tm_mon |-> months % 12,
         tm_mday |-> Date!Least(tm.tm_mday, Date!LastDay(1900 + months \div 12, months % 12))]
  BY DEF Date!Sum
<1>3. /\ tm.tm_year \in Int /\ tm.tm_mon \in 0 .. 11
      /\ rest \in -11 .. 11 /\ Date!Quotient(m, 12) \in Int
      /\ m = 12 * Date!Quotient(m, 12) + rest
  BY Months12 DEF DateInv
<1>4. year \in Int /\ mon \in 0 .. 11 /\ months = 12 * year + mon + tm.tm_mon
  BY <1>3
<1>5. year \in 1 .. 199
  BY <1>1
<1> HIDE DEF rest, borrow, year, mon, months
<1>6. (months \div 12 = year /\ months % 12 = mon) <=> tm.tm_mon = 0
  BY <1>3, <1>4, MonthsOfSum
<1>7. Date!get_ym_days(year, mon) = Date!LastDay(1900 + year, mon)
  BY <1>4, <1>5, MonthLengths
<1>8. QED
  BY <1>1, <1>2, <1>6, <1>7

(* date_add_ym (utils.cpp) leaves a date of the calendar, for any number   *)
(* of years and months added in any order, as long as the year stays       *)
(* within 1901 .. 2099, and the sum is right for the dates of January only.*)
THEOREM DatesAddUp ==
    Date!CalendarAssumption /\ Date!Spec => []DateAddsUp
<1>1. Date!CalendarAssumption /\ Date!Init => DateInv
  BY MonthLengths DEF Date!CalendarAssumption, Date!Init, Date!Dates, DateInv
<1>2. ASSUME Date!CalendarAssumption, DateInv, NEW y \in Years, NEW m \in Months, Date!Add(y, m)
      PROVE  DateInv'
  <2> DEFINE mon == Date!Remainder(m, 12)
             borrow == IF mon < 0 THEN 1 ELSE 0
             year == tm.tm_year + y + Date!Quotient(m, 12) - borrow
  <2>1. y \in Int /\ m \in Int
    BY <1>2 DEF Date!CalendarAssumption
  <2>2. mon + 12 * borrow \in 0 .. 11 /\ year \in Int
    <3>1. mon \in -11 .. 11 /\ Date!Quotient(m, 12) \in Int
      BY <2>1, Months12
    <3>2. tm.tm_year \in Int
      BY <1>2 DEF DateInv
    <3>3. QED
      BY <2>1, <3>1, <3>2
  <2>3. /\ tm'.tm_year = year /\ tm'.tm_mon = mon + 12 * borrow
        /\ tm'.tm_mday = Date!Least(tm.tm_mday, Date!get_ym_days(year, mon + 12 * borrow))
    BY <1>2 DEF Date!Add, Date!date_add_ym
  <2>4. Date!get_ym_days(year, mon + 12 * borrow) \in 28 .. 31
    BY <2>2, MonthLengths
  <2>5. tm.tm_mday \in Int /\ tm.tm_mday >= 1
    BY <1>2, MonthLengths DEF DateInv
  <2> HIDE DEF mon, borrow, year
  <2>6. QED
    BY <2>2, <2>3, <2>4, <2>5 DEF DateInv, Date!Least
<1>3. ASSUME DateInv, tm' = tm PROVE DateInv'
  BY <1>3 DEF DateInv, Date!get_ym_days, Date!is_leap_year, Date!days_of_month,
              Date!Quotient, Date!Remainder
<1>4. Date!CalendarAssumption /\ DateInv /\ [Date!Next]_tm => DateInv'
  BY <1>2, <1>3 DEF Date!Next
<1>5. Date!CalendarAssumption => Date!CalendarAssumption'
  BY DEF Date!CalendarAssumption
<1>6. Date!CalendarAssumption /\ DateInv => DateAddsUp
  <2>1. DateInv => (tm.tm_year \in 1 .. 199 => Date!IsDate(tm))
    BY MonthLengths DEF DateInv, Date!IsDate
  <2>2. QED
    BY <2>1, JanuaryAddsUp DEF DateAddsUp, Date!DateAddsUp, Date!CalendarAssumption
<1>7. QED
  BY <1>1, <1>4, <1>5, <1>6, PTL DEF Date!Spec

-----------------------------------------------------------------------------
(* Text.                                                                   *)

(* What a loop over a sequence ends with, which starts with first and makes*)
(* a step at each element.                                                 *)
EndsWith(first, step, s, v) ==
    \E f : /\ f[0] = first
           /\ \A k \in 1 .. Len(s) : f[k] = step[<<f[k - 1], s[k]>>]
           /\ v = f[Len(s)]

(* One more element is one more step.                                      *)
LEMMA LoopGoesOn ==
    ASSUME NEW C, NEW s \in Seq(C), NEW x \in C, NEW first, NEW step, NEW v, NEW w,
           EndsWith(first, step, s, v), EndsWith(first, step, Append(s, x), w)
    PROVE  w = step[<<v, x>>]
<1> DEFINE n == Len(s)
           t == Append(s, x)
<1>1. n \in Nat /\ Len(t) = n + 1 /\ t[n + 1] = x /\ \A k \in 1 .. n : t[k] = s[k]
  OBVIOUS
<1>2. PICK f : /\ f[0] = first
               /\ \A k \in 1 .. n : f[k] = step[<<f[k - 1], s[k]>>]
               /\ v = f[n]
  BY DEF EndsWith
<1>3. PICK g : /\ g[0] = first
               /\ \A k \in 1 .. n + 1 : g[k] = step[<<g[k - 1], t[k]>>]
               /\ w = g[n + 1]
  BY <1>1 DEF EndsWith
<1> HIDE DEF n, t
<1>4. GoesOnLike(f, g, n)
  <2>1. \A k \in 1 .. n : k \in 1 .. n + 1
    BY <1>1
  <2>2. QED
    BY <1>1, <1>2, <1>3, <2>1 DEF GoesOnLike
<1>5. f[n] = g[n]
  <2>1. \A k \in 0 .. n : f[k] = g[k]
    BY <1>1, <1>4, Alike
  <2>2. QED
    BY <1>1, <2>1
<1>6. n + 1 \in 1 .. n + 1 /\ (n + 1) - 1 = n
  BY <1>1
<1>7. QED
  BY <1>1, <1>2, <1>3, <1>5, <1>6

(* A loop that stays within a set ends with something.                     *)
StaysWithin(W, first, step, s) ==
    \E f \in [0 .. Len(s) -> W] :
        /\ f[0] = first
        /\ \A k \in 1 .. Len(s) : f[k] = step[<<f[k - 1], s[k]>>]

LEMMA LoopRuns ==
    ASSUME NEW C, NEW s \in Seq(C), NEW W, NEW first \in W, NEW step \in [W \X C -> W]
    PROVE  StaysWithin(W, first, step, s)
<1> DEFINE n == Len(s)
           turn == [a \in (1 .. n) \X W |-> step[<<a[2], s[a[1]]>>]]
<1>1. n \in Nat /\ \A k \in 1 .. n : s[k] \in C
  OBVIOUS
<1> HIDE DEF n
<1>2. turn \in [(1 .. n) \X W -> W]
  BY <1>1
<1>3. \A k \in 1 .. n, w \in W : turn[<<k, w>>] = step[<<w, s[k]>>]
  OBVIOUS
<1> HIDE DEF turn
<1>4. PICK f \in [0 .. n -> W] : f[0] = first /\ \A k \in 1 .. n : f[k] = turn[<<k, f[k - 1]>>]
  <2>1. Runs(W, first, n, turn)
    BY <1>1, <1>2, Recursion
  <2>2. QED
    BY <2>1 DEF Runs
<1>5. ASSUME NEW k \in 1 .. n PROVE f[k] = step[<<f[k - 1], s[k]>>]
  <2>1. k - 1 \in 0 .. n
    BY <1>1
  <2>2. f[k - 1] \in W
    BY <1>4, <2>1
  <2>3. QED
    BY <1>3, <1>4, <2>2
<1>6. QED
  BY <1>4, <1>5 DEF n, StaysWithin

(* str_split is such a loop.                                               *)
Tokens(C) == {t \in Seq(Seq(C)) : t # <<>>}
Took(t, x, c) ==
    IF x = c THEN Append(t, <<>>) ELSE [t EXCEPT ![Len(t)] = Append(t[Len(t)], x)]

(* The last token changes, or another one begins.                          *)
Takes(C, t, x, c) ==
    /\ Took(t, x, c) \in Tokens(C)
    /\ Len(t) \in Nat \ {0}
    /\ x = c => Took(t, x, c) = Append(t, <<>>)
    /\ x # c => \E h \in Seq(Seq(C)), l \in Seq(C) :
                   t = Append(h, l) /\ Took(t, x, c) = Append(h, Append(l, x))

LEMMA TookIs ==
    ASSUME NEW C, NEW t \in Tokens(C), NEW x \in C, NEW c
    PROVE  Takes(C, t, x, c)
<1>1. t \in Seq(Seq(C)) /\ t # <<>> /\ Len(t) \in Nat \ {0}
  BY DEF Tokens
<1>2. CASE x = c
  <2>1. <<>> \in Seq(C)
    OBVIOUS
  <2>2. Append(t, <<>>) \in Seq(Seq(C)) /\ Append(t, <<>>) # <<>>
    BY <1>1, <2>1
  <2>3. QED
    BY <1>1, <1>2, <2>2 DEF Took, Tokens, Takes
<1>3. CASE x # c
  <2>1. PICK h \in Seq(Seq(C)), l \in Seq(C) : t = Append(h, l)
    BY <1>1, SequenceEmptyOrAppend
  <2> DEFINE k == Append(l, x)
             n == Len(h)
  <2>2. k \in Seq(C) /\ n \in Nat
    OBVIOUS
  <2> HIDE DEF k
  <2>3. Len(t) = n + 1 /\ t[n + 1] = l /\ \A i \in 1 .. n : t[i] = h[i]
    BY <2>1
  <2>4. [t EXCEPT ![n + 1] = k] = Append(h, k)
    <3> DEFINE u == [t EXCEPT ![n + 1] = k]
               v == Append(h, k)
    <3>1. u \in Seq(Seq(C)) /\ Len(u) = n + 1 /\ u[n + 1] = k
          /\ \A i \in 1 .. n : u[i] = t[i]
      <4>1. n + 1 \in 1 .. Len(t) /\ \A i \in 1 .. n : i # n + 1 /\ i \in 1 .. Len(t)
        BY <2>2, <2>3
      <4>2. QED
        BY <1>1, <2>2, <2>3, <4>1
    <3>2. v \in Seq(Seq(C)) /\ Len(v) = n + 1 /\ v[n + 1] = k
          /\ \A i \in 1 .. n : v[i] = h[i]
      BY <2>1, <2>2
    <3> HIDE DEF u, v, n
    <3>3. \A i \in 1 .. n + 1 : u[i] = v[i]
      BY <2>2, <2>3, <3>1, <3>2
    <3>4. u = v
      BY <3>1, <3>2, <3>3, SeqEqual
    <3>5. QED
      BY <3>4 DEF u, v
  <2>5. Took(t, x, c) = Append(h, k)
    BY <1>3, <2>3, <2>4 DEF Took, k
  <2>6. Append(h, k) \in Seq(Seq(C)) /\ Append(h, k) # <<>>
    BY <2>2
  <2>7. Took(t, x, c) \in Tokens(C)
    BY <2>5, <2>6 DEF Tokens
  <2>8. QED
    BY <1>1, <1>3, <2>1, <2>5, <2>7 DEF k, Takes
<1>4. QED
  BY <1>2, <1>3

LEMMA SplitIs ==
    ASSUME NEW C, NEW c, NEW s \in Seq(C)
    PROVE  /\ Texts!str_split(s, c) \in Tokens(C)
           /\ EndsWith(<< <<>> >>, [a \in Tokens(C) \X C |-> Took(a[1], a[2], c)], s,
                       Texts!str_split(s, c))
<1> DEFINE n == Len(s)
           first == << <<>> >>
           step == [a \in Tokens(C) \X C |-> Took(a[1], a[2], c)]
           F(f) == [k \in 0 .. n |->
                       IF k = 0 THEN first
                       ELSE IF s[k] = c THEN Append(f[k - 1], <<>>)
                       ELSE [f[k - 1] EXCEPT ![Len(f[k - 1])] = Append(f[k - 1][Len(f[k - 1])], s[k])]]
           tokens == CHOOSE f : f = F(f)
<1>1. Texts!str_split(s, c) = tokens[n]
  BY DEF Texts!str_split
<1>2. n \in Nat /\ \A k \in 1 .. n : s[k] \in C
  OBVIOUS
<1> HIDE DEF n
<1>3. first \in Tokens(C)
  BY DEF Tokens
<1>4. step \in [Tokens(C) \X C -> Tokens(C)]
  BY TookIs DEF Takes
<1>5. PICK g \in [0 .. n -> Tokens(C)] :
          /\ g[0] = first
          /\ \A k \in 1 .. n : g[k] = step[<<g[k - 1], s[k]>>]
  <2> HIDE DEF first, step
  <2>1. StaysWithin(Tokens(C), first, step, s)
    BY <1>3, <1>4, LoopRuns
  <2>2. QED
    BY <2>1 DEF StaysWithin, n
<1>6. \A k \in 1 .. n : g[k] = Took(g[k - 1], s[k], c)
  <2> TAKE k \in 1 .. n
  <2>1. k - 1 \in 0 .. n
    BY <1>2
  <2>2. g[k - 1] \in Tokens(C) /\ s[k] \in C
    BY <1>2, <1>5, <2>1
  <2>3. step[<<g[k - 1], s[k]>>] = Took(g[k - 1], s[k], c)
    BY <2>2
  <2> HIDE DEF step, first
  <2>4. QED
    BY <1>5, <2>3
<1>7. \E f : f = F(f)
  <2>1. \A k \in 0 .. n : g[k] = IF k = 0 THEN first
                       ELSE IF s[k] = c THEN Append(g[k - 1], <<>>)
                       ELSE [g[k - 1] EXCEPT ![Len(g[k - 1])] = Append(g[k - 1][Len(g[k - 1])], s[k])]
    <3> TAKE k \in 0 .. n
    <3>1. CASE k = 0
      BY <3>1, <1>5
    <3>2. CASE k # 0
      <4>1. k \in 1 .. n
        BY <3>2, <1>2
      <4>2. QED
        BY <4>1, <3>2, <1>6 DEF Took
    <3>3. QED
      BY <3>1, <3>2
  <2> HIDE DEF first
  <2>2. g = [k \in 0 .. n |-> IF k = 0 THEN first
                       ELSE IF s[k] = c THEN Append(g[k - 1], <<>>)
                       ELSE [g[k - 1] EXCEPT ![Len(g[k - 1])] = Append(g[k - 1][Len(g[k - 1])], s[k])]]
    BY <1>5, <2>1, Zenon
  <2>3. g = F(g)
    BY <2>2
  <2> HIDE DEF F
  <2>4. QED
    BY <2>3
<1>8. tokens = F(tokens)
  <2> HIDE DEF F
  <2>1. QED
    BY <1>7
<1> HIDE DEF tokens
<1>9. tokens[0] = first /\ \A k \in 1 .. n : tokens[k] = Took(tokens[k - 1], s[k], c)
  <2> HIDE DEF first
  <2>1. tokens[0] = first
    BY <1>2, <1>8
  <2>2. ASSUME NEW k \in 1 .. n PROVE tokens[k] = Took(tokens[k - 1], s[k], c)
    <3>1. k \in 0 .. n /\ k # 0
      BY <1>2
    <3>2. QED
      BY <3>1, <1>8, Zenon DEF Took
  <2>3. QED
    BY <2>1, <2>2
<1> HIDE DEF first, step, F
<1>10. \A k \in 0 .. n : tokens[k] = g[k]
  <2>1. GoesOnLike(tokens, g, n)
    BY <1>5, <1>6, <1>9 DEF GoesOnLike
  <2>2. QED
    BY <1>2, <2>1, Alike
<1>11. Texts!str_split(s, c) = g[n] /\ g[n] \in Tokens(C)
  BY <1>1, <1>2, <1>5, <1>10
<1>12. EndsWith(first, step, s, g[n])
  BY <1>5 DEF EndsWith, n
<1>13. QED
  BY <1>11, <1>12 DEF first, step

LEMMA SplitSteps ==
    ASSUME NEW C, NEW c, NEW s \in Seq(C), NEW x \in C
    PROVE  /\ Texts!str_split(<<>>, c) = << <<>> >>
           /\ Texts!str_split(s, c) \in Tokens(C)
           /\ Texts!str_split(Append(s, x), c) = Took(Texts!str_split(s, c), x, c)
<1> DEFINE first == << <<>> >>
           step == [a \in Tokens(C) \X C |-> Took(a[1], a[2], c)]
<1>1. \A r \in Seq(C) : /\ Texts!str_split(r, c) \in Tokens(C)
                        /\ EndsWith(first, step, r, Texts!str_split(r, c))
  BY SplitIs, Zenon
<1>2. \A t \in Tokens(C) : step[<<t, x>>] = Took(t, x, c)
  OBVIOUS
<1> HIDE DEF first, step
<1>3. Texts!str_split(<<>>, c) = first
  <2>1. <<>> \in Seq(C) /\ Len(<<>>) = 0
    OBVIOUS
  <2>2. EndsWith(first, step, <<>>, Texts!str_split(<<>>, c))
    BY <1>1, <2>1
  <2>3. QED
    BY <2>1, <2>2 DEF EndsWith
<1>4. Texts!str_split(Append(s, x), c) = Took(Texts!str_split(s, c), x, c)
  <2> DEFINE v == Texts!str_split(s, c)
             w == Texts!str_split(Append(s, x), c)
  <2>1. Append(s, x) \in Seq(C)
    OBVIOUS
  <2>2. v \in Tokens(C) /\ EndsWith(first, step, s, v) /\ EndsWith(first, step, Append(s, x), w)
    BY <1>1, <2>1
  <2> HIDE DEF v, w
  <2>3. w = step[<<v, x>>]
    BY <2>2, LoopGoesOn
  <2>4. QED
    BY <1>2, <2>2, <2>3 DEF v, w
<1>5. QED
  BY <1>1, <1>3, <1>4 DEF first

(* FlattenSeq with one sequence more.                                      *)
LEMMA FlattenSteps ==
    ASSUME NEW S, NEW q \in Seq(Seq(S)), NEW t \in Seq(S)
    PROVE  /\ Texts!FlattenSeq(<<>>) = <<>>
           /\ Texts!FlattenSeq(q) \in Seq(S)
           /\ Texts!FlattenSeq(Append(q, t)) = Texts!FlattenSeq(q) \o t
<1> DEFINE n == Len(q)
           r == Append(q, t)
<1>1. \A u : Texts!FlattenSeq(u) = String!FlattenSeq(u)
  BY DEF Texts!FlattenSeq, String!FlattenSeq
<1>2. n \in Nat /\ r \in Seq(Seq(S)) /\ Len(r) = n + 1 /\ r[n + 1] = t
      /\ \A k \in 1 .. n : r[k] = q[k]
  OBVIOUS
<1>3. PICK f \in [0 .. n -> Seq(S)] :
          /\ f[0] = <<>>
          /\ \A k \in 1 .. n : f[k] = f[k - 1] \o q[k]
          /\ String!FlattenSeq(q) = f[n]
  BY FlattenIs
<1> HIDE DEF r
<1>4. PICK g :
          /\ g[0] = <<>>
          /\ \A k \in 1 .. n + 1 : g[k] = g[k - 1] \o r[k]
          /\ String!FlattenSeq(r) = g[n + 1]
  <2>1. PICK g \in [0 .. Len(r) -> Seq(S)] :
            /\ g[0] = <<>>
            /\ \A k \in 1 .. Len(r) : g[k] = g[k - 1] \o r[k]
            /\ String!FlattenSeq(r) = g[Len(r)]
    BY <1>2, FlattenIs
  <2>2. QED
    BY <1>2, <2>1
<1> HIDE DEF n
<1>5. GoesOnLike(f, g, n)
  <2>1. \A k \in 1 .. n : k \in 1 .. n + 1
    BY <1>2
  <2>2. QED
    BY <1>2, <1>3, <1>4, <2>1 DEF GoesOnLike
<1>6. f[n] = g[n] /\ f[n] \in Seq(S)
  <2>1. \A k \in 0 .. n : f[k] = g[k]
    BY <1>2, <1>5, Alike
  <2>2. n \in 0 .. n
    BY <1>2
  <2>3. QED
    BY <1>3, <2>1, <2>2
<1>7. n + 1 \in 1 .. n + 1 /\ (n + 1) - 1 = n
  BY <1>2
<1>8. Texts!FlattenSeq(<<>>) = <<>>
  <2>1. Len(<<>>) = 0
    OBVIOUS
  <2>2. QED
    BY <2>1 DEF Texts!FlattenSeq
<1>9. QED
  BY <1>1, <1>2, <1>3, <1>4, <1>6, <1>7, <1>8 DEF r

(* One token more is put behind what is between the tokens.                *)
Joins(C, w, t, q) ==
    /\ Texts!Join(<<t>>, w) = t
    /\ q \in Tokens(C) => /\ Texts!Join(q, w) \in Seq(C)
                          /\ Texts!Join(Append(q, t), w) = Texts!Join(q, w) \o w \o t

LEMMA JoinSteps == ASSUME NEW C, NEW w \in Seq(C), NEW t \in Seq(C), NEW u PROVE Joins(C, w, t, u)
<1> DEFINE Parted(q) == [k \in DOMAIN q |-> IF k = 1 THEN q[1] ELSE w \o q[k]]
<1>1. \A q : Texts!Join(q, w) = Texts!FlattenSeq(Parted(q))
  BY DEF Texts!Join
<1>2. Parted(<<t>>) = Append(<<>>, t)
  OBVIOUS
<1>3. ASSUME NEW q \in Tokens(C)
      PROVE  /\ Parted(q) \in Seq(Seq(C))
             /\ Parted(Append(q, t)) = Append(Parted(q), w \o t)
  <2>1. q \in Seq(Seq(C)) /\ q # <<>> /\ Len(q) \in Nat /\ Len(q) # 0
    BY DEF Tokens
  <2>2. DOMAIN q = 1 .. Len(q) /\ \A k \in 1 .. Len(q) : q[k] \in Seq(C)
    BY <2>1
  <2>3. Parted(q) \in Seq(Seq(C)) /\ Len(Parted(q)) = Len(q)
    <3>1. \A k \in 1 .. Len(q) : (IF k = 1 THEN q[1] ELSE w \o q[k]) \in Seq(C)
      BY <2>1, <2>2
    <3>2. Parted(q) \in [1 .. Len(q) -> Seq(C)]
      BY <2>2, <3>1
    <3>3. QED
      BY <2>1, <3>2
  <2>4. \A k \in 1 .. Len(q) : Parted(q)[k] = IF k = 1 THEN q[1] ELSE w \o q[k]
    BY <2>2
  <2> DEFINE r == Append(q, t)
             a == Parted(r)
             b == Append(Parted(q), w \o t)
             n == Len(q)
  <2> n \in Nat /\ n # 0
    BY <2>1
  <2>5. DOMAIN r = 1 .. n + 1 /\ r[n + 1] = t /\ \A k \in 1 .. n : r[k] = q[k]
    BY <2>1
  <2>6. a = [k \in 1 .. n + 1 |-> IF k = 1 THEN r[1] ELSE w \o r[k]]
    <3> HIDE DEF r, n
    <3>1. QED
      BY <2>5, Zenon
  <2>7. Len(b) = n + 1 /\ b \in Seq(Seq(C)) /\ b[n + 1] = w \o t
        /\ \A k \in 1 .. n : b[k] = Parted(q)[k]
    <3>1. w \o t \in Seq(C)
      OBVIOUS
    <3> HIDE DEF Parted
    <3>2. QED
      BY <2>1, <2>3, <3>1
  <2> HIDE DEF Parted, r, a, b
  <2>8. a \in Seq(Seq(C)) /\ Len(a) = n + 1
    <3>1. \A k \in 1 .. n + 1 : (IF k = 1 THEN r[1] ELSE w \o r[k]) \in Seq(C)
      <4>1. \A k \in 1 .. n + 1 : r[k] \in Seq(C)
        <5>1. \A k \in 1 .. n : r[k] \in Seq(C)
          BY <2>2, <2>5
        <5>2. \A k \in 1 .. n + 1 : k \in 1 .. n \/ k = n + 1
          OBVIOUS
        <5>3. QED
          BY <2>5, <5>1, <5>2
      <4>2. 1 \in 1 .. n + 1
        BY <2>1
      <4>3. \A k \in 1 .. n + 1 : w \o r[k] \in Seq(C)
        <5> TAKE k \in 1 .. n + 1
        <5>1. r[k] \in Seq(C)
          BY <4>1
        <5>2. QED
          BY <5>1
      <4>4. QED
        BY <4>1, <4>2, <4>3
    <3>2. a \in [1 .. n + 1 -> Seq(C)]
      BY <2>6, <3>1
    <3>3. n + 1 \in Nat
      BY <2>1
    <3>4. QED
      BY <3>2, <3>3
  <2>9. \A k \in 1 .. n + 1 : a[k] = b[k]
    <3> HIDE DEF n
    <3> TAKE k \in 1 .. n + 1
    <3>1. a[k] = IF k = 1 THEN r[1] ELSE w \o r[k]
      BY <2>6
    <3>2. CASE k = n + 1
      <4>1. k # 1
        BY <3>2
      <4>2. QED
        BY <2>5, <2>7, <3>1, <3>2, <4>1
    <3>3. CASE k # n + 1
      <4>1. k \in 1 .. n /\ 1 \in 1 .. n
        BY <3>3
      <4>2. r[k] = q[k] /\ r[1] = q[1] /\ b[k] = Parted(q)[k]
        BY <2>5, <2>7, <4>1
      <4>3. QED
        BY <2>4, <3>1, <4>1, <4>2 DEF n
    <3>4. QED
      BY <3>2, <3>3
  <2>10. a = b
    <3> HIDE DEF n
    <3>1. QED
      BY <2>7, <2>8, <2>9
  <2>11. QED
    BY <2>3, <2>10 DEF a, b, r
<1> HIDE DEF Parted
<1>4. Texts!Join(<<t>>, w) = t
  <2>1. <<>> \in Seq(Seq(C)) /\ <<>> \o t = t
    OBVIOUS
  <2>2. Texts!FlattenSeq(Append(<<>>, t)) = Texts!FlattenSeq(<<>>) \o t
    BY <2>1, FlattenSteps
  <2>3. Texts!FlattenSeq(<<>>) = <<>>
    BY <2>1, FlattenSteps
  <2>4. QED
    BY <1>1, <1>2, <2>1, <2>2, <2>3
<1>5. ASSUME NEW q \in Tokens(C)
      PROVE  /\ Texts!Join(q, w) \in Seq(C)
             /\ Texts!Join(Append(q, t), w) = Texts!Join(q, w) \o w \o t
  <2>1. w \o t \in Seq(C)
    OBVIOUS
  <2>2. /\ Texts!FlattenSeq(Parted(q)) \in Seq(C)
        /\ Texts!FlattenSeq(Append(Parted(q), w \o t)) = Texts!FlattenSeq(Parted(q)) \o (w \o t)
    BY <1>3, <2>1, FlattenSteps
  <2> DEFINE j == Texts!Join(q, w)
  <2>3. j \in Seq(C) /\ Texts!Join(Append(q, t), w) = j \o (w \o t)
    BY <1>1, <1>3, <2>2
  <2> HIDE DEF j
  <2>4. j \o (w \o t) = (j \o w) \o t
    BY <2>3, ConcatAssociative
  <2>5. QED
    BY <2>3, <2>4 DEF j
<1>6. QED
  BY <1>4, <1>5 DEF Joins

(* One character more is one character more, or what is between tokens.    *)
LEMMA JoinTook ==
    ASSUME NEW C, NEW w \in Seq(C), NEW q \in Tokens(C), NEW x \in C, NEW c
    PROVE  Texts!Join(Took(q, x, c), w) = Texts!Join(q, w) \o (IF x = c THEN w ELSE <<x>>)
<1> DEFINE j == Texts!Join(q, w)
<1>1. <<>> \in Seq(C) /\ <<x>> \in Seq(C)
  OBVIOUS
<1>2. j \in Seq(C) /\ Texts!Join(Append(q, <<>>), w) = j \o w \o <<>>
  <2>1. Joins(C, w, <<>>, q)
    BY <1>1, JoinSteps
  <2>2. QED
    BY <2>1 DEF Joins
<1>3. Takes(C, q, x, c)
  BY TookIs
<1>4. CASE x = c
  <2>1. Took(q, x, c) = Append(q, <<>>)
    BY <1>4, <1>3 DEF Takes
  <2> HIDE DEF j
  <2>2. j \o w \o <<>> = j \o w
    BY <1>2
  <2>3. QED
    BY <1>2, <1>4, <2>1, <2>2 DEF j
<1>5. CASE x # c
  <2>1. PICK h \in Seq(Seq(C)), l \in Seq(C) :
            q = Append(h, l) /\ Took(q, x, c) = Append(h, Append(l, x))
    BY <1>5, <1>3 DEF Takes
  <2> DEFINE k == Append(l, x)
  <2>2. k \in Seq(C) /\ k = l \o <<x>>
    OBVIOUS
  <2>3. Took(q, x, c) = Append(h, k)
    BY <2>1
  <2> HIDE DEF k
  <2>4. Joins(C, w, l, h) /\ Joins(C, w, k, h)
    BY <2>2, JoinSteps
  <2>5. CASE h = <<>>
    <3>1. q = <<l>> /\ Took(q, x, c) = <<k>>
      BY <2>1, <2>3, <2>5
    <3>2. QED
      BY <1>5, <2>2, <2>4, <3>1 DEF Joins
  <2>6. CASE h # <<>>
    <3>1. h \in Tokens(C)
      BY <2>6 DEF Tokens
    <3> DEFINE i == Texts!Join(h, w)
               g == i \o w
    <3>2. i \in Seq(C) /\ j = g \o l /\ Texts!Join(Took(q, x, c), w) = g \o k
      BY <2>1, <2>3, <2>4, <3>1 DEF Joins
    <3> HIDE DEF i, j
    <3>3. g \in Seq(C)
      BY <3>2
    <3> HIDE DEF g
    <3>4. g \o (l \o <<x>>) = (g \o l) \o <<x>>
      BY <1>1, <3>3, ConcatAssociative
    <3>5. QED
      BY <1>5, <2>2, <3>2, <3>4 DEF j
  <2>7. QED
    BY <2>5, <2>6
<1>6. QED
  BY <1>4, <1>5

(* The tokens of s are the text, and there is no c in any.                 *)
Apart(s, c) ==
    /\ Texts!Join(Texts!str_split(s, c), <<c>>) = s
    /\ \A k \in DOMAIN Texts!str_split(s, c) :
          \A i \in 1 .. Len(Texts!str_split(s, c)[k]) : Texts!str_split(s, c)[k][i] # c

LEMMA ApartGrows ==
    ASSUME NEW C, NEW s \in Seq(C), NEW x \in C, NEW c \in C, Apart(s, c)
    PROVE  Apart(Append(s, x), c)
<1> DEFINE t == Texts!str_split(s, c)
           u == Texts!str_split(Append(s, x), c)
<1>1. t \in Tokens(C) /\ u = Took(t, x, c) /\ <<c>> \in Seq(C)
  BY SplitSteps
<1>2. Texts!Join(t, <<c>>) = s /\ \A k \in DOMAIN t : \A i \in 1 .. Len(t[k]) : t[k][i] # c
  BY DEF Apart
<1> HIDE DEF t, u
<1>3. Takes(C, t, x, c) /\ t \in Seq(Seq(C))
  BY <1>1, TookIs DEF Tokens
<1>4. Texts!Join(u, <<c>>) = Append(s, x)
  <2>1. Texts!Join(u, <<c>>) = s \o (IF x = c THEN <<c>> ELSE <<x>>)
    <3> DEFINE w == <<c>>
    <3>1. w \in Seq(C)
      BY <1>1
    <3> HIDE DEF w
    <3>2. Texts!Join(Took(t, x, c), w) = Texts!Join(t, w) \o (IF x = c THEN w ELSE <<x>>)
      BY <1>1, <3>1, JoinTook
    <3>3. QED
      BY <1>1, <1>2, <3>2 DEF w
  <2>2. Append(s, x) = s \o <<x>>
    OBVIOUS
  <2>3. QED
    BY <2>1, <2>2
<1>5. \A k \in DOMAIN u : \A i \in 1 .. Len(u[k]) : u[k][i] # c
  <2>1. CASE x = c
    <3>1. u = Append(t, <<>>) /\ <<>> \in Seq(C)
      BY <1>1, <1>3, <2>1 DEF Takes
    <3>2. \A k \in DOMAIN u : (k \in DOMAIN t /\ u[k] = t[k]) \/ u[k] = <<>>
      BY <1>3, <3>1
    <3>3. QED
      BY <1>2, <3>2
  <2>2. CASE x # c
    <3>1. PICK h \in Seq(Seq(C)), l \in Seq(C) :
              t = Append(h, l) /\ u = Append(h, Append(l, x))
      BY <1>1, <1>3, <2>2 DEF Takes
    <3> DEFINE m == Append(l, x)
               n == Len(h)
    <3>2. m \in Seq(C) /\ Len(m) = Len(l) + 1 /\ m[Len(l) + 1] = x /\ Len(l) \in Nat
          /\ \A i \in 1 .. Len(l) : m[i] = l[i]
      OBVIOUS
    <3> HIDE DEF m
    <3>3. u = Append(h, m)
      BY <3>1 DEF m
    <3>4. n \in Nat /\ DOMAIN u = 1 .. n + 1 /\ u[n + 1] = m /\ \A k \in 1 .. n : u[k] = h[k]
      BY <3>2, <3>3
    <3>5. DOMAIN t = 1 .. n + 1 /\ t[n + 1] = l /\ \A k \in 1 .. n : t[k] = h[k]
      BY <3>1
    <3> HIDE DEF n
    <3>6. \A i \in 1 .. Len(m) : m[i] # c
      <4>1. n + 1 \in DOMAIN t
        BY <3>4, <3>5
      <4>2. \A i \in 1 .. Len(l) : l[i] # c
        BY <1>2, <3>5, <4>1
      <4>3. QED
        BY <2>2, <3>2, <4>2
    <3>7. \A k \in DOMAIN u : (k \in DOMAIN t /\ u[k] = t[k]) \/ u[k] = m
      BY <3>4, <3>5
    <3>8. QED
      BY <1>2, <3>6, <3>7
  <2>3. QED
    BY <2>1, <2>2
<1>6. QED
  BY <1>4, <1>5 DEF Apart, u

(* There is one token if there is no c, and there are two for one.         *)
NoneOf(s, c, n) == \A i \in 1 .. n : s[i] # c
OneOf(s, c, n)  == \E i \in 1 .. n : \A j \in 1 .. n : s[j] = c <=> j = i
Counted(s, c) ==
    /\ Len(Texts!str_split(s, c)) = 1 <=> NoneOf(s, c, Len(s))
    /\ Len(Texts!str_split(s, c)) = 2 <=> OneOf(s, c, Len(s))

LEMMA CountGrows ==
    ASSUME NEW C, NEW s \in Seq(C), NEW x \in C, NEW c, Counted(s, c)
    PROVE  Counted(Append(s, x), c)
<1> DEFINE t == Texts!str_split(s, c)
           u == Texts!str_split(Append(s, x), c)
           r == Append(s, x)
           n == Len(s)
<1>1. t \in Tokens(C) /\ u = Took(t, x, c)
  BY SplitSteps
<1>2. (Len(t) = 1 <=> NoneOf(s, c, n)) /\ (Len(t) = 2 <=> OneOf(s, c, n))
  BY DEF Counted
<1>3. n \in Nat /\ Len(r) = n + 1 /\ r[n + 1] = x /\ \A i \in 1 .. n : r[i] = s[i]
  OBVIOUS
<1> HIDE DEF t, u, r, n
<1>4. Takes(C, t, x, c) /\ t \in Seq(Seq(C))
  BY <1>1, TookIs DEF Tokens
<1>5. Len(t) \in Nat \ {0} /\ Len(u) = IF x = c THEN Len(t) + 1 ELSE Len(t)
  <2>1. CASE x = c
    <3>1. u = Append(t, <<>>)
      BY <1>1, <1>4, <2>1 DEF Takes
    <3>2. QED
      BY <1>4, <2>1, <3>1 DEF Takes
  <2>2. CASE x # c
    <3>1. PICK h \in Seq(Seq(C)), l \in Seq(C) :
              t = Append(h, l) /\ u = Append(h, Append(l, x))
      BY <1>1, <1>4, <2>2 DEF Takes
    <3>2. Len(Append(h, l)) = Len(Append(h, Append(l, x)))
      OBVIOUS
    <3>3. QED
      BY <1>4, <2>2, <3>1, <3>2 DEF Takes
  <2>3. QED
    BY <2>1, <2>2
<1>6. n + 1 \in 1 .. n + 1 /\ \A i \in 1 .. n + 1 : i \in 1 .. n \/ i = n + 1
  BY <1>3
<1>7. \A i \in 1 .. n : i \in 1 .. n + 1 /\ i # n + 1
  BY <1>3
<1>8. ASSUME Len(u) = 1 <=> NoneOf(r, c, n + 1), Len(u) = 2 <=> OneOf(r, c, n + 1)
       PROVE  Counted(Append(s, x), c)
  <2>1. (Len(u) = 1 <=> NoneOf(r, c, Len(r))) /\ (Len(u) = 2 <=> OneOf(r, c, Len(r)))
    BY <1>3, <1>8
  <2>2. QED
    BY <2>1 DEF Counted, u, r
<1>9. CASE x = c
  <2>1. ~ NoneOf(r, c, n + 1)
    BY <1>3, <1>6, <1>9 DEF NoneOf
  <2>2. NoneOf(s, c, n) <=> OneOf(r, c, n + 1)
    <3>1. ASSUME \A i \in 1 .. n : s[i] # c
          PROVE  \A j \in 1 .. n + 1 : r[j] = c <=> j = n + 1
      BY <1>3, <1>6, <1>7, <1>9, <3>1
    <3>2. ASSUME NEW i \in 1 .. n + 1, \A j \in 1 .. n + 1 : r[j] = c <=> j = i
          PROVE  \A k \in 1 .. n : s[k] # c
      <4>1. i = n + 1
        BY <1>3, <1>6, <1>9, <3>2
      <4>2. QED
        BY <1>3, <1>7, <3>2, <4>1
    <3>3. QED
      BY <1>6, <3>1, <3>2 DEF NoneOf, OneOf
  <2>3. Len(u) # 1 /\ (Len(u) = 2 <=> Len(t) = 1)
    <3> DEFINE a == Len(t)
               b == Len(u)
    <3>1. a \in Nat \ {0} /\ b = a + 1
      BY <1>5, <1>9
    <3> HIDE DEF a, b
    <3>2. b # 1 /\ (b = 2 <=> a = 1)
      BY <3>1
    <3>3. QED
      BY <3>2 DEF a, b
  <2>4. QED
    BY <1>2, <1>8, <2>1, <2>2, <2>3
<1>10. CASE x # c
  <2>1. NoneOf(s, c, n) <=> NoneOf(r, c, n + 1)
    BY <1>3, <1>6, <1>7, <1>10 DEF NoneOf
  <2>2. OneOf(s, c, n) <=> OneOf(r, c, n + 1)
    <3>1. ASSUME NEW i \in 1 .. n, \A j \in 1 .. n : s[j] = c <=> j = i
          PROVE  \A j \in 1 .. n + 1 : r[j] = c <=> j = i
      BY <1>3, <1>6, <1>7, <1>10, <3>1
    <3>2. ASSUME NEW i \in 1 .. n + 1, \A j \in 1 .. n + 1 : r[j] = c <=> j = i
          PROVE  i \in 1 .. n /\ \A j \in 1 .. n : s[j] = c <=> j = i
      <4>1. i \in 1 .. n
        BY <1>3, <1>6, <1>10, <3>2
      <4>2. QED
        BY <1>3, <1>7, <3>2, <4>1
    <3>3. QED
      BY <1>7, <3>1, <3>2 DEF OneOf
  <2>3. Len(u) = Len(t)
    BY <1>5, <1>10
  <2>4. QED
    BY <1>2, <1>8, <2>1, <2>2, <2>3
<1>11. QED
  BY <1>9, <1>10

(* replace_them_all of one character, from each position on.               *)
Instead(x, c, w) == IF x = c THEN w ELSE <<x>>
Replaces(C, s, c, w) ==
    \E f \in [1 .. Len(s) + 1 -> Seq(C)] :
        /\ f[Len(s) + 1] = <<>>
        /\ \A i \in 1 .. Len(s) : f[i] = Instead(s[i], c, w) \o f[i + 1]
        /\ Texts!Replaced(s, <<c>>, w) = f[1]

(* One element of a sequence, cut out of it.                               *)
LEMMA OneOfSeq ==
    ASSUME NEW C, NEW s \in Seq(C), NEW i \in 1 .. Len(s)
    PROVE  SubSeq(s, i, i) = <<s[i]>>
<1> DEFINE q == SubSeq(s, i, i)
           o == <<s[i]>>
<1>1. i \in Int /\ (\A j \in i .. i : s[j] \in C) /\ s[i] \in C
  OBVIOUS
<1>2. /\ q \in Seq(C)
      /\ Len(q) = IF i <= i THEN i - i + 1 ELSE 0
      /\ \A j \in 1 .. i - i + 1 : q[j] = s[i + j - 1]
  BY <1>1, SubSeqProperties
<1>3. i - i + 1 = 1 /\ i <= i /\ i + 1 - 1 = i
  BY <1>1
<1>4. o \in Seq(C) /\ Len(o) = 1 /\ o[1] = s[i]
  BY <1>1
<1> HIDE DEF q, o
<1>5. Len(q) = 1
  BY <1>2, <1>3
<1>6. q[1] = s[i]
  <2>1. 1 \in 1 .. i - i + 1
    BY <1>3
  <2>2. q[1] = s[i + 1 - 1]
    BY <1>2, <2>1
  <2>3. QED
    BY <1>3, <2>2
<1>7. \A j \in 1 .. Len(q) : q[j] = o[j]
  BY <1>4, <1>5, <1>6
<1>8. q = o
  BY <1>2, <1>4, <1>5, <1>7, SeqEqual
<1>9. QED
  BY <1>8 DEF q, o

LEMMA ReplacedIs ==
    ASSUME NEW C, NEW s \in Seq(C), NEW c, NEW w \in Seq(C)
    PROVE  Replaces(C, s, c, w)
<1> DEFINE n == Len(s)
           W == Seq(C)
           first == <<>>
           step == [a \in (1 .. n) \X W |-> Instead(s[n + 1 - a[1]], c, w) \o a[2]]
           F(f) == [i \in 1 .. n + 1 |->
                       IF i > n THEN <<>>
                       ELSE IF i + Len(<<c>>) - 1 <= n /\ SubSeq(s, i, i + Len(<<c>>) - 1) = <<c>>
                       THEN w \o f[i + Len(<<c>>)]
                       ELSE <<s[i]>> \o f[i + 1]]
           from == CHOOSE f : f = F(f)
<1>1. Texts!Replaced(s, <<c>>, w) = from[1]
  BY DEF Texts!Replaced
<1>2. n \in Nat /\ (\A i \in 1 .. n : s[i] \in C /\ SubSeq(s, i, i) = <<s[i]>>)
      /\ Len(<<c>>) = 1 /\ first \in W
  <2>1. ASSUME NEW i \in 1 .. n PROVE SubSeq(s, i, i) = <<s[i]>>
    BY <2>1, OneOfSeq
  <2>2. QED
    BY <2>1
<1>3. \A i \in 1 .. n : Instead(s[i], c, w) \in W
  BY <1>2 DEF Instead
<1>4. \A f : /\ F(f)[n + 1] = <<>>
             /\ \A i \in 1 .. n : F(f)[i] = Instead(s[i], c, w) \o f[i + 1]
  <2> TAKE f
  <2> n + 1 \in 1 .. n + 1 /\ n + 1 > n
    BY <1>2
  <2>1. F(f)[n + 1] = <<>>
    OBVIOUS
  <2>2. ASSUME NEW i \in 1 .. n PROVE F(f)[i] = Instead(s[i], c, w) \o f[i + 1]
    <3>1. i \in 1 .. n + 1 /\ ~ (i > n) /\ i + 1 - 1 = i /\ i <= n
      BY <1>2
    <3>2. <<s[i]>> = <<c>> <=> s[i] = c
      OBVIOUS
    <3>3. F(f)[i] = IF i + 1 - 1 <= n /\ SubSeq(s, i, i + 1 - 1) = <<c>>
                    THEN w \o f[i + 1] ELSE <<s[i]>> \o f[i + 1]
      BY <1>2, <3>1, Zenon
    <3>4. F(f)[i] = IF s[i] = c THEN w \o f[i + 1] ELSE <<s[i]>> \o f[i + 1]
      <4> HIDE DEF F, n
      <4>1. QED
        BY <1>2, <3>1, <3>2, <3>3
    <3>5. QED
      BY <3>4 DEF Instead
  <2>3. QED
    BY <2>1, <2>2
<1>5. step \in [(1 .. n) \X W -> W]
  <2>1. ASSUME NEW a \in (1 .. n) \X W PROVE Instead(s[n + 1 - a[1]], c, w) \o a[2] \in W
    <3>1. n + 1 - a[1] \in 1 .. n /\ a[2] \in Seq(C)
      BY <1>2
    <3> DEFINE b == Instead(s[n + 1 - a[1]], c, w)
    <3>2. b \in Seq(C)
      BY <1>3, <3>1
    <3> HIDE DEF b
    <3>3. QED
      BY <3>1, <3>2 DEF b
  <2> HIDE DEF W, n
  <2>2. QED
    BY <2>1
<1> HIDE DEF F, W, n, first, step
<1>6. PICK h \in [0 .. n -> W] : h[0] = first /\ \A k \in 1 .. n : h[k] = step[<<k, h[k - 1]>>]
  <2>1. Runs(W, first, n, step)
    BY <1>2, <1>5, Recursion
  <2>2. QED
    BY <2>1 DEF Runs
<1>7. PICK f \in [1 .. n + 1 -> W] : \A i \in 1 .. n + 1 : f[i] = h[n + 1 - i]
  <2> DEFINE f == [i \in 1 .. n + 1 |-> h[n + 1 - i]]
  <2>1. \A i \in 1 .. n + 1 : n + 1 - i \in 0 .. n
    BY <1>2
  <2>2. f \in [1 .. n + 1 -> W] /\ \A i \in 1 .. n + 1 : f[i] = h[n + 1 - i]
    BY <1>6, <2>1
  <2> HIDE DEF f
  <2>3. QED
    BY <2>2
<1>8. f[n + 1] = <<>>
  <2>1. n + 1 \in 1 .. n + 1 /\ n + 1 - (n + 1) = 0
    BY <1>2
  <2>2. QED
    BY <1>6, <1>7, <2>1 DEF first
<1>9. ASSUME NEW i \in 1 .. n PROVE f[i] = Instead(s[i], c, w) \o f[i + 1]
  <2> DEFINE k == n + 1 - i
  <2>1. k \in 1 .. n /\ k - 1 \in 0 .. n /\ n + 1 - k = i /\ k - 1 = n + 1 - (i + 1)
        /\ i \in 1 .. n + 1 /\ i + 1 \in 1 .. n + 1
    BY <1>2
  <2>2. f[i] = h[k] /\ f[i + 1] = h[k - 1]
    BY <1>7, <2>1
  <2>3. h[k - 1] \in W
    BY <1>6, <2>1
  <2>4. step[<<k, h[k - 1]>>] = Instead(s[n + 1 - k], c, w) \o h[k - 1]
    <3>1. <<k, h[k - 1]>> \in (1 .. n) \X W
      BY <2>1, <2>3
    <3>2. QED
      BY <3>1 DEF step
  <2> HIDE DEF k
  <2>5. QED
    BY <1>6, <2>1, <2>2, <2>4
<1>10. from = F(from)
  <2>1. \A i \in 1 .. n + 1 : f[i] = F(f)[i]
    <3>1. \A i \in 1 .. n + 1 : i \in 1 .. n \/ i = n + 1
      BY <1>2
    <3>2. QED
      BY <1>4, <1>8, <1>9, <3>1
  <2>2. f = F(f)
    <3> DEFINE g == F(f)
    <3>1. g = [i \in 1 .. n + 1 |-> g[i]] /\ f = [i \in 1 .. n + 1 |-> f[i]]
      BY <1>7 DEF F
    <3> HIDE DEF g
    <3>2. \A i \in 1 .. n + 1 : f[i] = g[i]
      BY <2>1 DEF g
    <3>3. f = g
      BY <3>1, <3>2
    <3>4. QED
      BY <3>3 DEF g
  <2>3. QED
    BY <2>2
<1> HIDE DEF from
<1>11. from[n + 1] = <<>> /\ \A i \in 1 .. n : from[i] = Instead(s[i], c, w) \o from[i + 1]
  BY <1>4, <1>10
<1>12. from[1] = f[1]
  <2> DEFINE T == {i \in 1 .. n + 1 : from[i] = f[i]}
  <2>1. n + 1 \in T
    BY <1>2, <1>8, <1>11
  <2>2. ASSUME NEW i \in 1 .. n, \A j \in i + 1 .. n + 1 : j \in T PROVE i \in T
    <3>1. i + 1 \in i + 1 .. n + 1 /\ i \in 1 .. n + 1
      BY <1>2
    <3>2. from[i + 1] = f[i + 1]
      BY <2>2, <3>1
    <3>3. QED
      BY <1>9, <1>11, <3>1, <3>2
  <2>3. \A i \in 1 .. n + 1 : i \in T
    <3> HIDE DEF T
    <3>1. QED
      BY <1>2, <2>1, <2>2, Downwards
  <2>4. QED
    BY <1>2, <2>3
<1>13. QED
  BY <1>1, <1>7, <1>8, <1>9, <1>12 DEF Replaces, n, W

(* One character more is replaced, or put behind.                          *)
Replacing(C, s, x, c, w) ==
    /\ Texts!Replaced(<<>>, <<c>>, w) = <<>>
    /\ Texts!Replaced(s, <<c>>, w) \in Seq(C)
    /\ Texts!Replaced(Append(s, x), <<c>>, w) = Texts!Replaced(s, <<c>>, w) \o Instead(x, c, w)

LEMMA ReplacedGrows ==
    ASSUME NEW C, NEW s \in Seq(C), NEW x \in C, NEW c, NEW w \in Seq(C)
    PROVE  Replacing(C, s, x, c, w)
<1> DEFINE n == Len(s)
           r == Append(s, x)
           X == Instead(x, c, w)
<1>1. n \in Nat /\ r \in Seq(C) /\ Len(r) = n + 1 /\ r[n + 1] = x
      /\ \A i \in 1 .. n : r[i] = s[i] /\ s[i] \in C
  OBVIOUS
<1>2. X \in Seq(C) /\ \A i \in 1 .. n : Instead(s[i], c, w) \in Seq(C)
  BY <1>1 DEF Instead
<1> HIDE DEF X, r
<1>3. \A p, q, z \in Seq(C) : (p \o q) \o z = p \o (q \o z)
  BY ConcatAssociative
<1>4. Texts!Replaced(<<>>, <<c>>, w) = <<>>
  <2>1. <<>> \in Seq(C) /\ Len(<<>>) + 1 = 1
    OBVIOUS
  <2>2. Replaces(C, <<>>, c, w)
    BY <2>1, ReplacedIs
  <2>3. QED
    BY <2>1, <2>2 DEF Replaces
<1>5. PICK f \in [1 .. n + 1 -> Seq(C)] :
          /\ f[n + 1] = <<>>
          /\ \A i \in 1 .. n : f[i] = Instead(s[i], c, w) \o f[i + 1]
          /\ Texts!Replaced(s, <<c>>, w) = f[1]
  <2>1. Replaces(C, s, c, w)
    BY ReplacedIs
  <2>2. QED
    BY <2>1 DEF Replaces
<1>6. PICK g :
          /\ g[(n + 1) + 1] = <<>>
          /\ \A i \in 1 .. n + 1 : g[i] = Instead(r[i], c, w) \o g[i + 1]
          /\ Texts!Replaced(r, <<c>>, w) = g[1]
  <2>1. Replaces(C, r, c, w)
    BY <1>1, ReplacedIs
  <2>2. QED
    BY <1>1, <2>1 DEF Replaces
<1> HIDE DEF n
<1> DEFINE T == {i \in 1 .. n + 1 : g[i] = f[i] \o X}
<1>7. n + 1 \in T
  <2>1. n + 1 \in 1 .. n + 1
    BY <1>1
  <2>2. g[n + 1] = X \o <<>>
    BY <1>1, <1>6, <2>1 DEF X
  <2>3. X \o <<>> = <<>> \o X
    BY <1>2
  <2>4. QED
    BY <1>5, <2>1, <2>2, <2>3
<1>8. ASSUME NEW i \in 1 .. n, \A j \in i + 1 .. n + 1 : j \in T PROVE i \in T
  <2>1. i \in 1 .. n + 1 /\ i + 1 \in i + 1 .. n + 1 /\ i + 1 \in 1 .. n + 1
    BY <1>1
  <2>2. g[i + 1] = f[i + 1] \o X
    BY <1>8, <2>1
  <2> DEFINE a == Instead(s[i], c, w)
             b == f[i + 1]
  <2>3. a \in Seq(C) /\ b \in Seq(C)
    BY <1>2, <1>5, <2>1
  <2>4. g[i] = a \o g[i + 1] /\ f[i] = a \o b
    BY <1>1, <1>5, <1>6, <2>1
  <2> HIDE DEF a
  <2>5. g[i] = a \o (b \o X)
    BY <2>2, <2>4
  <2> HIDE DEF b
  <2>6. (a \o b) \o X = a \o (b \o X)
    <3>1. a \in Seq(C) /\ b \in Seq(C) /\ X \in Seq(C)
      BY <1>2, <2>3
    <3>2. \A q, z \in Seq(C) : (a \o q) \o z = a \o (q \o z)
      BY <1>3, <3>1
    <3>3. QED
      BY <3>1, <3>2
  <2>7. QED
    BY <2>1, <2>4, <2>5, <2>6
<1>9. \A i \in 1 .. n + 1 : i \in T
  <2> HIDE DEF T
  <2>1. QED
    BY <1>1, <1>7, <1>8, Downwards
<1>10. 1 \in 1 .. n + 1
  BY <1>1
<1>11. g[1] = f[1] \o X /\ f[1] \in Seq(C)
  BY <1>5, <1>9, <1>10
<1>12. QED
  BY <1>4, <1>5, <1>6, <1>11 DEF X, r, Replacing

(* Reading goes on a character at a time.                                  *)
Readings(C) == [said : Seq(C), held : Seq(C), ended : BOOLEAN]
Told(v) == [said |-> v, held |-> <<>>, ended |-> FALSE]

LEMMA ReadingIs ==
    ASSUME NEW C, NEW r \in Readings(C), NEW x \in C, NEW E
    PROVE  Texts!Reading(r, x, E) \in Readings(C)
<1>1. r.said \in Seq(C) /\ r.held \in Seq(C) /\ r.ended \in BOOLEAN
  BY DEF Readings
<1>2. <<x>> \in Seq(C) /\ <<>> \in Seq(C) /\ Append(r.said, x) \in Seq(C)
  BY <1>1
<1>3. CASE r.held = <<>> /\ x \in E
  <2>1. Texts!Reading(r, x, E) = [r EXCEPT !.held = <<x>>]
    BY <1>3 DEF Texts!Reading
  <2>2. QED
    BY <1>2, <2>1 DEF Readings
<1>4. CASE ~ (r.held = <<>> /\ x \in E)
  <2> DEFINE e == r.ended \/ (r.held = <<"'">> /\ x # "'")
  <2>1. Texts!Reading(r, x, E) = [said |-> Append(r.said, x), held |-> <<>>, ended |-> e]
    BY <1>4 DEF Texts!Reading
  <2>2. e \in BOOLEAN
    BY Zenon
  <2> HIDE DEF e
  <2>3. QED
    BY <1>2, <2>1, <2>2 DEF Readings
<1>5. QED
  BY <1>3, <1>4

LEMMA ReadIs ==
    ASSUME NEW C, NEW E, NEW s \in Seq(C)
    PROVE  /\ Texts!Read(s, E) \in Readings(C)
           /\ EndsWith(Told(<<>>), [a \in Readings(C) \X C |-> Texts!Reading(a[1], a[2], E)], s,
                       Texts!Read(s, E))
<1> DEFINE n == Len(s)
           first == [said |-> <<>>, held |-> <<>>, ended |-> FALSE]
           step == [a \in Readings(C) \X C |-> Texts!Reading(a[1], a[2], E)]
           F(f) == [k \in 0 .. n |-> IF k = 0 THEN first
                                     ELSE Texts!Reading(f[k - 1], s[k], E)]
           read == CHOOSE f : f = F(f)
<1>1. Texts!Read(s, E) = read[n]
  BY DEF Texts!Read
<1>2. n \in Nat /\ \A k \in 1 .. n : s[k] \in C
  OBVIOUS
<1> HIDE DEF n
<1>3. first \in Readings(C)
  <2>1. <<>> \in Seq(C)
    OBVIOUS
  <2>2. QED
    BY <2>1 DEF Readings
<1>4. step \in [Readings(C) \X C -> Readings(C)]
  BY ReadingIs
<1>5. PICK g \in [0 .. n -> Readings(C)] :
          /\ g[0] = first
          /\ \A k \in 1 .. n : g[k] = step[<<g[k - 1], s[k]>>]
  <2> HIDE DEF first, step
  <2>1. StaysWithin(Readings(C), first, step, s)
    BY <1>3, <1>4, LoopRuns
  <2>2. QED
    BY <2>1 DEF StaysWithin, n
<1>6. \A k \in 1 .. n : g[k] = Texts!Reading(g[k - 1], s[k], E)
  <2> TAKE k \in 1 .. n
  <2>1. k - 1 \in 0 .. n
    BY <1>2
  <2>2. g[k - 1] \in Readings(C) /\ s[k] \in C
    BY <1>2, <1>5, <2>1
  <2>3. step[<<g[k - 1], s[k]>>] = Texts!Reading(g[k - 1], s[k], E)
    BY <2>2
  <2> HIDE DEF step, first
  <2>4. QED
    BY <1>5, <2>3
<1> HIDE DEF first, step
<1>7. \E f : f = F(f)
  <2>1. \A k \in 0 .. n : g[k] = IF k = 0 THEN first ELSE Texts!Reading(g[k - 1], s[k], E)
    BY <1>2, <1>5, <1>6
  <2>2. g = [k \in 0 .. n |-> IF k = 0 THEN first ELSE Texts!Reading(g[k - 1], s[k], E)]
    BY <1>5, <2>1, Zenon
  <2>3. g = F(g)
    BY <2>2
  <2> HIDE DEF F
  <2>4. QED
    BY <2>3
<1>8. read = F(read)
  <2> HIDE DEF F
  <2>1. QED
    BY <1>7
<1> HIDE DEF read
<1>9. read[0] = first /\ \A k \in 1 .. n : read[k] = Texts!Reading(read[k - 1], s[k], E)
  BY <1>2, <1>8
<1> HIDE DEF F
<1>10. \A k \in 0 .. n : read[k] = g[k]
  <2>1. GoesOnLike(read, g, n)
    BY <1>5, <1>6, <1>9 DEF GoesOnLike
  <2>2. QED
    BY <1>2, <2>1, Alike
<1>11. Texts!Read(s, E) = g[n] /\ g[n] \in Readings(C)
  BY <1>1, <1>2, <1>5, <1>10
<1>12. EndsWith(first, step, s, g[n])
  BY <1>5 DEF EndsWith, n
<1>13. QED
  BY <1>11, <1>12 DEF first, step, Told

LEMMA ReadSteps ==
    ASSUME NEW C, NEW E, NEW s \in Seq(C), NEW x \in C
    PROVE  /\ Texts!Read(<<>>, E) = Told(<<>>)
           /\ Texts!Read(Append(s, x), E) = Texts!Reading(Texts!Read(s, E), x, E)
<1> DEFINE first == Told(<<>>)
           step == [a \in Readings(C) \X C |-> Texts!Reading(a[1], a[2], E)]
<1>1. \A r \in Seq(C) : /\ Texts!Read(r, E) \in Readings(C)
                        /\ EndsWith(first, step, r, Texts!Read(r, E))
  BY ReadIs, Zenon
<1>2. \A t \in Readings(C) : step[<<t, x>>] = Texts!Reading(t, x, E)
  OBVIOUS
<1> HIDE DEF first, step
<1>3. Texts!Read(<<>>, E) = first
  <2>1. <<>> \in Seq(C) /\ Len(<<>>) = 0
    OBVIOUS
  <2>2. EndsWith(first, step, <<>>, Texts!Read(<<>>, E))
    BY <1>1, <2>1
  <2>3. QED
    BY <2>1, <2>2 DEF EndsWith
<1>4. Texts!Read(Append(s, x), E) = Texts!Reading(Texts!Read(s, E), x, E)
  <2> DEFINE v == Texts!Read(s, E)
             w == Texts!Read(Append(s, x), E)
  <2>1. Append(s, x) \in Seq(C)
    OBVIOUS
  <2>2. v \in Readings(C) /\ EndsWith(first, step, s, v) /\ EndsWith(first, step, Append(s, x), w)
    BY <1>1, <2>1
  <2> HIDE DEF v, w
  <2>3. w = step[<<v, x>>]
    BY <2>2, LoopGoesOn
  <2>4. QED
    BY <1>2, <2>2, <2>3 DEF v, w
<1>5. QED
  BY <1>3, <1>4 DEF first

(* A character that is no escape, and one with an escape before it.        *)
LEMMA ReadsOne ==
    ASSUME NEW C, NEW E, NEW s \in Seq(C), NEW v \in Seq(C), NEW x \in C,
           Texts!Read(s, E) = Told(v)
    PROVE  /\ x \notin E => Texts!Read(Append(s, x), E) = Told(Append(v, x))
           /\ \A h \in C : h \in E /\ (h = "'" => x = "'")
                 => Texts!Read(Append(Append(s, h), x), E) = Told(Append(v, x))
<1>1. Told(v).said = v /\ Told(v).held = <<>> /\ Told(v).ended = FALSE
  BY DEF Told
<1>2. ASSUME x \notin E PROVE Texts!Read(Append(s, x), E) = Told(Append(v, x))
  <2>1. Texts!Read(Append(s, x), E) = Texts!Reading(Told(v), x, E)
    BY ReadSteps
  <2>2. Texts!Reading(Told(v), x, E) = Told(Append(v, x))
    BY <1>2 DEF Texts!Reading, Told
  <2>3. QED
    BY <2>1, <2>2
<1>3. ASSUME NEW h \in C, h \in E, h = "'" => x = "'"
      PROVE  Texts!Read(Append(Append(s, h), x), E) = Told(Append(v, x))
  <2> DEFINE t == Append(s, h)
             m == [said |-> v, held |-> <<h>>, ended |-> FALSE]
  <2>1. t \in Seq(C)
    OBVIOUS
  <2>2. Texts!Read(t, E) = Texts!Reading(Told(v), h, E)
    BY ReadSteps
  <2>3. Texts!Reading(Told(v), h, E) = m
    BY <1>3 DEF Texts!Reading, Told
  <2> HIDE DEF t
  <2>4. Texts!Read(Append(t, x), E) = Texts!Reading(m, x, E)
    BY <2>1, <2>2, <2>3, ReadSteps
  <2>5. Texts!Reading(m, x, E) = Told(Append(v, x))
    <3>1. m.said = v /\ m.held = <<h>> /\ m.ended = FALSE /\ m.held # <<>>
      OBVIOUS
    <3>2. ~ (m.held = <<"'">> /\ x # "'")
      BY <1>3, <3>1
    <3> HIDE DEF m
    <3>3. Texts!Reading(m, x, E) =
             [said |-> Append(m.said, x), held |-> <<>>,
              ended |-> m.ended \/ (m.held = <<"'">> /\ x # "'")]
      BY <3>1 DEF Texts!Reading
    <3>4. (m.ended \/ (m.held = <<"'">> /\ x # "'")) = FALSE
      BY <3>1, <3>2
    <3>5. QED
      BY <3>1, <3>3, <3>4, Zenon DEF Told
  <2>6. QED
    BY <2>4, <2>5 DEF t
<1>4. QED
  BY <1>2, <1>3

(* What is put together for each character.                                *)
Each(P, s) == [k \in DOMAIN s |-> P[s[k]]]

OneMore(P, s, x, D) ==
    /\ Texts!FlattenSeq(Each(P, <<>>)) = <<>>
    /\ Texts!FlattenSeq(Each(P, s)) \in Seq(D)
    /\ Texts!FlattenSeq(Each(P, Append(s, x))) = Texts!FlattenSeq(Each(P, s)) \o P[x]

LEMMA EachGrows ==
    ASSUME NEW C, NEW D, NEW P \in [C -> Seq(D)], NEW s \in Seq(C), NEW x \in C
    PROVE  OneMore(P, s, x, D)
<1> DEFINE n == Len(s)
           r == Append(s, x)
           p == Each(P, s)
           q == Each(P, r)
<1>1. n \in Nat /\ r \in Seq(C) /\ Len(r) = n + 1 /\ r[n + 1] = x
      /\ \A i \in 1 .. n : r[i] = s[i] /\ s[i] \in C
  OBVIOUS
<1>2. P[x] \in Seq(D) /\ \A i \in 1 .. n : P[s[i]] \in Seq(D)
  BY <1>1
<1>3. p \in Seq(Seq(D)) /\ Len(p) = n /\ \A i \in 1 .. n : p[i] = P[s[i]]
  <2>1. p = [i \in 1 .. n |-> P[s[i]]]
    BY DEF Each
  <2> HIDE DEF p, n
  <2>2. p \in [1 .. n -> Seq(D)]
    BY <1>2, <2>1
  <2>3. QED
    BY <1>1, <2>1, <2>2
<1>4. q \in Seq(Seq(D)) /\ Len(q) = n + 1 /\ q[n + 1] = P[x]
      /\ \A i \in 1 .. n : q[i] = P[s[i]]
  <2>1. q = [i \in 1 .. n + 1 |-> P[r[i]]]
    <3>1. DOMAIN r = 1 .. n + 1
      BY <1>1
    <3> HIDE DEF r
    <3>2. QED
      BY <3>1 DEF Each
  <2> HIDE DEF q, n, r
  <2>2. \A i \in 1 .. n + 1 : P[r[i]] \in Seq(D)
    <3>1. \A i \in 1 .. n + 1 : i \in 1 .. n \/ i = n + 1
      BY <1>1
    <3>2. QED
      BY <1>1, <1>2, <3>1
  <2>3. q \in [1 .. n + 1 -> Seq(D)] /\ n + 1 \in Nat /\ n + 1 \in 1 .. n + 1
        /\ \A i \in 1 .. n : i \in 1 .. n + 1
    BY <1>1, <2>1, <2>2
  <2>4. QED
    BY <1>1, <2>1, <2>3
<1> DEFINE u == Append(p, P[x])
<1>5. u \in Seq(Seq(D)) /\ Len(u) = n + 1 /\ u[n + 1] = P[x]
      /\ \A i \in 1 .. n : u[i] = p[i]
  <2> HIDE DEF p, n
  <2>1. QED
    BY <1>1, <1>2, <1>3
<1> HIDE DEF p, q, r, u, n
<1>6. q = u
  <2>1. \A i \in 1 .. n + 1 : q[i] = u[i]
    <3>1. \A i \in 1 .. n : q[i] = u[i]
      BY <1>3, <1>4, <1>5
    <3>2. \A i \in 1 .. n + 1 : i \in 1 .. n \/ i = n + 1
      BY <1>1
    <3>3. QED
      BY <1>4, <1>5, <3>1, <3>2
  <2>2. QED
    BY <1>4, <1>5, <2>1, SeqEqual
<1>7. /\ Texts!FlattenSeq(<<>>) = <<>>
      /\ Texts!FlattenSeq(p) \in Seq(D)
      /\ Texts!FlattenSeq(u) = Texts!FlattenSeq(p) \o P[x]
  BY <1>2, <1>3, FlattenSteps DEF u
<1>8. Each(P, <<>>) = <<>>
  BY DEF Each
<1>9. QED
  BY <1>6, <1>7, <1>8 DEF p, q, r, OneMore

Doubled(x) == IF x \in {"'", "\\"} THEN <<x, x>> ELSE <<x>>

LEMMA MysqlGrows ==
    ASSUME NEW C, NEW s \in Seq(C), NEW x \in C
    PROVE  /\ Texts!mysql_esc(<<>>) = <<>>
           /\ Texts!mysql_esc(s) \in Seq(C)
           /\ Texts!mysql_esc(Append(s, x)) = Texts!mysql_esc(s) \o Doubled(x)
<1> DEFINE P == [c \in C |-> Doubled(c)]
<1>1. P \in [C -> Seq(C)] /\ P[x] = Doubled(x)
  BY DEF Doubled
<1>2. ASSUME NEW r \in Seq(C) PROVE Texts!mysql_esc(r) = Texts!FlattenSeq(Each(P, r))
  <2> DEFINE e == [k \in DOMAIN r |-> IF r[k] \in {"'", "\\"} THEN <<r[k], r[k]>> ELSE <<r[k]>>]
  <2>1. \A k \in DOMAIN r : P[r[k]] = IF r[k] \in {"'", "\\"} THEN <<r[k], r[k]>> ELSE <<r[k]>>
    BY DEF Doubled
  <2> HIDE DEF P
  <2>2. Each(P, r) = e
    BY <2>1 DEF Each
  <2>3. QED
    BY <2>2, Zenon DEF Texts!mysql_esc
<1> HIDE DEF P
<1>3. <<>> \in Seq(C) /\ Append(s, x) \in Seq(C)
  OBVIOUS
<1>4. OneMore(P, s, x, C)
  BY <1>1, EachGrows
<1>5. QED
  BY <1>1, <1>2, <1>3, <1>4 DEF OneMore

Quoted(x) == IF x \in Texts!Plain THEN <<x>> ELSE <<"\\", x>>

LEMMA ShellGrows ==
    ASSUME NEW C, "\\" \in C, NEW s \in Seq(C), NEW x \in C
    PROVE  /\ Texts!shell_arg_esc(<<>>) = <<>>
           /\ Texts!shell_arg_esc(s) \in Seq(C)
           /\ Texts!shell_arg_esc(Append(s, x)) = Texts!shell_arg_esc(s) \o Quoted(x)
<1> DEFINE P == [c \in C |-> Quoted(c)]
<1>1. P \in [C -> Seq(C)] /\ P[x] = Quoted(x)
  BY DEF Quoted
<1>2. ASSUME NEW r \in Seq(C) PROVE Texts!shell_arg_esc(r) = Texts!FlattenSeq(Each(P, r))
  <2> DEFINE e == [k \in DOMAIN r |-> IF r[k] \in Texts!Plain THEN <<r[k]>> ELSE <<"\\", r[k]>>]
  <2>1. \A k \in DOMAIN r : P[r[k]] = IF r[k] \in Texts!Plain THEN <<r[k]>> ELSE <<"\\", r[k]>>
    BY DEF Quoted
  <2> HIDE DEF P
  <2>2. Each(P, r) = e
    BY <2>1 DEF Each
  <2>3. QED
    BY <2>2, Zenon DEF Texts!shell_arg_esc
<1> HIDE DEF P
<1>3. <<>> \in Seq(C) /\ Append(s, x) \in Seq(C)
  OBVIOUS
<1>4. OneMore(P, s, x, C)
  BY <1>1, EachGrows
<1>5. QED
  BY <1>1, <1>2, <1>3, <1>4 DEF OneMore

(* The escaped text is read as the text, where a backslash is an escape    *)
(* and where it is none.                                                   *)
Twice(s) == Texts!Replaced(s, <<"\\">>, <<"\\", "\\">>)
ReadBack(s) ==
    /\ Texts!Read(Texts!mysql_esc(s), {"'", "\\"}) = Told(s)
    /\ Texts!Read(Texts!mysql_esc(s), {"'"}) = Told(Twice(s))
    /\ Texts!Read(Texts!shell_arg_esc(s), {"\\"}) = Told(s)

LEMMA ReadBackGrows ==
    ASSUME NEW C, "\\" \in C, NEW s \in Seq(C), NEW x \in C, ReadBack(s)
    PROVE  ReadBack(Append(s, x))
<1> DEFINE m == Texts!mysql_esc(s)
           a == Texts!shell_arg_esc(s)
           t == Twice(s)
           r == Append(s, x)
<1>1. m \in Seq(C) /\ Texts!mysql_esc(r) = m \o Doubled(x)
  BY MysqlGrows
<1>2. a \in Seq(C) /\ Texts!shell_arg_esc(r) = a \o Quoted(x)
  BY ShellGrows
<1>3. t \in Seq(C) /\ Twice(r) = t \o Instead(x, "\\", <<"\\", "\\">>)
  <2> DEFINE b == "\\"
             w == <<b, b>>
  <2>1. w \in Seq(C)
    OBVIOUS
  <2> HIDE DEF b, w
  <2>2. Replacing(C, s, x, b, w)
    BY <2>1, ReplacedGrows
  <2>3. QED
    BY <2>2 DEF Twice, b, w, Replacing
<1>4. /\ Texts!Read(m, {"'", "\\"}) = Told(s)
      /\ Texts!Read(m, {"'"}) = Told(t)
      /\ Texts!Read(a, {"\\"}) = Told(s)
  BY DEF ReadBack
<1> HIDE DEF m, a, t
<1>5. \A u \in Seq(C), h \in C : u \o <<h>> = Append(u, h) /\ u \o <<h, x>> = Append(Append(u, h), x)
  OBVIOUS
<1>6. "'" # "\\" /\ "\\" \notin Texts!Plain
  BY DEF Texts!Plain
<1>7. Texts!Read(m \o Doubled(x), {"'", "\\"}) = Told(r)
  <2>1. CASE x \in {"'", "\\"}
    <3>1. m \o Doubled(x) = Append(Append(m, x), x)
      BY <1>1, <1>5, <2>1 DEF Doubled
    <3>2. QED
      BY <1>1, <1>4, <2>1, <3>1, ReadsOne
  <2>2. CASE x \notin {"'", "\\"}
    <3>1. m \o Doubled(x) = Append(m, x)
      BY <1>1, <1>5, <2>2 DEF Doubled
    <3>2. QED
      BY <1>1, <1>4, <2>2, <3>1, ReadsOne
  <2>3. QED
    BY <2>1, <2>2
<1>8. Texts!Read(m \o Doubled(x), {"'"}) = Told(Twice(r))
  <2>1. CASE x = "'"
    <3>1. m \o Doubled(x) = Append(Append(m, x), x) /\ Twice(r) = Append(t, x)
      BY <1>1, <1>3, <1>5, <1>6, <2>1 DEF Doubled, Instead
    <3>2. Texts!Read(Append(Append(m, x), x), {"'"}) = Told(Append(t, x))
      BY <1>1, <1>3, <1>4, <2>1, ReadsOne
    <3>3. QED
      BY <3>1, <3>2
  <2>2. CASE x = "\\"
    <3>1. m \o Doubled(x) = Append(Append(m, x), x) /\ Twice(r) = Append(Append(t, x), x)
      BY <1>1, <1>3, <1>5, <2>2 DEF Doubled, Instead
    <3>2. x \notin {"'"} /\ Append(m, x) \in Seq(C) /\ Append(t, x) \in Seq(C)
      BY <1>1, <1>3, <1>6, <2>2
    <3>3. Texts!Read(Append(m, x), {"'"}) = Told(Append(t, x))
      BY <1>1, <1>3, <1>4, <3>2, ReadsOne
    <3> DEFINE n == Append(m, x)
               u == Append(t, x)
    <3>4. n \in Seq(C) /\ u \in Seq(C) /\ Texts!Read(n, {"'"}) = Told(u)
      BY <3>2, <3>3
    <3> HIDE DEF n, u
    <3>5. Texts!Read(Append(n, x), {"'"}) = Told(Append(u, x))
      BY <3>2, <3>4, ReadsOne
    <3>6. QED
      BY <3>1, <3>5 DEF n, u
  <2>3. CASE x \notin {"'", "\\"}
    <3>1. m \o Doubled(x) = Append(m, x) /\ Twice(r) = Append(t, x)
      BY <1>1, <1>3, <1>5, <2>3 DEF Doubled, Instead
    <3>2. Texts!Read(Append(m, x), {"'"}) = Told(Append(t, x))
      BY <1>1, <1>3, <1>4, <2>3, ReadsOne
    <3>3. QED
      BY <3>1, <3>2
  <2>4. QED
    BY <2>1, <2>2, <2>3
<1>9. Texts!Read(a \o Quoted(x), {"\\"}) = Told(r)
  <2>1. CASE x \in Texts!Plain
    <3>1. a \o Quoted(x) = Append(a, x) /\ x \notin {"\\"}
      BY <1>2, <1>5, <1>6, <2>1 DEF Quoted
    <3>2. QED
      BY <1>2, <1>4, <3>1, ReadsOne
  <2>2. CASE x \notin Texts!Plain
    <3>1. a \o Quoted(x) = Append(Append(a, "\\"), x)
      BY <1>2, <1>5, <2>2 DEF Quoted
    <3>2. "\\" \in {"\\"} /\ "\\" # "'"
      BY <1>6
    <3>3. QED
      BY <1>2, <1>4, <3>1, <3>2, ReadsOne
  <2>3. QED
    BY <2>1, <2>2
<1>10. QED
  BY <1>1, <1>2, <1>7, <1>8, <1>9 DEF ReadBack

(* A path is the directory, a slash and what has no slash in it.           *)
Dir(s) ==
    LET dir == Texts!dir_from_file_path(s)
    IN  IF dir = Texts!Throws THEN \A i \in DOMAIN s : s[i] # "/"
        ELSE /\ Texts!start_with(s, Append(dir, "/"))
             /\ ~Texts!Contains(SubSeq(s, Len(dir) + 2, Len(s)), "/")
             /\ Texts!remove_tail_slash(Texts!makesure_tail_slash(dir)) = dir
                    <=> ~Texts!DoubleSlash(s)

(* The helpers for the slash at the end undo each other on a directory     *)
(* that does not end in one.                                               *)
LEMMA TailSlash ==
    ASSUME NEW C, NEW d \in Seq(C)
    PROVE  Texts!remove_tail_slash(Texts!makesure_tail_slash(d)) = d
               <=> ~(d # <<>> /\ Texts!Last(d) = "/")
<1>1. CASE d # <<>> /\ Texts!Last(d) = "/"
  <2> DEFINE n == Len(d)
             f == SubSeq(d, 1, n - 1)
  <2>1. n \in Nat \ {0} /\ \A i \in 1 .. n : d[i] \in C
    BY <1>1
  <2>2. Texts!remove_tail_slash(Texts!makesure_tail_slash(d)) = f
    BY <1>1 DEF Texts!makesure_tail_slash, Texts!remove_tail_slash, Texts!Front
  <2>3. Len(f) = IF 1 <= n - 1 THEN n - 1 - 1 + 1 ELSE 0
    <3> HIDE DEF n
    <3>1. (\A i \in 1 .. n - 1 : d[i] \in C) /\ 1 \in Int /\ n - 1 \in Int
      BY <2>1
    <3>2. QED
      BY <3>1, SubSeqProperties
  <2>4. f # d
    <3> HIDE DEF f
    <3>1. QED
      BY <2>1, <2>3
  <2>5. QED
    BY <1>1, <2>2, <2>4
<1>2. CASE ~ (d # <<>> /\ Texts!Last(d) = "/")
  <2> DEFINE B == C \cup {"/"}
             e == Append(d, "/")
             n == Len(d)
  <2>1. d \in Seq(B) /\ n \in Nat /\ e \in Seq(B) /\ e # <<>> /\ Len(e) = n + 1 /\ e[n + 1] = "/"
        /\ \A i \in 1 .. n : e[i] = d[i]
    <3>1. d \in Seq(B)
      OBVIOUS
    <3> HIDE DEF B
    <3>2. "/" \in B
      BY DEF B
    <3>3. QED
      BY <3>1, <3>2
  <2> HIDE DEF e, B, n
  <2>2. Texts!Front(e) = d
    <3> DEFINE f == SubSeq(e, 1, n)
    <3>1. \A i \in 1 .. n : e[i] \in B
      BY <2>1
    <3>2. /\ f \in Seq(B)
          /\ Len(f) = IF 1 <= n THEN n - 1 + 1 ELSE 0
          /\ \A i \in 1 .. n - 1 + 1 : f[i] = e[1 + i - 1]
      BY <2>1, <3>1, SubSeqProperties
    <3> HIDE DEF f
    <3>3. Len(f) = n /\ \A i \in 1 .. n : f[i] = e[i]
      BY <2>1, <3>2
    <3>4. f = d
      BY <2>1, <3>2, <3>3, SeqEqual DEF n
    <3>5. Len(e) - 1 = n
      BY <2>1
    <3>6. QED
      BY <3>4, <3>5 DEF Texts!Front, f
  <2>3. Texts!Last(e) = "/"
    BY <2>1 DEF Texts!Last
  <2>4. Texts!makesure_tail_slash(d) = e
    BY <1>2 DEF Texts!makesure_tail_slash, e
  <2>5. Texts!remove_tail_slash(e) = d
    BY <2>1, <2>2, <2>3 DEF Texts!remove_tail_slash
  <2>6. QED
    BY <1>2, <2>4, <2>5
<1>3. QED
  BY <1>1, <1>2

LEMMA DirIs == ASSUME NEW C, "throws" \notin C, NEW s \in Seq(C) PROVE Dir(s)
<1> DEFINE n == Len(s)
           Ends(k) == s[k] = "/" /\ \A l \in k + 1 .. n : s[l] # "/"
<1>1. n \in Nat /\ DOMAIN s = 1 .. n /\ \A i \in 1 .. n : s[i] \in C
  OBVIOUS
<1>2. CASE ~ (\E i \in 1 .. n : s[i] = "/")
  <2>1. Texts!dir_from_file_path(s) = Texts!Throws
    BY <1>2 DEF Texts!dir_from_file_path, Texts!Contains
  <2>2. \A i \in DOMAIN s : s[i] # "/"
    BY <1>1, <1>2
  <2>3. QED
    BY <2>1, <2>2 DEF Dir
<1>3. CASE \E i \in 1 .. n : s[i] = "/"
  <2> DEFINE k == CHOOSE k \in DOMAIN s : Ends(k)
             dir == SubSeq(s, 1, k - 1)
  <2>1. \E i \in DOMAIN s : Ends(i)
    <3> DEFINE T == {i \in 0 .. n - 1 : s[i + 1] = "/"}
    <3>1. PICK i \in 1 .. n : s[i] = "/"
      BY <1>3
    <3>2. i - 1 \in 0 .. n - 1 /\ (i - 1) + 1 = i
      BY <1>1
    <3>3. T \in SUBSET (0 .. n - 1) /\ T # {}
      BY <3>1, <3>2
    <3>4. PICK j \in T : \A y \in T : y <= j
      <4> HIDE DEF T, n
      <4>1. QED
        BY <1>1, <3>3, Greatest
    <3>5. j \in 0 .. n - 1 /\ s[j + 1] = "/" /\ j + 1 \in 1 .. n
      BY <1>1, <3>4
    <3>6. \A l \in (j + 1) + 1 .. n : s[l] # "/"
      <4> TAKE l \in (j + 1) + 1 .. n
      <4>1. l - 1 \in 0 .. n - 1 /\ (l - 1) + 1 = l /\ ~ (l - 1 <= j)
        BY <1>1, <3>5
      <4>2. l - 1 \notin T
        BY <3>4, <4>1
      <4>3. QED
        BY <4>1, <4>2
    <3>7. QED
      BY <1>1, <3>5, <3>6
  <2>2. k \in 1 .. n /\ s[k] = "/" /\ \A l \in k + 1 .. n : s[l] # "/"
    <3>1. k \in DOMAIN s /\ Ends(k)
      <4> HIDE DEF Ends
      <4>1. QED
        BY <2>1
    <3>2. QED
      BY <1>1, <3>1
  <2>3. Texts!dir_from_file_path(s) = dir
    <3>1. Texts!Contains(s, "/")
      BY <1>3 DEF Texts!Contains
    <3>2. QED
      BY <3>1 DEF Texts!dir_from_file_path
  <2> HIDE DEF k
  <2> DEFINE B == C \cup {"/"}
  <2>4. dir \in Seq(C) /\ Len(dir) = k - 1 /\ \A i \in 1 .. k - 1 : dir[i] = s[i]
    <3>1. \A i \in 1 .. k - 1 : s[i] \in C
      BY <1>1, <2>2
    <3>2. 1 \in Int /\ k - 1 \in Int
      BY <2>2
    <3>3. /\ dir \in Seq(C)
          /\ Len(dir) = IF 1 <= k - 1 THEN k - 1 - 1 + 1 ELSE 0
          /\ \A i \in 1 .. k - 1 - 1 + 1 : dir[i] = s[1 + i - 1]
      BY <3>1, <3>2, SubSeqProperties
    <3> HIDE DEF dir
    <3>4. QED
      BY <2>2, <3>3
  <2> HIDE DEF dir
  <2>5. dir # Texts!Throws
    <3>1. ASSUME dir = <<"throws">> PROVE FALSE
      <4>1. Len(dir) = 1 /\ dir[1] = "throws"
        BY <3>1
      <4>2. dir[1] \in C
        BY <2>4, <4>1
      <4>3. QED
        BY <4>1, <4>2
    <3>2. QED
      BY <3>1 DEF Texts!Throws
  <2>6. Texts!start_with(s, Append(dir, "/"))
    <3> DEFINE p == Append(dir, "/")
               q == SubSeq(s, 1, k)
    <3>1. "/" \in C
      BY <1>1, <2>2
    <3>2. p \in Seq(C) /\ Len(p) = k /\ p[k] = "/" /\ \A i \in 1 .. k - 1 : p[i] = s[i]
      <4>1. Len(dir) = k - 1 /\ k - 1 \in Nat /\ (k - 1) + 1 = k
        BY <2>2, <2>4
      <4>2. QED
        BY <2>4, <3>1, <4>1
    <3>3. /\ q \in Seq(C)
          /\ Len(q) = IF 1 <= k THEN k - 1 + 1 ELSE 0
          /\ \A i \in 1 .. k - 1 + 1 : q[i] = s[1 + i - 1]
      <4>1. (\A i \in 1 .. k : s[i] \in C) /\ k \in Int /\ 1 \in Int
        BY <1>1, <2>2
      <4>2. QED
        BY <4>1, SubSeqProperties
    <3> HIDE DEF p, q
    <3>4. Len(q) = k /\ \A i \in 1 .. k : q[i] = s[i]
      BY <2>2, <3>3
    <3>5. \A i \in 1 .. k : q[i] = p[i]
      <4>1. \A i \in 1 .. k : i \in 1 .. k - 1 \/ i = k
        BY <2>2
      <4>2. QED
        BY <2>2, <3>2, <3>4, <4>1
    <3>6. q = p
      BY <3>2, <3>3, <3>4, <3>5, SeqEqual
    <3>7. n >= k
      BY <1>1, <2>2
    <3>8. QED
      BY <3>2, <3>6, <3>7 DEF Texts!start_with, p, q
  <2>7. ~Texts!Contains(SubSeq(s, Len(dir) + 2, Len(s)), "/")
    <3> DEFINE m == k + 1
               q == SubSeq(s, m, n)
    <3>1. Len(dir) + 2 = m
      BY <2>2, <2>4
    <3>2. (\A i \in m .. n : s[i] \in C) /\ m \in Int /\ n \in Int
      BY <1>1, <2>2
    <3>3. /\ q \in Seq(C)
          /\ Len(q) = IF m <= n THEN n - m + 1 ELSE 0
          /\ \A i \in 1 .. n - m + 1 : q[i] = s[m + i - 1]
      BY <3>2, SubSeqProperties
    <3> HIDE DEF q
    <3>4. ASSUME NEW i \in 1 .. Len(q), q[i] = "/" PROVE FALSE
      <4>1. i \in 1 .. n - m + 1 /\ m + i - 1 \in k + 1 .. n
        <5> DEFINE z == Len(q)
        <5>1. z = (IF m <= n THEN n - m + 1 ELSE 0) /\ i \in 1 .. z
          BY <3>3
        <5>2. m = k + 1 /\ m \in Int /\ n \in Int /\ k \in Int
          BY <2>2, <3>2
        <5> HIDE DEF z, m, n
        <5>3. QED
          BY <5>1, <5>2
      <4>2. QED
        BY <2>2, <3>3, <3>4, <4>1
    <3>5. ~Texts!Contains(q, "/")
      BY <3>4 DEF Texts!Contains
    <3>6. QED
      BY <3>1, <3>5 DEF q
  <2>8. Texts!remove_tail_slash(Texts!makesure_tail_slash(dir)) = dir <=> ~Texts!DoubleSlash(s)
    <3>1. (dir # <<>> /\ Texts!Last(dir) = "/") <=> (k >= 2 /\ s[k - 1] = "/")
      <4>1. CASE k >= 2
        <5>1. Len(dir) \in Nat \ {0} /\ k - 1 \in 1 .. k - 1
          BY <2>2, <2>4, <4>1
        <5>2. dir # <<>> /\ Texts!Last(dir) = s[k - 1]
          BY <2>4, <5>1 DEF Texts!Last
        <5>3. QED
          BY <4>1, <5>2
      <4>2. CASE ~(k >= 2)
        <5>1. Len(dir) = 0
          BY <2>2, <2>4, <4>2
        <5>2. dir = <<>>
          BY <2>4, <5>1
        <5>3. QED
          BY <4>2, <5>2
      <4>3. QED
        BY <4>1, <4>2
    <3>2. (k >= 2 /\ s[k - 1] = "/") <=> Texts!DoubleSlash(s)
      <4>1. ASSUME k >= 2, s[k - 1] = "/" PROVE Texts!DoubleSlash(s)
        <5>1. k - 1 \in 1 .. n - 1 /\ (k - 1) + 1 = k /\ (k - 1) + 2 = k + 1
          BY <1>1, <2>2, <4>1
        <5>2. QED
          BY <2>2, <4>1, <5>1 DEF Texts!DoubleSlash
      <4>2. ASSUME Texts!DoubleSlash(s) PROVE k >= 2 /\ s[k - 1] = "/"
        <5>1. PICK i \in 1 .. n - 1 :
                 s[i] = "/" /\ s[i + 1] = "/" /\ \A j \in i + 2 .. n : s[j] # "/"
          BY <4>2 DEF Texts!DoubleSlash
        <5>2. ~(i + 1 < k) /\ ~(k < i + 1)
          <6>1. ASSUME i + 1 < k PROVE FALSE
            <7>1. k \in i + 2 .. n
              BY <1>1, <2>2, <6>1
            <7>2. QED
              BY <2>2, <5>1, <7>1
          <6>2. ASSUME k < i + 1 PROVE FALSE
            <7>1. i + 1 \in k + 1 .. n
              BY <1>1, <2>2, <6>2
            <7>2. QED
              BY <2>2, <5>1, <7>1
          <6>3. QED
            BY <6>1, <6>2
        <5>3. i = k - 1 /\ k >= 2
          BY <1>1, <2>2, <5>2
        <5>4. QED
          BY <5>1, <5>3
      <4>3. QED
        BY <4>1, <4>2
    <3>3. QED
      BY <2>4, <3>1, <3>2, TailSlash
  <2>9. QED
    BY <2>3, <2>5, <2>6, <2>7, <2>8 DEF Dir
<1>4. QED
  BY <1>2, <1>3

(* What holds of a text and goes on to hold when a character is typed.     *)
TextInv ==
    /\ text \in Seq(Chars)
    /\ \A c \in Chars : Apart(text, c)
    /\ Counted(text, ":")
    /\ \A c \in Chars, w \in Seq(Chars) :
          Texts!Replaced(text, <<c>>, w) = Texts!Join(Texts!str_split(text, c), w)
    /\ \A c, e \in Chars : Texts!replace_char(text, c, e) = Texts!Replaced(text, <<c>>, <<e>>)
    /\ ReadBack(text)

LEMMA TextTyped == Texts!Spec => []TextInv
<1>1. Texts!Init => TextInv
  <2> SUFFICES ASSUME text = <<>> PROVE TextInv
    BY DEF Texts!Init
  <2> DEFINE D == Chars \cup {"x"}
  <2>1. <<>> \in Seq(Chars) /\ <<>> \in Seq(D) /\ "x" \in D
    OBVIOUS
  <2> HIDE DEF D
  <2>2. \A c : Texts!str_split(<<>>, c) = << <<>> >>
    BY <2>1, SplitSteps
  <2>3. ASSUME NEW w \in Seq(Chars) PROVE Texts!Join(<< <<>> >>, w) = <<>>
    <3>1. Joins(Chars, w, <<>>, <<>>)
      BY <2>1, JoinSteps
    <3>2. QED
      BY <3>1 DEF Joins
  <2>4. ASSUME NEW c \in Chars PROVE Apart(text, c)
    <3>1. <<c>> \in Seq(Chars)
      OBVIOUS
    <3>2. Texts!Join(<< <<>> >>, <<c>>) = <<>>
      BY <2>3, <3>1
    <3>3. QED
      BY <2>2, <3>2 DEF Apart
  <2>5. Counted(text, ":")
    BY <2>2 DEF Counted, NoneOf, OneOf
  <2>6. ASSUME NEW c, NEW S, NEW w \in Seq(S \cup {"x"})
        PROVE  Texts!Replaced(<<>>, <<c>>, w) = <<>>
    <3> DEFINE B == S \cup {"x"}
    <3>1. <<>> \in Seq(B) /\ "x" \in B
      OBVIOUS
    <3>2. w \in Seq(B)
      OBVIOUS
    <3> HIDE DEF B
    <3>3. Replacing(B, <<>>, "x", c, w)
      BY <3>1, <3>2, ReplacedGrows
    <3>4. QED
      BY <3>3 DEF Replacing
  <2>7. ASSUME NEW c \in Chars, NEW w \in Seq(Chars)
        PROVE  Texts!Replaced(text, <<c>>, w) = Texts!Join(Texts!str_split(text, c), w)
    <3>1. w \in Seq(Chars \cup {"x"})
      OBVIOUS
    <3>2. QED
      BY <2>2, <2>3, <2>6, <3>1
  <2>8. ASSUME NEW c \in Chars, NEW e \in Chars
        PROVE  Texts!replace_char(text, c, e) = Texts!Replaced(text, <<c>>, <<e>>)
    <3>1. <<e>> \in Seq(Chars \cup {"x"})
      OBVIOUS
    <3>2. Texts!replace_char(<<>>, c, e) = <<>>
      BY DEF Texts!replace_char
    <3>3. Texts!Replaced(<<>>, <<c>>, <<e>>) = <<>>
      BY <2>6, <3>1
    <3>4. QED
      BY <3>2, <3>3
  <2>9. ReadBack(text)
    <3> DEFINE B == {"\\"} \cup {"x"}
               w == <<"\\", "\\">>
    <3>1. <<>> \in Seq(B) /\ "\\" \in B /\ w \in Seq(B)
      OBVIOUS
    <3>2. Twice(<<>>) = <<>>
      <4>1. w \in Seq({"\\"} \cup {"x"})
        OBVIOUS
      <4> HIDE DEF w
      <4>2. Texts!Replaced(<<>>, <<"\\">>, w) = <<>>
        BY <2>6, <4>1
      <4>3. QED
        BY <4>2 DEF Twice, w
    <3> HIDE DEF B
    <3>3. Texts!mysql_esc(<<>>) = <<>> /\ Texts!shell_arg_esc(<<>>) = <<>>
      BY <3>1, MysqlGrows, ShellGrows
    <3>4. \A E : Texts!Read(<<>>, E) = Told(<<>>)
      BY <3>1, ReadSteps
    <3>5. QED
      BY <3>2, <3>3, <3>4 DEF ReadBack
  <2>10. QED
    BY <2>1, <2>4, <2>5, <2>7, <2>8, <2>9 DEF TextInv
<1>2. TextInv /\ [Texts!Next]_text => TextInv'
  <2> SUFFICES ASSUME TextInv, [Texts!Next]_text PROVE TextInv'
    OBVIOUS
  <2>1. CASE text' = text
    BY <2>1 DEF TextInv
  <2>2. ASSUME NEW x \in Chars, text' = Append(text, x) PROVE TextInv'
    <3> DEFINE s == text
               r == Append(s, x)
               D == Chars \cup {"\\"}
    <3>1. s \in Seq(Chars) /\ r \in Seq(Chars) /\ s \in Seq(D) /\ x \in D /\ "\\" \in D
      BY DEF TextInv
    <3>2. /\ \A c \in Chars : Apart(s, c)
          /\ Counted(s, ":")
          /\ \A c \in Chars, w \in Seq(Chars) :
                Texts!Replaced(s, <<c>>, w) = Texts!Join(Texts!str_split(s, c), w)
          /\ \A c, e \in Chars : Texts!replace_char(s, c, e) = Texts!Replaced(s, <<c>>, <<e>>)
          /\ ReadBack(s)
      BY DEF TextInv
    <3> HIDE DEF s, D
    <3>3. \A c \in Chars : Apart(r, c)
      BY <3>1, <3>2, ApartGrows
    <3>4. Counted(r, ":")
      BY <3>1, <3>2, CountGrows
    <3>5. ASSUME NEW c \in Chars, NEW w \in Seq(Chars)
          PROVE  Texts!Replaced(r, <<c>>, w) = Texts!Join(Texts!str_split(r, c), w)
      <4> DEFINE t == Texts!str_split(s, c)
      <4>1. t \in Tokens(Chars) /\ Texts!str_split(r, c) = Took(t, x, c)
        BY <3>1, SplitSteps
      <4>2. Texts!Replaced(r, <<c>>, w) = Texts!Replaced(s, <<c>>, w) \o Instead(x, c, w)
        <5>1. Replacing(Chars, s, x, c, w)
          BY <3>1, ReplacedGrows
        <5>2. QED
          BY <5>1 DEF Replacing
      <4>3. Texts!Replaced(s, <<c>>, w) = Texts!Join(t, w)
        BY <3>2
      <4> HIDE DEF t, r
      <4>4. Texts!Join(Took(t, x, c), w) = Texts!Join(t, w) \o Instead(x, c, w)
        BY <4>1, JoinTook DEF Instead
      <4>5. QED
        BY <4>1, <4>2, <4>3, <4>4
    <3>6. ASSUME NEW c \in Chars, NEW e \in Chars
          PROVE  Texts!replace_char(r, c, e) = Texts!Replaced(r, <<c>>, <<e>>)
      <4> DEFINE w == <<e>>
                 p == Texts!replace_char(s, c, e)
                 q == Texts!replace_char(r, c, e)
                 y == IF x = c THEN e ELSE x
                 n == Len(s)
      <4>1. w \in Seq(Chars) /\ y \in Chars /\ Instead(x, c, w) = <<y>>
        BY DEF Instead
      <4>2. Texts!Replaced(r, <<c>>, w) = Texts!Replaced(s, <<c>>, w) \o Instead(x, c, w)
        <5> HIDE DEF w
        <5>1. Replacing(Chars, s, x, c, w)
          BY <3>1, <4>1, ReplacedGrows
        <5>2. QED
          BY <5>1 DEF Replacing
      <4>3. n \in Nat /\ DOMAIN s = 1 .. n /\ DOMAIN r = 1 .. n + 1 /\ r[n + 1] = x
            /\ \A i \in 1 .. n : s[i] \in Chars /\ r[i] = s[i]
        BY <3>1
      <4>4. p \in Seq(Chars) /\ Len(p) = n
            /\ \A i \in 1 .. n : p[i] = IF s[i] = c THEN e ELSE s[i]
        <5>1. p = [i \in 1 .. n |-> IF s[i] = c THEN e ELSE s[i]]
          BY <4>3 DEF Texts!replace_char
        <5> HIDE DEF p, n
        <5>2. p \in [1 .. n -> Chars]
          BY <4>3, <5>1
        <5>3. QED
          BY <4>3, <5>1, <5>2
      <4>5. q \in Seq(Chars) /\ Len(q) = n + 1
            /\ \A i \in 1 .. n + 1 : q[i] = IF r[i] = c THEN e ELSE r[i]
        <5> HIDE DEF r
        <5>1. q = [i \in 1 .. n + 1 |-> IF r[i] = c THEN e ELSE r[i]]
          BY <4>3, Zenon DEF Texts!replace_char
        <5> HIDE DEF q, n
        <5>2. \A i \in 1 .. n + 1 : r[i] \in Chars
          <6>1. \A i \in 1 .. n + 1 : i \in 1 .. n \/ i = n + 1
            BY <4>3
          <6>2. QED
            BY <4>3, <6>1
        <5>3. q \in [1 .. n + 1 -> Chars] /\ n + 1 \in Nat
          BY <4>3, <5>1, <5>2
        <5>4. QED
          BY <5>1, <5>3
      <4> DEFINE u == Append(p, y)
      <4>6. u \in Seq(Chars) /\ Len(u) = n + 1 /\ u[n + 1] = y /\ u = p \o <<y>>
            /\ \A i \in 1 .. n : u[i] = p[i]
        <5> HIDE DEF p, y, n
        <5>1. QED
          BY <4>1, <4>3, <4>4
      <4>7. \A i \in 1 .. n + 1 : q[i] = u[i]
        <5>1. \A i \in 1 .. n + 1 : i \in 1 .. n \/ i = n + 1
          BY <4>3
        <5> HIDE DEF p, q, u, n, r
        <5>2. \A i \in 1 .. n : i \in 1 .. n + 1 /\ q[i] = u[i]
          BY <4>3, <4>4, <4>5, <4>6
        <5>3. n + 1 \in 1 .. n + 1 /\ q[n + 1] = u[n + 1]
          BY <4>3, <4>5, <4>6
        <5>4. QED
          BY <5>1, <5>2, <5>3
      <4>8. q = u
        <5> HIDE DEF q, u, n
        <5>1. QED
          BY <4>5, <4>6, <4>7, SeqEqual
      <4>9. p = Texts!Replaced(s, <<c>>, w)
        BY <3>2
      <4> HIDE DEF p, q, u, y, w, r, n
      <4>10. q = Texts!Replaced(r, <<c>>, w)
        BY <4>1, <4>2, <4>6, <4>8, <4>9
      <4>11. QED
        BY <4>10 DEF q, w
    <3>7. ReadBack(r)
      BY <3>1, <3>2, ReadBackGrows
    <3>8. text' = r
      BY <2>2 DEF s
    <3> HIDE DEF r
    <3>9. QED
      BY <3>1, <3>3, <3>4, <3>5, <3>6, <3>7, <3>8 DEF TextInv
  <2>3. QED
    BY <2>1, <2>2 DEF Texts!Next, Texts!Type
<1>3. QED
  BY <1>1, <1>2, PTL DEF Texts!Spec

LEMMA TextsAgree == Texts!TextAssumption /\ TextInv => Texts!TextHelpersAgree
<1> SUFFICES ASSUME Texts!TextAssumption, TextInv PROVE Texts!TextHelpersAgree
  OBVIOUS
<1>1. text \in Seq(Chars) /\ "throws" \notin Chars
  BY DEF TextInv, Texts!TextAssumption
<1>2. Texts!SplitsApart
  <2>1. ASSUME NEW c \in Chars
        PROVE  /\ Texts!Join(Texts!str_split(text, c), <<c>>) = text
               /\ \A k \in DOMAIN Texts!str_split(text, c) :
                     ~Texts!Contains(Texts!str_split(text, c)[k], c)
    BY DEF TextInv, Apart, Texts!Contains
  <2>2. Texts!connect_tcp2(text) # Texts!Throws <=> Len(Texts!str_split(text, ":")) = 2
    BY DEF Texts!connect_tcp2, Texts!parse_addr_port, Texts!Throws
  <2>3. DOMAIN text = 1 .. Len(text)
    BY <1>1
  <2>4. Len(Texts!str_split(text, ":")) = 2 <=>
          (\E i \in DOMAIN text : \A j \in DOMAIN text : text[j] = ":" <=> j = i)
    <3>1. Counted(text, ":")
      BY DEF TextInv
    <3>2. Len(Texts!str_split(text, ":")) = 2 <=> OneOf(text, ":", Len(text))
      BY <3>1 DEF Counted
    <3>3. OneOf(text, ":", Len(text)) <=>
             (\E i \in DOMAIN text : \A j \in DOMAIN text : text[j] = ":" <=> j = i)
      BY <2>3, SMT DEF OneOf
    <3>4. QED
      BY <3>2, <3>3
  <2>5. QED
    BY <2>1, <2>2, <2>4 DEF Texts!SplitsApart
<1>3. Texts!ReplacesAll
  <2>1. ASSUME NEW c \in Chars, NEW w \in Seq(Chars)
        PROVE  Texts!replace_them_all(text, <<c>>, w) = Texts!Join(Texts!str_split(text, c), w)
    <3>1. <<c>> # <<>>
      OBVIOUS
    <3>2. QED
      BY <3>1 DEF TextInv, Texts!replace_them_all
  <2>2. ASSUME NEW c \in Chars, NEW e \in Chars
        PROVE  /\ <<>> \in Seq(Chars) /\ <<e>> \in Seq(Chars) /\ <<e, c>> \in Seq(Chars)
               /\ Texts!replace_char(text, c, e) = Texts!Join(Texts!str_split(text, c), <<e>>)
    <3>1. <<>> \in Seq(Chars) /\ <<e>> \in Seq(Chars) /\ <<e, c>> \in Seq(Chars)
      OBVIOUS
    <3>2. Texts!replace_char(text, c, e) = Texts!Replaced(text, <<c>>, <<e>>)
      BY DEF TextInv
    <3>3. <<c>> # <<>>
      OBVIOUS
    <3>4. QED
      BY <2>1, <3>1, <3>2, <3>3 DEF Texts!replace_them_all
  <2>3. QED
    BY <2>1, <2>2, Zenon DEF Texts!ReplacesAll
<1>4. Texts!EscapesComeBack
  <2> DEFINE m == Texts!mysql_esc(text)
             literal == Texts!mysql_esc_with_sq(text)
             body == SubSeq(literal, 2, Len(literal) - 1)
             D == Chars \cup {"'"}
  <2>1. m \in Seq(D)
    <3>1. text \in Seq(D) /\ "'" \in D
      BY <1>1
    <3> HIDE DEF D
    <3>2. QED
      BY <3>1, MysqlGrows
  <2>2. literal = <<"'">> \o m \o <<"'">>
    BY DEF Texts!mysql_esc_with_sq
  <2> HIDE DEF m, literal
  <2>3. body = m
    <3> DEFINE n == Len(m)
    <3>1. "'" \in D
      OBVIOUS
    <3> HIDE DEF D
    <3>2. n \in Nat /\ literal \in Seq(D) /\ Len(literal) = n + 2
          /\ \A i \in 1 .. n : literal[i + 1] = m[i]
      BY <2>1, <2>2, <3>1
    <3> HIDE DEF n
    <3> DEFINE z == n + 1
    <3>3. (\A i \in 2 .. z : literal[i] \in D) /\ 2 \in Int /\ z \in Int
          /\ Len(literal) - 1 = z
      BY <3>2
    <3> HIDE DEF z
    <3>4. /\ SubSeq(literal, 2, z) \in Seq(D)
          /\ Len(SubSeq(literal, 2, z)) = IF 2 <= z THEN z - 2 + 1 ELSE 0
          /\ \A i \in 1 .. z - 2 + 1 : SubSeq(literal, 2, z)[i] = literal[2 + i - 1]
      BY <3>3, SubSeqProperties
    <3>5. body \in Seq(D) /\ Len(body) = n /\ \A i \in 1 .. n : body[i] = literal[i + 1]
      <4> DEFINE b == SubSeq(literal, 2, z)
      <4>1. body = b
        BY <3>3
      <4>2. /\ b \in Seq(D)
            /\ Len(b) = IF 2 <= z THEN z - 2 + 1 ELSE 0
            /\ \A i \in 1 .. z - 2 + 1 : b[i] = literal[2 + i - 1]
        BY <3>4
      <4> HIDE DEF b, body
      <4>3. z - 2 + 1 = n /\ Len(b) = n /\ \A i \in 1 .. n : 2 + i - 1 = i + 1
        BY <3>2, <4>2 DEF z
      <4>4. QED
        BY <4>1, <4>2, <4>3
    <3>6. \A i \in 1 .. n : body[i] = m[i]
      BY <3>2, <3>5
    <3>7. QED
      BY <2>1, <3>5, <3>6, SeqEqual DEF n
  <2>4. /\ Texts!Read(m, {"'", "\\"}) = Told(text)
        /\ Texts!Read(m, {"'"}) = Told(Twice(text))
        /\ Texts!Read(Texts!shell_arg_esc(text), {"\\"}) = Told(text)
    BY DEF TextInv, ReadBack, m
  <2>5. ASSUME NEW a, NEW E, NEW v, Texts!Read(a, E) = Told(v)
        PROVE  Texts!Unescaped(a, E) = v
    BY <2>5 DEF Texts!Unescaped, Told
  <2>6. Texts!replace_them_all(text, <<"\\">>, <<"\\", "\\">>) = Twice(text)
    <3>1. <<"\\">> # <<>>
      OBVIOUS
    <3>2. QED
      BY <3>1 DEF Texts!replace_them_all, Twice
  <2> HIDE DEF body
  <2>7. /\ Texts!Unescaped(body, {"'", "\\"}) = text
        /\ Texts!Unescaped(body, {"'"}) = Texts!replace_them_all(text, <<"\\">>, <<"\\", "\\">>)
        /\ Texts!Unescaped(Texts!shell_arg_esc(text), {"\\"}) = text
    BY <2>3, <2>4, <2>5, <2>6
  <2>8. QED
    BY <2>7 DEF Texts!EscapesComeBack, body, literal
<1>5. Texts!DirOfPath
  BY <1>1, DirIs DEF Texts!DirOfPath, Dir
<1>6. QED
  BY <1>2, <1>3, <1>4, <1>5 DEF Texts!TextHelpersAgree

(* Texts of any length and characters keep every character that should     *)
(* stay, split, replaced in, escaped or cut to a directory, and numbers of *)
(* any width are read and written exactly.                                 *)
THEOREM NumbersAndTextsStayExact ==
    Number!NumberAssumption /\ Number!Spec /\ Texts!TextAssumption /\ Texts!Spec
        => []NumbersAndTextsAreExact
<1>1. Texts!TextAssumption /\ TextInv => Texts!TextHelpersAgree
  BY TextsAgree
<1>2. Texts!TextAssumption => Texts!TextAssumption'
  BY DEF Texts!TextAssumption
<1>3. NumbersAreExact /\ Texts!TextHelpersAgree => NumbersAndTextsAreExact
  BY DEF NumbersAndTextsAreExact
<1>4. QED
  BY <1>1, <1>2, <1>3, NumbersAreRead, TextTyped, PTL
=============================================================================
