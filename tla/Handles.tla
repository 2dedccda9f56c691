------------------------------- MODULE Handles -------------------------------
(* What objects of CommMan ask of libevent and of the kernel, and give     *)
(* back: TimerHandler, BaseSignalHandler, BaseListener, BaseHttpServer,    *)
(* BaseConnection and BaseDiagram.                                         *)
(*                                                                         *)
(* An element of a class is a place for an object of it.  A source is what *)
(* libevent hands out (an event, a listener, a server, a bufferevent): it  *)
(* calls back with the object it was given, `ctx', and may own a           *)
(* descriptor.  Everything runs in one thread: while a constructor runs,   *)
(* or an exception unwinds, nothing else does.                             *)
(***************************************************************************)
EXTENDS Naturals, FiniteSets

CONSTANTS
    Timers, SignalHandlers, Listeners, HttpServers, Connections, Diagrams,
    Sources, Fds, None,
    MaxObjects     \* bound: objects at a time

Objects == Timers \cup SignalHandlers \cup Listeners \cup HttpServers
             \cup Connections \cup Diagrams

(* The classes that start without a look at what they have.                *)
Careless == SignalHandlers \cup Listeners \cup Connections \cup Diagrams

HandlesAssumption ==
    /\ None \notin Objects \cup Sources \cup Fds
    /\ HttpServers \cap Careless = {}

VARIABLES
    life,          \* of each place: "none", "making" (its constructor runs),
                   \* "made", "thrown" (to be unwound); "torn": deleted by a
                   \* callback under its own constructor
    handle,        \* timer_event, signal_event, the_listener, http, bev, the_event
    sock_fd,       \* of BaseDiagram
    source,        \* [live, ctx, fd] of each source
    deferred,      \* bufferevents with a callback queued in the loop
    open,          \* open descriptors
    stray,         \* history: sources whose handle was overwritten by a second
                   \* start; nobody can free them any more
    lost           \* history: descriptors that an exception, or a second
                   \* bind_udp, left open

vars == <<life, handle, sock_fd, source, deferred, open, stray, lost>>

NoSource == [live |-> FALSE, ctx |-> None, fd |-> None]

Init ==
    /\ life = [o \in Objects |-> "none"]
    /\ handle = [o \in Objects |-> None] /\ sock_fd = [o \in Objects |-> None]
    /\ source = [s \in Sources |-> NoSource]
    /\ deferred = {} /\ open = {} /\ stray = {} /\ lost = {}

Idle == \A o \in Objects : life[o] \notin {"making", "thrown"}
CanCall(o) == life[o] = "making" \/ (life[o] = "made" /\ Idle)
Unused(s) == ~source[s].live /\ s \notin deferred

-----------------------------------------------------------------------------
(* What the operations are made of.                                        *)
Throw(o) == life' = [life EXCEPT ![o] = "thrown"]
NoThrow  == UNCHANGED life

Held(o) == {handle[o]} \ {None}

(* o gets the source s, which owns fd.  Nobody looks whether o has one: it *)
(* is overwritten, and goes on calling back.                               *)
Start(o, s, fd) ==
    /\ Unused(s)
    /\ handle' = [handle EXCEPT ![o] = s]
    /\ stray' = stray \cup Held(o)
    /\ source' = [source EXCEPT ![s] = [live |-> TRUE, ctx |-> o, fd |-> fd]]
    /\ open' = open \cup ({fd} \ {None})
    /\ UNCHANGED <<sock_fd, lost>>

(* libevent makes no source: the null pointer it returns overwrites the    *)
(* handle; fds are the descriptors that o was to take over.                *)
StartFails(o, fds) ==
    /\ handle' = [handle EXCEPT ![o] = None]
    /\ stray' = stray \cup Held(o)
    /\ open' = open \cup fds /\ lost' = lost \cup fds
    /\ UNCHANGED <<sock_fd, source>>

NothingStarted == UNCHANGED <<handle, sock_fd, source, open, stray, lost>>

(* For a bufferevent: setcb to NULL, then bufferevent_free, so that a      *)
(* queued callback finds no function to call.                              *)
Freed(s) == NoSource

(* stop_timer, release_bev, release_server, release_ev, and what the       *)
(* destructors of the other classes do: free the handle if there is one.   *)
Release(o) ==
    /\ handle' = [handle EXCEPT ![o] = None]
    /\ sock_fd' = [sock_fd EXCEPT ![o] = None]
    /\ source' = [s \in Sources |-> IF s = handle[o] THEN Freed(s) ELSE source[s]]
    /\ open' = (open \ {sock_fd[o]}) \ {source[s].fd : s \in Held(o)}
    /\ UNCHANGED <<stray, lost>>

(* release_bev or release_server, then a new source at the handle.         *)
(* Mutant: the old handle is overwritten.                                  *)
Overwrite(o, s, ctx, fd) ==
    /\ Unused(s)
    /\ handle' = [handle EXCEPT ![o] = s]
    /\ source' = [source EXCEPT ![s] = [live |-> TRUE, ctx |-> ctx, fd |-> fd]]
    /\ open' = open \cup ({fd} \ {None})
    /\ UNCHANGED <<sock_fd, stray, lost>>
Replace(o, s, ctx, fd) ==
    /\ Unused(s)
    /\ handle' = [handle EXCEPT ![o] = s]
    /\ source' = [t \in Sources |->
            IF t = s THEN [live |-> TRUE, ctx |-> ctx, fd |-> fd]
            ELSE IF t = handle[o] THEN Freed(t) ELSE source[t]]
    /\ open' = (open \ {source[t].fd : t \in Held(o)}) \cup ({fd} \ {None})
    /\ UNCHANGED <<sock_fd, stray, lost>>

(* fd is open, and the object was to take it over: an exception leaves it. *)
LeftOpen(fd) ==
    /\ open' = open \cup {fd} /\ lost' = lost \cup {fd}
    /\ UNCHANGED <<handle, sock_fd, source, stray>>

-----------------------------------------------------------------------------
(* The life of an object.  `delete' in a callback that runs inside the     *)
(* constructor destroys what is not made yet.                              *)
Construct(o) ==
    /\ Idle /\ life[o] = "none"
    /\ Cardinality({p \in Objects : life[p] # "none"}) < MaxObjects
    /\ life' = [life EXCEPT ![o] = "making"]
    /\ NothingStarted /\ UNCHANGED deferred

Constructed(o) ==
    /\ life[o] = "making"
    /\ life' = [life EXCEPT ![o] = "made"]
    /\ NothingStarted /\ UNCHANGED deferred

Delete(o) ==
    /\ Release(o)
    /\ life' = [life EXCEPT ![o] = IF @ = "making" THEN "torn" ELSE "none"]

Destroy(o) ==
    /\ life[o] = "thrown" \/ (life[o] = "made" /\ Idle)
    /\ Delete(o) /\ UNCHANGED deferred

-----------------------------------------------------------------------------
(* TimerHandler: the one class that tests whether it has been started.     *)
start_timer(o) ==
    /\ CanCall(o)
    /\ \/ Throw(o) /\ NothingStarted      \* started already, or event_new failed
       \/ /\ handle[o] = None /\ NoThrow
          /\ \E s \in Sources : Start(o, s, None)
    /\ UNCHANGED deferred

stop_timer(o) == CanCall(o) /\ NoThrow /\ Release(o) /\ UNCHANGED deferred

(* BaseSignalHandler; QuitSignalHandler calls it in its constructor.  When *)
(* event_add fails, the event is left to the destructor of the base.       *)
start_handle_signal(o) ==
    /\ CanCall(o)
    /\ \/ Throw(o) /\ StartFails(o, {})
       \/ \E s \in Sources : Start(o, s, None) /\ (Throw(o) \/ NoThrow)
    /\ UNCHANGED deferred

(* BaseListener: on a descriptor of the caller, which the listener owns    *)
(* from then on; on an address, where libevent makes the socket.           *)
start_listen_on_fd(o, fd) ==
    \/ NoThrow /\ \E s \in Sources : Start(o, s, fd)
    \/ Throw(o) /\ StartFails(o, {fd})

start_listen_on_tcp(o) ==
    /\ CanCall(o)
    /\ \/ Throw(o) /\ NothingStarted      \* bad address
       \/ Throw(o) /\ StartFails(o, {})   \* no listener
       \/ NoThrow /\ \E s \in Sources, fd \in Fds \ open : Start(o, s, fd)
    /\ UNCHANGED deferred

(* socket, then four steps that close it when they fail, then on_fd.       *)
start_listen_on_un(o) ==
    /\ CanCall(o)
    /\ \/ Throw(o) /\ NothingStarted
       \/ \E fd \in Fds \ open : start_listen_on_fd(o, fd)
    /\ UNCHANGED deferred

(* BaseHttpServer: a server that could not bind is kept, without callback. *)
start_server(o) ==
    /\ CanCall(o) /\ NoThrow
    /\ \E s \in Sources :
          \/ Replace(o, s, None, None)
          \/ \E fd \in Fds \ open : Replace(o, s, o, fd)
    /\ UNCHANGED deferred

release_server(o) == CanCall(o) /\ NoThrow /\ Release(o) /\ UNCHANGED deferred

(* BaseDiagram.  sock_fd is assigned first: the descriptor it had is lost. *)
(* What was made before the step that fails is given back, the socket by   *)
(* evutil_closesocket, the event too by release_ev (`forgets': the handle).*)
Bind(o, s, fd) ==
    /\ Unused(s)
    /\ sock_fd' = [sock_fd EXCEPT ![o] = fd]
    /\ handle' = [handle EXCEPT ![o] = s]
    /\ stray' = stray \cup Held(o)
    /\ source' = [source EXCEPT ![s] = [live |-> TRUE, ctx |-> o, fd |-> None]]
    /\ open' = open \cup {fd}

BindFails(o, forgets) ==
    /\ sock_fd' = [sock_fd EXCEPT ![o] = None]
    /\ handle' = [handle EXCEPT ![o] = IF forgets THEN None ELSE @]
    /\ stray' = IF forgets THEN stray \cup Held(o) ELSE stray
    /\ UNCHANGED <<source, open>>

bind_udp(o) ==
    /\ CanCall(o)
    /\ \/ Throw(o) /\ \E forgets \in BOOLEAN : BindFails(o, forgets)
       \/ NoThrow /\ \E s \in Sources, fd \in Fds \ open : Bind(o, s, fd)
    /\ lost' = lost \cup ({sock_fd[o]} \ {None})
    /\ UNCHANGED deferred

release_ev(o) == CanCall(o) /\ NoThrow /\ Release(o) /\ UNCHANGED deferred

-----------------------------------------------------------------------------
(* BaseConnection.  pre_take_socket may refuse: tcp_keepalive_on, made for *)
(* it, closes what it refuses, another hook may not.                       *)
TakeSocket(o, fd) ==
    \/ Throw(o) /\ (NothingStarted \/ LeftOpen(fd))    \* it refuses
    \/ Throw(o) /\ StartFails(o, {fd})                 \* no bufferevent
    \/ NoThrow /\ \E s \in Sources : Start(o, s, fd)

take_socket(o) ==
    /\ CanCall(o)
    /\ \E fd \in Fds \ open : TakeSocket(o, fd)
    /\ UNCHANGED deferred

(* open may fail, which is no exception; then take_socket.                 *)
connect_generic(o) ==
    /\ CanCall(o)
    /\ \/ NoThrow /\ NothingStarted
       \/ \E fd \in Fds \ open : TakeSocket(o, fd)
    /\ UNCHANGED deferred

(* The connect has failed when it returns: the event callback is queued    *)
(* (BEV_OPT_DEFER_CALLBACKS of DEFAULT_BEV_OPTION).                        *)
FailsAtOnce(o, s, fd) ==
    Start(o, s, fd) /\ NoThrow /\ deferred' = deferred \cup {s}

Connect(o, s, fd) ==
    \/ FailsAtOnce(o, s, fd)
    \/ Start(o, s, fd) /\ NoThrow /\ UNCHANGED deferred

connect_tcp(o) ==
    /\ CanCall(o)
    /\ \/ /\ Throw(o) /\ UNCHANGED deferred
          /\ \/ NothingStarted               \* no socket, or it was refused
             \/ \E fd \in Fds \ open : LeftOpen(fd) \/ StartFails(o, {fd})
       \/ \E s \in Sources, fd \in Fds \ open : Connect(o, s, fd)

(* The socket is made by libevent, for the bufferevent.                    *)
connect_unix(o) ==
    /\ CanCall(o)
    /\ \/ Throw(o) /\ StartFails(o, {}) /\ UNCHANGED deferred
       \/ \E s \in Sources, fd \in Fds \ open : Connect(o, s, fd)

(* One end of bufferevent_pair_new, as MsgSwitch::create_inner_pipe gives  *)
(* it, for the first time or again.                                        *)
take_bev(o) ==
    /\ CanCall(o) /\ NoThrow
    /\ \E s \in Sources : Replace(o, s, o, None)
    /\ UNCHANGED deferred

-----------------------------------------------------------------------------
(* The loop.  A bufferevent has something to report, and its callback      *)
(* waits for its turn.                                                     *)
Report(s) ==
    /\ Idle /\ source[s].live /\ source[s].ctx \in Connections
    /\ deferred' = deferred \cup {s}
    /\ NoThrow /\ NothingStarted

(* trampoline_event and on_conn_event: the end of the stream, an error or  *)
(* a timeout end in post_disconnected, `delete this'.  A stray source gives *)
(* the place of its object: what is there is deleted, and when nothing is, *)
(* the call is undefined and not followed.                                 *)
RunDeferred(s) ==
    /\ Idle /\ s \in deferred
    /\ deferred' = deferred \ {s}
    /\ \/ NoThrow /\ NothingStarted
       \/ /\ source[s].live /\ source[s].ctx # None /\ life[source[s].ctx] # "none"
          /\ Delete(source[s].ctx)

OperationOn(o) ==
    \/ Construct(o) \/ Constructed(o) \/ Destroy(o)
    \/ o \in Timers /\ (start_timer(o) \/ stop_timer(o))
    \/ o \in SignalHandlers /\ start_handle_signal(o)
    \/ o \in Listeners /\ (start_listen_on_tcp(o) \/ start_listen_on_un(o))
    \/ o \in HttpServers /\ (start_server(o) \/ release_server(o))
    \/ o \in Diagrams /\ (bind_udp(o) \/ release_ev(o))
    \/ /\ o \in Connections
       /\ \/ take_socket(o) \/ connect_generic(o) \/ connect_tcp(o)
          \/ connect_unix(o) \/ take_bev(o)

Next ==
    \/ \E o \in Objects : OperationOn(o)
    \/ \E s \in Sources : Report(s) \/ RunDeferred(s)

Spec == Init /\ [][Next]_vars

-----------------------------------------------------------------------------
TypeOK ==
    /\ life \in [Objects -> {"none", "making", "made", "thrown", "torn"}]
    /\ handle \in [Objects -> Sources \cup {None}]
    /\ sock_fd \in [Objects -> Fds \cup {None}]
    /\ source \in [Sources -> [live : BOOLEAN, ctx : Objects \cup {None},
                               fd : Fds \cup {None}]]
    /\ deferred \in SUBSET Sources
    /\ open \in SUBSET Fds /\ stray \in SUBSET Sources /\ lost \in SUBSET Fds

(* A callback is given an object that lives and still holds the source,    *)
(* also when it was queued before the source was freed; what libevent has  *)
(* handed out is the handle of one object.  The exception: a second        *)
(* take_socket, connect_*, start_handle_signal, start_listen_on_* or       *)
(* bind_udp on an object leaves the first source to call it for ever, and  *)
(* what is at its place afterwards; a timer and a server never do that.    *)
SourcesHaveTheirObject ==
    /\ \A s \in Sources \ stray :
          source[s].ctx # None => handle[source[s].ctx] = s
    /\ \A s \in stray : source[s].ctx \in Careless /\ \A o \in Objects : handle[o] # s
    /\ \A s \in Sources : source[s].live <=> (s \in stray \/ \E o \in Objects : handle[o] = s)
    /\ \A o, p \in Objects : handle[o] = handle[p] /\ handle[o] # None => o = p

Owned(fd) ==
    \/ fd \in lost
    \/ \E o \in Objects : sock_fd[o] = fd
    \/ \E s \in Sources : source[s].fd = fd

(* A descriptor is open if and only if somebody answers for it, or an      *)
(* exception left it (CommMan/connections.cpp 57, 113, listeners.cpp 27)   *)
(* or a second bind_udp (connections.cpp 171), and one answers for it:     *)
(* closing it closes nothing of another object.                            *)
DescriptorsHaveOneOwner ==
    /\ \A fd \in Fds : fd \in open <=> Owned(fd)
    /\ \A s, t \in Sources : source[s].fd = source[t].fd /\ source[s].fd # None => s = t
    /\ \A o, p \in Objects : sock_fd[o] = sock_fd[p] /\ sock_fd[o] # None => o = p
    /\ \A s \in Sources, o \in Objects : sock_fd[o] = source[s].fd => sock_fd[o] = None
    /\ \A s \in Sources : source[s].fd \notin lost
    /\ \A o \in Objects : sock_fd[o] \notin lost

(* What is destroyed holds nothing, and nothing is destroyed while its     *)
(* constructor runs (the comment at CommMan/connections.h 18).             *)
NothingHeldWhenGone ==
    /\ \A o \in Objects : life[o] = "none" => handle[o] = None /\ sock_fd[o] = None
    /\ \A o \in Objects : life[o] # "torn"

(* The promise of the classes that hold event sources and descriptors: a   *)
(* source never calls an object that is gone, nothing is leaked and        *)
(* nothing is freed or closed twice, whatever fails and whoever deletes,   *)
(* but for what a second start overwrites (see SourcesHaveTheirObject).    *)
NothingOutlivesItsObject ==
    /\ SourcesHaveTheirObject
    /\ DescriptorsHaveOneOwner
    /\ NothingHeldWhenGone
=============================================================================
