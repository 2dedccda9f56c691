----------------------------- MODULE ConnManager -----------------------------
(***************************************************************************)
(* OuterPipeMan over SharedPtrMan, the OuterPipes it manages with their    *)
(* relay tables, and a SingletonOutgoingConnGuard (CommMan/connections.*,  *)
(* CommMan/thread_utils.h 528-613), driven as samples/echo_to_all.cpp      *)
(* drives them: a listener registers what it accepts, everything runs in   *)
(* callbacks of the one loop, the manager goes when the loop has ended.    *)
(*                                                                         *)
(* An element of Clients or Backends is a place for an OuterPipe object:   *)
(* a client is accepted, a backend is made by the guard, whose type it     *)
(* has.  Clients ask, and the answer of a backend is relayed to the asker. *)
(***************************************************************************)
EXTENDS Naturals

CONSTANTS
    Clients, Backends,
    Tokens,        \* the seqs this process hands out, each to one query
    IdModulus,     \* 2^(bits of an unsigned long)
    MaxAccepts,    \* bound: connections accepted
    NoConn, NoId

Conns == Clients \cup Backends
Ids == 0 .. IdModulus - 1

ASSUME ManagerAssumption ==
    /\ IdModulus \in Nat \ {0} /\ MaxAccepts \in Nat
    /\ Clients \cap Backends = {} /\ NoConn \notin Conns /\ NoId \notin Ids

VARIABLES
    man,           \* the map of SharedPtrMan: id -> OuterPipe*, or NoConn
    next_pipe_id,
    life,          \* of each place: "none", "connecting", "open"
    managed, pipe_id, pipe_line, pending_tokens,   \* members of OuterPipe
    alive,         \* what is_alive would return
    loop,          \* "running", "ended"; "gone": ~OuterPipeMan has run
    style,         \* when the guard's PipeType registers itself
    peerUp,        \* the guard's peer accepts connections
    accepts,       \* bounds Accept
    asker,         \* history: the object that waits for the answer, if it lives
    got            \* history: what became of the answer

manVars == <<man, next_pipe_id>>
pipeVars == <<life, managed, pipe_id, pipe_line, pending_tokens, alive>>
envVars == <<loop, style, peerUp, accepts>>
vars == <<manVars, pipeVars, envVars, asker, got>>

Init ==
    /\ man = [id \in Ids |-> NoConn] /\ next_pipe_id = 0
    /\ life = [c \in Conns |-> "none"]
    /\ managed = [c \in Conns |-> FALSE] /\ pipe_id = [c \in Conns |-> 0]
    /\ pipe_line = [c \in Conns |-> [t \in Tokens |-> NoId]]
    /\ pending_tokens = [c \in Conns |-> {}]
    /\ alive = [c \in Conns |-> TRUE]
    /\ loop = "running" /\ style \in {"constructor", "connected"} /\ peerUp = TRUE
    /\ accepts = 0
    /\ asker = [t \in Tokens |-> NoConn] /\ got = [t \in Tokens |-> "unasked"]

-----------------------------------------------------------------------------
(* The objects in S are deleted, with their tables.                        *)
Delete(S) ==
    /\ life' = [c \in Conns |-> IF c \in S THEN "none" ELSE life[c]]
    /\ managed' = [c \in Conns |-> managed[c] /\ c \notin S]
    /\ pipe_id' = [c \in Conns |-> IF c \in S THEN 0 ELSE pipe_id[c]]
    /\ pipe_line' = [c \in Conns |->
            IF c \in S THEN [t \in Tokens |-> NoId] ELSE pipe_line[c]]
    /\ pending_tokens' = [c \in Conns |-> IF c \in S THEN {} ELSE pending_tokens[c]]
    /\ alive' = [c \in Conns |-> alive[c] \/ c \in S]
    /\ asker' = [t \in Tokens |-> IF asker[t] \in S THEN NoConn ELSE asker[t]]

(* `next_pipe_id ++'.  Mutant: without the increment.                      *)
SameId(id) == id
IdAfter(id) == (id + 1) % IdModulus

(* Mutant: take_it before add_new_item has said that the id is free.       *)
TakeItAnyway(c, at) ==
    /\ next_pipe_id' = IdAfter(next_pipe_id)
    /\ man' = [man EXCEPT ![next_pipe_id] = IF @ = NoConn THEN c ELSE @]
    /\ life' = [life EXCEPT ![c] = at]
    /\ managed' = [managed EXCEPT ![c] = TRUE]
    /\ pipe_id' = [pipe_id EXCEPT ![c] = next_pipe_id]
    /\ UNCHANGED <<pipe_line, pending_tokens, alive, asker>>

(* allocate_new_id, add_new_item and take_it.  When the id is in use, the  *)
(* caller deletes the new connection (listener_cb).                        *)
register_connection(c, at) ==
    /\ next_pipe_id' = IdAfter(next_pipe_id)
    /\ \/ /\ man[next_pipe_id] = NoConn
          /\ man' = [man EXCEPT ![next_pipe_id] = c]
          /\ life' = [life EXCEPT ![c] = at]
          /\ managed' = [managed EXCEPT ![c] = TRUE]
          /\ pipe_id' = [pipe_id EXCEPT ![c] = next_pipe_id]
          /\ UNCHANGED <<pipe_line, pending_tokens, alive, asker>>
       \/ /\ man[next_pipe_id] # NoConn
          /\ Delete({c})
          /\ UNCHANGED man

(* get_item, then remove_item, which deletes what it finds.                *)
unregister_connection(id) ==
    /\ man' = [man EXCEPT ![id] = NoConn]
    /\ Delete({man[id]} \ {NoConn})

(* Mutant: `delete this' whoever manages it.                               *)
DeleteThis(c) == Delete({c}) /\ UNCHANGED man

release_self(c) ==
    \/ managed[c] /\ unregister_connection(pipe_id[c])
    \/ ~managed[c] /\ Delete({c}) /\ UNCHANGED man

-----------------------------------------------------------------------------
(* The callbacks of the loop.                                              *)
listener_cb(c) ==
    /\ loop = "running" /\ life[c] = "none" /\ accepts < MaxAccepts
    /\ accepts' = accepts + 1
    /\ register_connection(c, "open")
    /\ UNCHANGED <<loop, style, peerUp, got>>

(* find_first_pipe_by_type, find_to_exist_conn: the lowest id of the type. *)
BackendIds == {id \in Ids : man[id] \in Backends}
FirstBackend == man[CHOOSE id \in BackendIds : \A i \in BackendIds : id <= i]

(* The guard's tick, when no connection of its type is registered: `new    *)
(* PipeType', which connects and, in one style, registers at once.         *)
MakesBackend(c) ==
    /\ loop = "running" /\ life[c] = "none"
    /\ \/ style = "constructor" /\ register_connection(c, "connecting")
       \/ /\ style = "connected"
          /\ life' = [life EXCEPT ![c] = "connecting"]
          /\ UNCHANGED <<manVars, managed, pipe_id, pipe_line, pending_tokens, alive, asker>>
    /\ UNCHANGED <<envVars, got>>

(* Mutant: the tick does not look.                                         *)
TickBlind(c) == MakesBackend(c)
GuardTick(c) == BackendIds = {} /\ MakesBackend(c)

(* on_conn_event with BEV_EVENT_CONNECTED, as a PipeType overrides it.     *)
Connected(c) ==
    /\ loop = "running" /\ peerUp /\ life[c] = "connecting"
    /\ \/ style = "connected" /\ register_connection(c, "open")
       \/ /\ style = "constructor"
          /\ life' = [life EXCEPT ![c] = "open"]
          /\ UNCHANGED <<manVars, managed, pipe_id, pipe_line, pending_tokens, alive, asker>>
    /\ UNCHANGED <<envVars, got>>

(* on_conn_event with EOF, ERROR or TIMEOUT: post_disconnected.            *)
on_conn_event(c) ==
    /\ loop = "running"
    /\ life[c] = "open" \/ (life[c] = "connecting" /\ ~peerUp)
    /\ release_self(c)
    /\ UNCHANGED <<next_pipe_id, envVars, got>>

(* The heartbeat: its loop starts again after each pipe it drops, until    *)
(* none is left that is not alive.  A pipe is dropped by the id it says it *)
(* has.  OuterPipeMan does not start its timer itself, and nobody else in  *)
(* the repository does: the beat may come, and need not.                   *)
DeadIds == {id \in Ids : man[id] # NoConn /\ ~alive[man[id]]}
timer_cb ==
    LET dropped == {pipe_id[man[id]] : id \in DeadIds} IN
    /\ loop = "running" /\ DeadIds # {}
    /\ man' = [id \in Ids |-> IF id \in dropped THEN NoConn ELSE man[id]]
    /\ Delete({man[id] : id \in dropped} \ {NoConn})
    /\ UNCHANGED <<next_pipe_id, envVars, got>>

-----------------------------------------------------------------------------
(* Relaying, as the comment at connections.h 238-243 has it.  A query of   *)
(* client a goes to the first backend b under the new token t.             *)
RelayQuery(a, t) ==
    /\ loop = "running" /\ life[a] = "open" /\ BackendIds # {} /\ got[t] = "unasked"
    /\ pipe_line' = [pipe_line EXCEPT ![FirstBackend][t] = pipe_id[a]]     \* reg_pipe_line
    /\ pending_tokens' = [pending_tokens EXCEPT ![a] = @ \cup {t}]         \* wait_4_response
    /\ asker' = [asker EXCEPT ![t] = a]
    /\ got' = [got EXCEPT ![t] = "asked"]
    /\ UNCHANGED <<manVars, life, managed, pipe_id, alive, envVars>>

(* unwait_if_waiting's test on what get_item finds.  Mutant: no test.      *)
get_item(id) == {c \in Conns : man[id] = c}
Whoever(id, t) == get_item(id)
Waiting(id, t) == {a \in get_item(id) : t \in pending_tokens[a]}

(* b receives an answer with token t, possibly not the first: the table    *)
(* names the asker's id (find_dest_pipe, which erases the entry), the      *)
(* manager its object, and the object says whether it waits.               *)
RelayAnswer(b, t) ==
    LET id == pipe_line[b][t] IN
    /\ loop = "running" /\ life[b] = "open" /\ id # NoId
    /\ pipe_line' = [pipe_line EXCEPT ![b][t] = NoId]
    /\ \/ \E a \in Waiting(id, t) :
          /\ pending_tokens' = [pending_tokens EXCEPT ![a] = @ \ {t}]
          /\ got' = [got EXCEPT ![t] =
                IF @ = "asked" /\ asker[t] = a THEN "answered" ELSE "astray"]
       \/ Waiting(id, t) = {} /\ UNCHANGED <<pending_tokens, got>>
    /\ UNCHANGED <<manVars, life, managed, pipe_id, alive, envVars, asker>>

-----------------------------------------------------------------------------
(* The peers, and the end.                                                 *)
FallsSilent(c) ==
    /\ loop = "running" /\ life[c] = "open"
    /\ alive' = [alive EXCEPT ![c] = FALSE]
    /\ UNCHANGED <<manVars, life, managed, pipe_id, pipe_line, pending_tokens, envVars, asker, got>>

PeerTurns ==
    /\ loop = "running" /\ peerUp' = ~peerUp
    /\ UNCHANGED <<manVars, pipeVars, loop, style, accepts, asker, got>>

LoopEnds ==
    /\ loop = "running" /\ loop' = "ended"
    /\ UNCHANGED <<manVars, pipeVars, style, peerUp, accepts, asker, got>>

(* ~SharedPtrMan deletes every pipe it still holds; the map goes with it.  *)
DestroyMan ==
    /\ loop = "ended" /\ loop' = "gone"
    /\ Delete({man[id] : id \in Ids} \ {NoConn})
    /\ man' = [id \in Ids |-> NoConn]
    /\ UNCHANGED <<next_pipe_id, style, peerUp, accepts, got>>

Next ==
    \/ \E c \in Clients : listener_cb(c)
    \/ \E c \in Backends : GuardTick(c) \/ Connected(c)
    \/ \E c \in Conns : on_conn_event(c) \/ FallsSilent(c)
    \/ timer_cb
    \/ \E a \in Clients, t \in Tokens : RelayQuery(a, t)
    \/ \E b \in Backends, t \in Tokens : RelayAnswer(b, t)
    \/ PeerTurns \/ LoopEnds \/ DestroyMan

Spec == Init /\ [][Next]_vars

(* The guard's timer ticks, and a connection that can be made is made.     *)
FairSpec ==
    /\ Spec
    /\ WF_vars(\E c \in Backends : GuardTick(c))
    /\ WF_vars(\E c \in Backends : Connected(c))

-----------------------------------------------------------------------------
TypeOK ==
    /\ man \in [Ids -> Conns \cup {NoConn}] /\ next_pipe_id \in Ids
    /\ life \in [Conns -> {"none", "connecting", "open"}]
    /\ managed \in [Conns -> BOOLEAN] /\ pipe_id \in [Conns -> Ids]
    /\ pipe_line \in [Conns -> [Tokens -> Ids \cup {NoId}]]
    /\ pending_tokens \in [Conns -> SUBSET Tokens]
    /\ alive \in [Conns -> BOOLEAN]
    /\ loop \in {"running", "ended", "gone"} /\ style \in {"constructor", "connected"}
    /\ peerUp \in BOOLEAN /\ accepts \in 0 .. MaxAccepts
    /\ asker \in [Tokens -> Conns \cup {NoConn}]
    /\ got \in [Tokens -> {"unasked", "asked", "answered", "astray"}]

(* The map and the objects agree, whatever ends a connection and however   *)
(* often the ids have wrapped: what is listed lives and knows its id, and  *)
(* what is managed is listed under it, so it is deleted once and by its    *)
(* own id.                                                                 *)
ListedIffManaged ==
    /\ \A id \in Ids : man[id] # NoConn =>
        life[man[id]] # "none" /\ managed[man[id]] /\ pipe_id[man[id]] = id
    /\ \A c \in Conns : managed[c] => man[pipe_id[c]] = c

(* An answer reaches the very object that asked, once, or nobody, although *)
(* tables hold ids of connections that are gone and ids come again.        *)
AnswerOnceToAsker == \A t \in Tokens : got[t] # "astray"

(* The guard's connection is the only registered one of its type when it   *)
(* registers in its constructor.                                           *)
OneGuarded == style = "constructor" => \A i, j \in BackendIds : i = j

(* A registered connection ends by an event of its own, by the heartbeat   *)
(* if it is silent, or with the manager: never by the end of another one,  *)
(* by a registration that is refused, or by an id that it no longer has.   *)
EndsAlone ==
    [][\A c \in Conns : managed[c] /\ ~managed'[c] =>
          on_conn_event(c) \/ (timer_cb /\ ~alive[c]) \/ DestroyMan]_vars

(* While the peer accepts, the guard has a registered connection again and *)
(* again: collisions of ids and connections that end do not stop it.       *)
Reconnects == <>[](peerUp /\ loop = "running") => []<>(BackendIds # {})
=============================================================================
