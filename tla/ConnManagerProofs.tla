-------------------------- MODULE ConnManagerProofs --------------------------
(***************************************************************************)
(* Theorems of ConnManager, for any connections, tokens and width of ids,  *)
(* whenever a PipeType registers itself.                                   *)
(***************************************************************************)
EXTENDS ConnManager, TLAPS

(* A connection that will register when connected is not managed before.   *)
NotYetManaged ==
    style = "connected" => \A c \in Conns : life[c] = "connecting" => ~managed[c]

(* An object waits for the tokens it asked under, while they are open.     *)
PendingOfAsker ==
    \A c \in Conns, t \in Tokens :
        t \in pending_tokens[c] => asker[t] = c /\ got[t] = "asked"

IInv == TypeOK /\ ListedIffManaged /\ NotYetManaged /\ PendingOfAsker /\ AnswerOnceToAsker

PipesTyped ==
    /\ life \in [Conns -> {"none", "connecting", "open"}]
    /\ managed \in [Conns -> BOOLEAN] /\ pipe_id \in [Conns -> Ids]
    /\ pipe_line \in [Conns -> [Tokens -> Ids \cup {NoId}]]
    /\ pending_tokens \in [Conns -> SUBSET Tokens]
    /\ alive \in [Conns -> BOOLEAN]
    /\ asker \in [Tokens -> Conns \cup {NoConn}]
ManTyped == man \in [Ids -> Conns \cup {NoConn}] /\ next_pipe_id \in Ids

(* IInv but for the environment's types.                                   *)
Kept ==
    /\ ManTyped /\ PipesTyped /\ ListedIffManaged
    /\ NotYetManaged /\ PendingOfAsker /\ AnswerOnceToAsker

LEMMA ZeroIsId == 0 \in Ids /\ \A id \in Ids : IdAfter(id) \in Ids
  BY ManagerAssumption DEF Ids, IdAfter

-----------------------------------------------------------------------------
(* Objects that are deleted together with their entries in the map leave   *)
(* everything else as it was.                                              *)
LEMMA Deleting ==
    ASSUME IInv, NEW S \in SUBSET Conns, Delete(S),
           man' = [id \in Ids |-> IF man[id] \in S THEN NoConn ELSE man[id]],
           next_pipe_id' \in Ids, UNCHANGED <<style, got>>
    PROVE  Kept'
<1> USE DEF IInv
<1>1. ManTyped'
  BY DEF ManTyped, TypeOK
<1>2. PipesTyped'
  <2>1. /\ life' \in [Conns -> {"none", "connecting", "open"}]
        /\ pending_tokens' \in [Conns -> SUBSET Tokens]
        /\ asker' \in [Tokens -> Conns \cup {NoConn}]
    BY DEF Delete, TypeOK
  <2>2. managed' \in [Conns -> BOOLEAN] /\ alive' \in [Conns -> BOOLEAN]
    BY DEF Delete, TypeOK
  <2>3. pipe_id' \in [Conns -> Ids] /\ pipe_line' \in [Conns -> [Tokens -> Ids \cup {NoId}]]
    BY ZeroIsId DEF Delete, TypeOK
  <2>4. QED
    BY <2>1, <2>2, <2>3 DEF PipesTyped
<1>3. ListedIffManaged'
  <2>1. ASSUME NEW id \in Ids, man'[id] # NoConn
        PROVE  life'[man'[id]] # "none" /\ managed'[man'[id]] /\ pipe_id'[man'[id]] = id
    <3>1. man'[id] = man[id] /\ man[id] \notin S /\ man[id] \in Conns
      BY <2>1 DEF TypeOK
    <3>2. life[man[id]] # "none" /\ managed[man[id]] /\ pipe_id[man[id]] = id
      BY <2>1, <3>1 DEF ListedIffManaged
    <3>3. QED
      BY <3>1, <3>2 DEF Delete
  <2>2. ASSUME NEW c \in Conns, managed'[c]
        PROVE  man'[pipe_id'[c]] = c
    <3>1. managed[c] /\ c \notin S
      BY <2>2 DEF Delete
    <3>2. pipe_id'[c] = pipe_id[c] /\ pipe_id[c] \in Ids /\ man[pipe_id[c]] = c
      BY <3>1 DEF Delete, ListedIffManaged, TypeOK
    <3>3. QED
      BY <3>1, <3>2
  <2>3. QED
    BY <2>1, <2>2 DEF ListedIffManaged
<1>4. NotYetManaged'
  BY DEF NotYetManaged, Delete
<1>5. PendingOfAsker'
  <2> SUFFICES ASSUME NEW c \in Conns, NEW t \in Tokens, t \in pending_tokens'[c]
               PROVE  asker'[t] = c /\ got'[t] = "asked"
    BY DEF PendingOfAsker
  <2>1. c \notin S /\ t \in pending_tokens[c]
    BY DEF Delete
  <2>2. asker[t] = c /\ got[t] = "asked"
    BY <2>1 DEF PendingOfAsker
  <2>3. QED
    BY <2>1, <2>2 DEF Delete
<1>6. AnswerOnceToAsker'
  BY DEF AnswerOnceToAsker
<1>7. QED
  BY <1>1, <1>2, <1>3, <1>4, <1>5, <1>6 DEF Kept

(* What is not managed is not in the map.                                  *)
LEMMA NotListed ==
    ASSUME IInv, NEW c \in Conns, ~managed[c]
    PROVE  \A id \in Ids : man[id] # c
  BY ManagerAssumption DEF IInv, ListedIffManaged

(* What does not exist is not managed.                                     *)
LEMMA NoneIsNotManaged ==
    ASSUME IInv, NEW c \in Conns, life[c] = "none"
    PROVE  ~managed[c]
<1>1. managed[c] => man[pipe_id[c]] = c /\ pipe_id[c] \in Ids /\ c # NoConn
  BY ManagerAssumption DEF IInv, ListedIffManaged, TypeOK
<1>2. QED
  BY <1>1 DEF IInv, ListedIffManaged

(* An unmanaged object that registers is listed under a free id, or gone.  *)
LEMMA Registering ==
    ASSUME IInv, NEW c \in Conns, ~managed[c],
           NEW at \in {"connecting", "open"}, at = "connecting" => style = "constructor",
           register_connection(c, at), UNCHANGED <<style, got>>
    PROVE  Kept'
<1> USE DEF IInv
<1>1. next_pipe_id' \in Ids /\ next_pipe_id \in Ids
  BY ZeroIsId DEF register_connection, TypeOK
<1>2. CASE man[next_pipe_id] # NoConn
  <2>1. Delete({c}) /\ man' = man
    BY <1>2 DEF register_connection
  <2>2. man' = [id \in Ids |-> IF man[id] \in {c} THEN NoConn ELSE man[id]]
    BY <2>1, NotListed DEF TypeOK
  <2>3. QED
    BY <1>1, <2>1, <2>2, Deleting
<1>3. CASE man[next_pipe_id] = NoConn
  <2> DEFINE id0 == next_pipe_id
  <2>1. /\ man' = [man EXCEPT ![id0] = c] /\ life' = [life EXCEPT ![c] = at]
        /\ managed' = [managed EXCEPT ![c] = TRUE] /\ pipe_id' = [pipe_id EXCEPT ![c] = id0]
        /\ UNCHANGED <<pipe_line, pending_tokens, alive, asker>>
    BY <1>3 DEF register_connection, Delete
  <2>2. ManTyped' /\ PipesTyped'
    <3>1. managed' \in [Conns -> BOOLEAN] /\ alive' \in [Conns -> BOOLEAN]
      BY <2>1 DEF TypeOK
    <3>2. QED
      BY <1>1, <2>1, <3>1 DEF ManTyped, PipesTyped, TypeOK
  <2>3. ListedIffManaged'
    <3>1. ASSUME NEW id \in Ids, man'[id] # NoConn
          PROVE  life'[man'[id]] # "none" /\ managed'[man'[id]] /\ pipe_id'[man'[id]] = id
      <4>1. CASE id = id0
        BY <2>1, <4>1 DEF TypeOK
      <4>2. CASE id # id0
        <5>1. man'[id] = man[id] /\ man[id] \in Conns /\ man[id] # c
          BY <2>1, <3>1, <4>2, NotListed DEF TypeOK
        <5>2. QED
          BY <2>1, <3>1, <5>1 DEF ListedIffManaged, TypeOK
      <4>3. QED
        BY <4>1, <4>2
    <3>2. ASSUME NEW d \in Conns, managed'[d]
          PROVE  man'[pipe_id'[d]] = d
      <4>1. CASE d = c
        BY <1>1, <2>1, <4>1 DEF TypeOK
      <4>2. CASE d # c
        <5>1. managed[d] /\ pipe_id'[d] = pipe_id[d] /\ man[pipe_id[d]] = d /\ pipe_id[d] \in Ids
          BY <2>1, <3>2, <4>2 DEF ListedIffManaged, TypeOK
        <5>2. pipe_id[d] # id0
          BY <1>3, <5>1, ManagerAssumption
        <5>3. QED
          BY <2>1, <5>1, <5>2 DEF TypeOK
      <4>3. QED
        BY <4>1, <4>2
    <3>3. QED
      BY <3>1, <3>2 DEF ListedIffManaged
  <2>4. NotYetManaged'
    BY <2>1 DEF NotYetManaged, TypeOK
  <2>5. PendingOfAsker' /\ AnswerOnceToAsker'
    BY <2>1 DEF PendingOfAsker, AnswerOnceToAsker
  <2>6. QED
    BY <2>2, <2>3, <2>4, <2>5 DEF Kept
<1>4. QED
  BY <1>2, <1>3

(* unregister_connection deletes an object together with its entry.        *)
LEMMA Unregistering ==
    ASSUME IInv, NEW id \in Ids, unregister_connection(id), UNCHANGED <<next_pipe_id, style, got>>
    PROVE  Kept'
<1> USE DEF IInv
<1> DEFINE S == {man[id]} \ {NoConn}
<1>1. S \in SUBSET Conns
  BY DEF TypeOK
<1>2. man' = [i \in Ids |-> IF man[i] \in S THEN NoConn ELSE man[i]]
  <2>1. man' = [man EXCEPT ![id] = NoConn]
    BY DEF unregister_connection
  <2>2. \A i \in Ids : man[i] \in S => i = id
    BY DEF ListedIffManaged
  <2>3. \A i \in Ids : man'[i] = IF man[i] \in S THEN NoConn ELSE man[i]
    BY <2>1, <2>2 DEF TypeOK
  <2>4. QED
    BY <2>1, <2>3 DEF TypeOK
<1>3. Delete(S) /\ next_pipe_id' \in Ids
  BY DEF unregister_connection, TypeOK
<1>4. QED
  BY <1>1, <1>2, <1>3, Deleting

LEMMA Releasing ==
    ASSUME IInv, NEW c \in Conns, release_self(c), UNCHANGED <<next_pipe_id, style, got>>
    PROVE  Kept'
<1>1. CASE managed[c]
  <2>1. pipe_id[c] \in Ids /\ unregister_connection(pipe_id[c])
    BY <1>1 DEF release_self, IInv, TypeOK
  <2>2. QED
    BY <2>1, Unregistering
<1>2. CASE ~managed[c]
  <2>1. Delete({c}) /\ man' = man
    BY <1>2 DEF release_self
  <2>2. man' = [id \in Ids |-> IF man[id] \in {c} THEN NoConn ELSE man[id]]
    BY <1>2, <2>1, NotListed DEF IInv, TypeOK
  <2>3. next_pipe_id' \in Ids
    BY DEF IInv, TypeOK
  <2>4. QED
    BY <2>1, <2>2, <2>3, Deleting
<1>3. QED
  BY <1>1, <1>2

-----------------------------------------------------------------------------
(* Steps that leave the map and what is managed alone.                     *)
LEMMA Unlisted ==
    ASSUME IInv, UNCHANGED <<man, next_pipe_id, managed, pipe_id, style>>,
           \A c \in Conns : life[c] # "none" => life'[c] # "none",
           \A c \in Conns : life'[c] = "connecting" /\ style = "connected" => ~managed[c]
    PROVE  ManTyped' /\ ListedIffManaged' /\ NotYetManaged'
<1>1. ManTyped'
  BY DEF IInv, TypeOK, ManTyped
<1>2. ListedIffManaged'
  BY DEF IInv, TypeOK, ListedIffManaged
<1>3. NotYetManaged'
  BY DEF NotYetManaged
<1>4. QED
  BY <1>1, <1>2, <1>3

LEMMA MakingBackend ==
    ASSUME IInv, NEW c \in Conns, MakesBackend(c)
    PROVE  Kept'
<1>1. ~managed[c] /\ life[c] = "none"
  BY NoneIsNotManaged DEF MakesBackend
<1>2. UNCHANGED <<style, got>>
  BY DEF MakesBackend, envVars
<1>3. CASE style = "constructor"
  <2>1. register_connection(c, "connecting")
    BY <1>3 DEF MakesBackend
  <2>2. QED
    BY <1>1, <1>2, <1>3, <2>1, Registering
<1>4. CASE style # "constructor"
  <2>1. /\ life' = [life EXCEPT ![c] = "connecting"]
        /\ UNCHANGED <<man, next_pipe_id, managed, pipe_id, pipe_line, pending_tokens, alive, asker>>
    BY <1>4 DEF MakesBackend, manVars
  <2>2. ManTyped' /\ ListedIffManaged' /\ NotYetManaged'
    BY <1>1, <1>2, <2>1, Unlisted DEF IInv, NotYetManaged, TypeOK
  <2>3. PipesTyped'
    BY <2>1 DEF PipesTyped, IInv, TypeOK
  <2>4. PendingOfAsker' /\ AnswerOnceToAsker'
    BY <1>2, <2>1 DEF IInv, PendingOfAsker, AnswerOnceToAsker
  <2>5. QED
    BY <2>2, <2>3, <2>4 DEF Kept
<1>5. QED
  BY <1>3, <1>4

LEMMA Connecting ==
    ASSUME IInv, NEW c \in Conns, Connected(c)
    PROVE  Kept'
<1>1. UNCHANGED <<style, got>> /\ life[c] = "connecting"
  BY DEF Connected, envVars
<1>2. CASE style = "connected" /\ register_connection(c, "open")
  <2>1. ~managed[c]
    BY <1>1, <1>2 DEF IInv, NotYetManaged
  <2>2. QED
    BY <1>1, <1>2, <2>1, Registering
<1>3. CASE ~(style = "connected" /\ register_connection(c, "open"))
  <2>1. /\ life' = [life EXCEPT ![c] = "open"]
        /\ UNCHANGED <<man, next_pipe_id, managed, pipe_id, pipe_line, pending_tokens, alive, asker>>
    BY <1>3 DEF Connected, manVars
  <2>2. ManTyped' /\ ListedIffManaged' /\ NotYetManaged'
    BY <1>1, <2>1, Unlisted DEF IInv, NotYetManaged, TypeOK
  <2>3. PipesTyped'
    BY <2>1 DEF PipesTyped, IInv, TypeOK
  <2>4. PendingOfAsker' /\ AnswerOnceToAsker'
    BY <1>1, <2>1 DEF IInv, PendingOfAsker, AnswerOnceToAsker
  <2>5. QED
    BY <2>2, <2>3, <2>4 DEF Kept
<1>4. QED
  BY <1>2, <1>3

(* The heartbeat: every pipe it drops is listed under the id it has.       *)
LEMMA HeartBeating ==
    ASSUME IInv, timer_cb
    PROVE  Kept'
<1> DEFINE D == {pipe_id[man[id]] : id \in DeadIds}
           S == {man[id] : id \in D} \ {NoConn}
<1>1. man' = [id \in Ids |-> IF id \in D THEN NoConn ELSE man[id]] /\ Delete(S)
  BY DEF timer_cb
<1>2. D = DeadIds /\ DeadIds \subseteq Ids /\ \A id \in DeadIds : man[id] # NoConn
  BY DEF IInv, ListedIffManaged, DeadIds
<1>3. S \in SUBSET Conns
  BY <1>2 DEF IInv, TypeOK
<1>4. \A id \in Ids : id \in D <=> man[id] \in S
  <2>1. ASSUME NEW id \in Ids, man[id] \in S PROVE id \in D
    <3>1. PICK i \in D : man[i] = man[id]
      BY <2>1
    <3>2. i = id
      BY <1>2, <3>1 DEF IInv, ListedIffManaged
    <3>3. QED
      BY <3>1, <3>2
  <2>2. ASSUME NEW id \in Ids, id \in D PROVE man[id] \in S
    BY <1>2, <2>2
  <2>3. QED
    BY <2>1, <2>2
<1>5. man' = [id \in Ids |-> IF man[id] \in S THEN NoConn ELSE man[id]]
  BY <1>1, <1>4
<1>6. next_pipe_id' \in Ids /\ UNCHANGED <<style, got>>
  BY DEF timer_cb, envVars, IInv, TypeOK
<1>7. QED
  BY <1>1, <1>3, <1>5, <1>6, Deleting

(* A new token is nobody's yet.                                            *)
LEMMA Asking ==
    ASSUME IInv, NEW a \in Clients, NEW t \in Tokens, RelayQuery(a, t)
    PROVE  Kept' /\ got' \in [Tokens -> {"unasked", "asked", "answered", "astray"}]
<1> USE DEF IInv
<1>1. /\ a \in Conns /\ got[t] = "unasked"
      /\ pipe_line' = [pipe_line EXCEPT ![FirstBackend][t] = pipe_id[a]]
      /\ pending_tokens' = [pending_tokens EXCEPT ![a] = @ \cup {t}]
      /\ asker' = [asker EXCEPT ![t] = a] /\ got' = [got EXCEPT ![t] = "asked"]
      /\ UNCHANGED <<man, next_pipe_id, life, managed, pipe_id, alive, style>>
  BY DEF RelayQuery, Conns, manVars, envVars
<1>2. ManTyped' /\ ListedIffManaged' /\ NotYetManaged'
  BY <1>1, Unlisted DEF NotYetManaged
<1>3. PipesTyped'
  <2>1. pipe_line' \in [Conns -> [Tokens -> Ids \cup {NoId}]]
    BY <1>1 DEF TypeOK
  <2>2. pending_tokens' \in [Conns -> SUBSET Tokens] /\ asker' \in [Tokens -> Conns \cup {NoConn}]
    BY <1>1 DEF TypeOK
  <2>3. managed' \in [Conns -> BOOLEAN] /\ alive' \in [Conns -> BOOLEAN]
    BY <1>1 DEF TypeOK
  <2>4. QED
    BY <1>1, <2>1, <2>2, <2>3 DEF PipesTyped, TypeOK
<1>4. PendingOfAsker'
  <2> SUFFICES ASSUME NEW c \in Conns, NEW u \in Tokens, u \in pending_tokens'[c]
               PROVE  asker'[u] = c /\ got'[u] = "asked"
    BY DEF PendingOfAsker
  <2>1. u = t => c = a
    BY <1>1 DEF PendingOfAsker, TypeOK
  <2>2. CASE u = t
    BY <1>1, <2>1, <2>2 DEF TypeOK
  <2>3. CASE u # t
    <3>1. u \in pending_tokens[c]
      BY <1>1, <2>3 DEF TypeOK
    <3>2. QED
      BY <1>1, <2>3, <3>1 DEF PendingOfAsker, TypeOK
  <2>4. QED
    BY <2>2, <2>3
<1>5. AnswerOnceToAsker' /\ got' \in [Tokens -> {"unasked", "asked", "answered", "astray"}]
  BY <1>1 DEF AnswerOnceToAsker, TypeOK
<1>6. QED
  BY <1>2, <1>3, <1>4, <1>5 DEF Kept

(* Whoever the id belongs to by now, only the asker waits for the token.   *)
LEMMA Answering ==
    ASSUME IInv, NEW b \in Backends, NEW t \in Tokens, RelayAnswer(b, t)
    PROVE  Kept' /\ got' \in [Tokens -> {"unasked", "asked", "answered", "astray"}]
<1> USE DEF IInv
<1>1. /\ pipe_line' = [pipe_line EXCEPT ![b][t] = NoId]
      /\ UNCHANGED <<man, next_pipe_id, life, managed, pipe_id, alive, style, asker>>
  BY DEF RelayAnswer, manVars, envVars
<1>2. ManTyped' /\ ListedIffManaged' /\ NotYetManaged'
  BY <1>1, Unlisted DEF NotYetManaged
<1>3. /\ pipe_line' \in [Conns -> [Tokens -> Ids \cup {NoId}]]
      /\ managed' \in [Conns -> BOOLEAN] /\ alive' \in [Conns -> BOOLEAN]
  BY <1>1 DEF TypeOK
<1>4. CASE UNCHANGED <<pending_tokens, got>>
  <2>1. PipesTyped'
    BY <1>1, <1>3, <1>4 DEF PipesTyped, TypeOK
  <2>2. PendingOfAsker' /\ AnswerOnceToAsker'
    BY <1>1, <1>4 DEF PendingOfAsker, AnswerOnceToAsker
  <2>3. QED
    BY <1>2, <1>4, <2>1, <2>2 DEF Kept, TypeOK
<1>5. ASSUME NEW a \in Waiting(pipe_line[b][t], t),
             pending_tokens' = [pending_tokens EXCEPT ![a] = @ \ {t}],
             got' = [got EXCEPT ![t] =
                IF @ = "asked" /\ asker[t] = a THEN "answered" ELSE "astray"]
      PROVE  Kept' /\ got' \in [Tokens -> {"unasked", "asked", "answered", "astray"}]
  <2>1. a \in Conns /\ t \in pending_tokens[a]
    BY DEF Waiting, get_item
  <2>2. asker[t] = a /\ got[t] = "asked"
    BY <2>1 DEF PendingOfAsker
  <2>3. got' = [got EXCEPT ![t] = "answered"]
    BY <1>5, <2>2 DEF TypeOK
  <2>4. PipesTyped'
    <3>1. pending_tokens' \in [Conns -> SUBSET Tokens]
      BY <1>5, <2>1 DEF TypeOK
    <3>2. QED
      BY <1>1, <1>3, <3>1 DEF PipesTyped, TypeOK
  <2>5. PendingOfAsker'
    <3> SUFFICES ASSUME NEW c \in Conns, NEW u \in Tokens, u \in pending_tokens'[c]
                 PROVE  asker'[u] = c /\ got'[u] = "asked"
      BY DEF PendingOfAsker
    <3>1. u \in pending_tokens[c] /\ ~(c = a /\ u = t)
      BY <1>5, <2>1 DEF TypeOK
    <3>2. asker[u] = c /\ got[u] = "asked" /\ u # t
      BY <2>2, <3>1 DEF PendingOfAsker
    <3>3. QED
      BY <1>1, <2>3, <3>2 DEF TypeOK
  <2>6. AnswerOnceToAsker' /\ got' \in [Tokens -> {"unasked", "asked", "answered", "astray"}]
    BY <2>3 DEF AnswerOnceToAsker, TypeOK
  <2>7. QED
    BY <1>2, <2>4, <2>5, <2>6 DEF Kept
<1>6. QED
  BY <1>4, <1>5 DEF RelayAnswer

(* The manager's destructor deletes what it lists and nothing else.        *)
LEMMA Destroying ==
    ASSUME IInv, DestroyMan
    PROVE  Kept'
<1> DEFINE S == {man[id] : id \in Ids} \ {NoConn}
<1>1. S \in SUBSET Conns
  BY DEF IInv, TypeOK
<1>2. man' = [id \in Ids |-> IF man[id] \in S THEN NoConn ELSE man[id]]
  BY DEF DestroyMan, IInv, TypeOK
<1>3. Delete(S) /\ next_pipe_id' \in Ids /\ UNCHANGED <<style, got>>
  BY DEF DestroyMan, IInv, TypeOK
<1>4. QED
  BY <1>1, <1>2, <1>3, Deleting

LEMMA SilentOrEnvironment ==
    ASSUME IInv, UNCHANGED <<man, next_pipe_id, life, managed, pipe_id, pipe_line,
                             pending_tokens, style, asker, got>>,
           alive' \in [Conns -> BOOLEAN]
    PROVE  Kept'
<1>1. ManTyped' /\ ListedIffManaged' /\ NotYetManaged'
  BY Unlisted DEF IInv, NotYetManaged
<1>2. managed' \in [Conns -> BOOLEAN]
  BY DEF IInv, TypeOK
<1>3. PipesTyped'
  BY <1>2 DEF PipesTyped, IInv, TypeOK
<1>4. PendingOfAsker' /\ AnswerOnceToAsker'
  BY DEF IInv, PendingOfAsker, AnswerOnceToAsker
<1>5. QED
  BY <1>1, <1>3, <1>4 DEF Kept

-----------------------------------------------------------------------------
LEMMA InitGood == Init => IInv
<1> SUFFICES ASSUME Init PROVE IInv
  OBVIOUS
<1>1. TypeOK
  BY ZeroIsId, ManagerAssumption DEF Init, TypeOK
<1>2. ListedIffManaged /\ NotYetManaged
  BY DEF Init, ListedIffManaged, NotYetManaged
<1>3. PendingOfAsker /\ AnswerOnceToAsker
  BY DEF Init, PendingOfAsker, AnswerOnceToAsker
<1>4. QED
  BY <1>1, <1>2, <1>3 DEF IInv

GotTyped == got \in [Tokens -> {"unasked", "asked", "answered", "astray"}]
RestTyped ==
    /\ loop \in {"running", "ended", "gone"} /\ style \in {"constructor", "connected"}
    /\ peerUp \in BOOLEAN /\ accepts \in 0 .. MaxAccepts

LEMMA PartsMakeIInv ==
    ASSUME Kept', RestTyped', GotTyped'
    PROVE  IInv'
  BY DEF Kept, IInv, TypeOK, ManTyped, PipesTyped, RestTyped, GotTyped

LEMMA Stepping ==
    ASSUME IInv, [Next]_vars
    PROVE  IInv'
<1>1. RestTyped /\ GotTyped /\ alive \in [Conns -> BOOLEAN]
  BY DEF IInv, TypeOK, RestTyped, GotTyped
<1>2. CASE UNCHANGED vars
  <2>1. Kept'
    BY <1>1, <1>2, SilentOrEnvironment DEF vars, manVars, pipeVars, envVars
  <2>2. RestTyped' /\ GotTyped'
    BY <1>1, <1>2 DEF vars, envVars, RestTyped, GotTyped
  <2>3. QED
    BY <2>1, <2>2, PartsMakeIInv
<1>3. ASSUME NEW c \in Clients, listener_cb(c)
      PROVE  Kept' /\ RestTyped' /\ GotTyped'
  <2>1. c \in Conns /\ life[c] = "none" /\ register_connection(c, "open") /\ UNCHANGED <<style, got>>
    BY <1>3 DEF listener_cb, Conns
  <2>2. Kept'
    BY <2>1, NoneIsNotManaged, Registering
  <2>3. accepts' \in 0 .. MaxAccepts
    BY <1>1, <1>3, ManagerAssumption DEF listener_cb, RestTyped
  <2>4. QED
    BY <1>1, <1>3, <2>2, <2>3 DEF listener_cb, RestTyped, GotTyped
<1>4. ASSUME NEW c \in Backends, GuardTick(c) \/ Connected(c)
      PROVE  Kept' /\ RestTyped' /\ GotTyped'
  <2>1. c \in Conns
    BY DEF Conns
  <2>2. Kept'
    BY <1>4, <2>1, MakingBackend, Connecting DEF GuardTick
  <2>3. UNCHANGED <<envVars, got>>
    BY <1>4 DEF GuardTick, MakesBackend, Connected
  <2>4. QED
    BY <1>1, <2>2, <2>3 DEF envVars, RestTyped, GotTyped
<1>5. ASSUME NEW c \in Conns, on_conn_event(c)
      PROVE  Kept' /\ RestTyped' /\ GotTyped'
  <2>1. release_self(c) /\ UNCHANGED <<next_pipe_id, style, got>> /\ UNCHANGED envVars
    BY <1>5 DEF on_conn_event, envVars
  <2>2. Kept'
    BY <2>1, Releasing
  <2>3. QED
    BY <1>1, <2>1, <2>2 DEF envVars, RestTyped, GotTyped
<1>6. ASSUME NEW c \in Conns, FallsSilent(c)
      PROVE  Kept' /\ RestTyped' /\ GotTyped'
  <2>1. alive' \in [Conns -> BOOLEAN]
    BY <1>1, <1>6 DEF FallsSilent
  <2>2. Kept'
    BY <1>6, <2>1, SilentOrEnvironment DEF FallsSilent, manVars, envVars
  <2>3. QED
    BY <1>1, <1>6, <2>2 DEF FallsSilent, envVars, RestTyped, GotTyped
<1>7. CASE timer_cb
  <2>1. Kept'
    BY <1>7, HeartBeating
  <2>2. UNCHANGED <<envVars, got>>
    BY <1>7 DEF timer_cb
  <2>3. RestTyped' /\ GotTyped'
    BY <1>1, <2>2 DEF envVars, RestTyped, GotTyped
  <2>4. QED
    BY <2>1, <2>3, PartsMakeIInv
<1>8. ASSUME NEW a \in Clients, NEW t \in Tokens, RelayQuery(a, t)
      PROVE  Kept' /\ RestTyped' /\ GotTyped'
  <2>1. Kept' /\ GotTyped'
    BY <1>8, Asking DEF GotTyped
  <2>2. QED
    BY <1>1, <1>8, <2>1 DEF RelayQuery, envVars, RestTyped
<1>9. ASSUME NEW b \in Backends, NEW t \in Tokens, RelayAnswer(b, t)
      PROVE  Kept' /\ RestTyped' /\ GotTyped'
  <2>1. Kept' /\ GotTyped'
    BY <1>9, Answering DEF GotTyped
  <2>2. QED
    BY <1>1, <1>9, <2>1 DEF RelayAnswer, envVars, RestTyped
<1>10. CASE PeerTurns \/ LoopEnds
  <2>1. UNCHANGED <<manVars, pipeVars, style, accepts, asker, got>>
    BY <1>10 DEF PeerTurns, LoopEnds
  <2>2. Kept'
    BY <1>1, <2>1, SilentOrEnvironment DEF manVars, pipeVars
  <2>3. loop' \in {"running", "ended", "gone"}
    BY <1>1, <1>10 DEF PeerTurns, LoopEnds, RestTyped
  <2>4. peerUp' \in BOOLEAN
    BY <1>1, <1>10 DEF PeerTurns, LoopEnds, RestTyped
  <2>5. style' = style /\ accepts' = accepts /\ got' = got
    BY <2>1
  <2>6. GotTyped'
    BY <1>1, <2>5 DEF GotTyped
  <2>7. RestTyped'
    BY <1>1, <2>3, <2>4, <2>5 DEF RestTyped
  <2>8. QED
    BY <2>2, <2>6, <2>7, PartsMakeIInv
<1>11. CASE DestroyMan
  <2>1. Kept'
    BY <1>11, Destroying
  <2>2. loop' = "gone" /\ UNCHANGED <<style, peerUp, accepts, got>>
    BY <1>11 DEF DestroyMan
  <2>3. RestTyped' /\ GotTyped'
    BY <1>1, <2>2 DEF RestTyped, GotTyped
  <2>4. QED
    BY <2>1, <2>3, PartsMakeIInv
<1>12. QED
  BY <1>2, <1>3, <1>4, <1>5, <1>6, <1>7, <1>8, <1>9, <1>10, <1>11, PartsMakeIInv DEF Next

LEMMA Inductive == Spec => []IInv
  BY InitGood, Stepping, PTL DEF Spec

(* TypeOK: no pipe has an id that is none, nor the map a pipe that is none. *)
THEOREM TypeCorrect == Spec => []TypeOK
<1>1. IInv => TypeOK
  BY DEF IInv
<1>2. QED
  BY Inductive, <1>1, PTL

(* ListedIffManaged: map and objects agree whatever ends a connection and  *)
(* however often ids wrap.  So nothing is deleted twice or by another's id. *)
THEOREM MapIsExact == Spec => []ListedIffManaged
<1>1. IInv => ListedIffManaged
  BY DEF IInv
<1>2. QED
  BY Inductive, <1>1, PTL

(* AnswerOnceToAsker: stale ids in relay tables never misdeliver, because  *)
(* the object that is found must itself wait for the token.                *)
THEOREM NoAnswerAstray == Spec => []AnswerOnceToAsker
<1>1. IInv => AnswerOnceToAsker
  BY DEF IInv
<1>2. QED
  BY Inductive, <1>1, PTL

-----------------------------------------------------------------------------
(* Steps other than the guard's list no further backend.                   *)
LEMMA BackendsListed ==
    ASSUME IInv, [Next]_vars, style = "constructor"
    PROVE  /\ style' = style
           /\ \/ \A id \in Ids : man'[id] \in Backends => man[id] = man'[id]
              \/ /\ BackendIds = {}
                 /\ \A id \in Ids : man'[id] \in Backends => id = next_pipe_id
<1> DEFINE NoMore == \A id \in Ids : man'[id] \in Backends => man[id] = man'[id]
           First == BackendIds = {} /\ \A id \in Ids : man'[id] \in Backends => id = next_pipe_id
<1>1. man \in [Ids -> Conns \cup {NoConn}] /\ NoConn \notin Backends /\ Clients \cap Backends = {}
  BY ManagerAssumption DEF IInv, TypeOK, Conns
<1>2. ASSUME NEW c \in Conns, NEW at, register_connection(c, at)
      PROVE  \/ man' = man
             \/ man' = [man EXCEPT ![next_pipe_id] = c]
  BY <1>2 DEF register_connection
<1>3. ASSUME NEW c \in Clients, listener_cb(c)
      PROVE  style' = style /\ NoMore
  <2>1. c \in Conns /\ c \notin Backends /\ register_connection(c, "open") /\ style' = style
    BY <1>1, <1>3 DEF listener_cb, Conns
  <2>2. QED
    BY <1>1, <1>2, <2>1
<1>4. ASSUME NEW c \in Backends, GuardTick(c)
      PROVE  style' = style /\ First
  <2>1. c \in Conns /\ BackendIds = {} /\ register_connection(c, "connecting") /\ style' = style
    BY <1>4 DEF GuardTick, MakesBackend, Conns, envVars
  <2>2. \A id \in Ids : man[id] \notin Backends
    BY <2>1 DEF BackendIds
  <2>3. QED
    BY <1>1, <1>2, <2>1, <2>2
<1>5. ASSUME NEW c \in Backends, Connected(c)
      PROVE  style' = style /\ NoMore
  <2>1. man' = man /\ style' = style
    BY <1>5 DEF Connected, manVars, envVars
  <2>2. QED
    BY <2>1
<1>6. ASSUME NEW c \in Conns, on_conn_event(c)
      PROVE  style' = style /\ NoMore
  <2>1. man' = man \/ man' = [man EXCEPT ![pipe_id[c]] = NoConn]
    BY <1>6 DEF on_conn_event, release_self, unregister_connection
  <2>2. style' = style
    BY <1>6 DEF on_conn_event, envVars
  <2>3. QED
    BY <1>1, <2>1, <2>2
<1>7. CASE timer_cb
  <2>1. \A id \in Ids : man'[id] = man[id] \/ man'[id] = NoConn
    BY <1>7 DEF timer_cb
  <2>2. style' = style
    BY <1>7 DEF timer_cb, envVars
  <2>3. QED
    BY <1>1, <2>1, <2>2
<1>8. CASE DestroyMan
  <2>1. style' = style /\ \A id \in Ids : man'[id] = NoConn
    BY <1>8 DEF DestroyMan
  <2>2. QED
    BY <1>1, <2>1
<1>9. CASE \/ \E c \in Conns : FallsSilent(c)
           \/ \E a \in Clients, t \in Tokens : RelayQuery(a, t)
           \/ \E b \in Backends, t \in Tokens : RelayAnswer(b, t)
           \/ PeerTurns \/ LoopEnds \/ UNCHANGED vars
  <2>1. man' = man /\ style' = style
    BY <1>9 DEF FallsSilent, RelayQuery, RelayAnswer, PeerTurns, LoopEnds, vars, manVars, envVars
  <2>2. QED
    BY <2>1
<1>10. QED
  BY <1>3, <1>4, <1>5, <1>6, <1>7, <1>8, <1>9 DEF Next

(* OneGuarded: a guard whose connections register in their constructor     *)
(* never has two of them registered.                                       *)
THEOREM OneBackend == Spec => []OneGuarded
<1>1. Init => OneGuarded
  BY ManagerAssumption DEF Init, OneGuarded, BackendIds, Conns
<1>2. IInv /\ OneGuarded /\ [Next]_vars => OneGuarded'
  <2> SUFFICES ASSUME IInv, OneGuarded, [Next]_vars, style' = "constructor",
                      NEW i \in BackendIds', NEW j \in BackendIds'
               PROVE  i = j
    BY DEF OneGuarded
  <2>1. style = "constructor"
    BY DEF Next, listener_cb, GuardTick, MakesBackend, Connected, on_conn_event, timer_cb,
           FallsSilent, RelayQuery, RelayAnswer, PeerTurns, LoopEnds, DestroyMan, vars, envVars
  <2>2. i \in Ids /\ man'[i] \in Backends /\ j \in Ids /\ man'[j] \in Backends
    BY DEF BackendIds
  <2>3. QED
    BY <2>1, <2>2, BackendsListed DEF OneGuarded, BackendIds
<1>3. QED
  BY Inductive, <1>1, <1>2, PTL DEF Spec
-----------------------------------------------------------------------------
(* A step that deletes the objects in S ends nobody else.                  *)
LEMMA DeletedAre ==
    ASSUME NEW S, Delete(S), NEW d \in Conns, managed[d], ~managed'[d]
    PROVE  d \in S
  BY DEF Delete

(* A registration ends nobody that is managed, refused or not.             *)
LEMMA RegisteringEndsNobody ==
    ASSUME IInv, NEW c \in Conns, ~managed[c], NEW at, register_connection(c, at),
           NEW d \in Conns, managed[d]
    PROVE  managed'[d]
<1>1. CASE man[next_pipe_id] = NoConn
  <2>1. managed' = [managed EXCEPT ![c] = TRUE]
    BY <1>1 DEF register_connection
  <2>2. QED
    BY <2>1 DEF IInv, TypeOK
<1>2. CASE man[next_pipe_id] # NoConn
  <2>1. Delete({c}) /\ c # d
    BY <1>2 DEF register_connection
  <2>2. QED
    BY <2>1 DEF Delete
<1>3. QED
  BY <1>1, <1>2

(* The end of c deletes what is listed under its id, which is c.           *)
LEMMA ReleasingEndsItself ==
    ASSUME IInv, NEW c \in Conns, release_self(c), NEW d \in Conns, managed[d], ~managed'[d]
    PROVE  d = c
<1>1. CASE managed[c]
  <2>1. Delete({man[pipe_id[c]]} \ {NoConn}) /\ man[pipe_id[c]] = c
    BY <1>1 DEF release_self, unregister_connection, IInv, ListedIffManaged
  <2>2. QED
    BY <2>1, DeletedAre
<1>2. CASE ~managed[c]
  BY <1>2, DeletedAre DEF release_self
<1>3. QED
  BY <1>1, <1>2

(* What the heartbeat deletes is listed under a dead id, its own.          *)
LEMMA HeartbeatEndsSilent ==
    ASSUME IInv, timer_cb, NEW d \in Conns, managed[d], ~managed'[d]
    PROVE  ~alive[d]
<1>1. d \in {man[id] : id \in {pipe_id[man[i]] : i \in DeadIds}} \ {NoConn}
  BY DeletedAre DEF timer_cb
<1>2. PICK i \in DeadIds : d = man[pipe_id[man[i]]]
  BY <1>1
<1>3. i \in Ids /\ man[i] # NoConn /\ ~alive[man[i]]
  BY DEF DeadIds
<1>4. pipe_id[man[i]] = i
  BY <1>3 DEF IInv, ListedIffManaged
<1>5. QED
  BY <1>2, <1>3, <1>4

(* EndsAlone: whatever else ends, is refused or is found dead, a           *)
(* registered connection goes on.                                          *)
THEOREM NobodyEndsAnother == Spec => EndsAlone
<1>1. ASSUME IInv, [Next]_vars
      PROVE  [\A c \in Conns : managed[c] /\ ~managed'[c] =>
                on_conn_event(c) \/ (timer_cb /\ ~alive[c]) \/ DestroyMan]_vars
  <2> SUFFICES ASSUME Next, NEW d \in Conns, managed[d], ~managed'[d]
               PROVE  on_conn_event(d) \/ (timer_cb /\ ~alive[d]) \/ DestroyMan
    BY <1>1
  <2>1. ASSUME NEW c \in Clients, listener_cb(c) PROVE FALSE
    <3>1. c \in Conns /\ register_connection(c, "open") /\ ~managed[c]
      BY <1>1, <2>1, NoneIsNotManaged DEF listener_cb, Conns
    <3>2. QED
      BY <1>1, <3>1, RegisteringEndsNobody
  <2>2. ASSUME NEW c \in Backends, GuardTick(c) PROVE FALSE
    <3>1. c \in Conns /\ ~managed[c]
      BY <1>1, <2>2, NoneIsNotManaged DEF GuardTick, MakesBackend, Conns
    <3>2. register_connection(c, "connecting") \/ managed' = managed
      BY <2>2 DEF GuardTick, MakesBackend
    <3>3. QED
      BY <1>1, <3>1, <3>2, RegisteringEndsNobody
  <2>3. ASSUME NEW c \in Backends, Connected(c) PROVE FALSE
    <3>1. CASE managed' = managed
      BY <3>1
    <3>2. CASE style = "connected" /\ register_connection(c, "open")
      <4>1. c \in Conns /\ ~managed[c]
        BY <1>1, <2>3, <3>2 DEF Connected, Conns, IInv, NotYetManaged
      <4>2. QED
        BY <1>1, <3>2, <4>1, RegisteringEndsNobody
    <3>3. QED
      BY <2>3, <3>1, <3>2 DEF Connected
  <2>4. ASSUME NEW c \in Conns, on_conn_event(c) PROVE on_conn_event(d)
    BY <1>1, <2>4, ReleasingEndsItself DEF on_conn_event
  <2>5. ASSUME timer_cb PROVE ~alive[d]
    BY <1>1, <2>5, HeartbeatEndsSilent
  <2>6. CASE \/ \E c \in Conns : FallsSilent(c)
             \/ \E a \in Clients, t \in Tokens : RelayQuery(a, t)
             \/ \E b \in Backends, t \in Tokens : RelayAnswer(b, t)
             \/ PeerTurns \/ LoopEnds
    BY <2>6 DEF FallsSilent, RelayQuery, RelayAnswer, PeerTurns, LoopEnds, pipeVars
  <2>7. QED
    BY <2>1, <2>2, <2>3, <2>4, <2>5, <2>6 DEF Next
<1>2. QED
  BY Inductive, <1>1, PTL DEF Spec, EndsAlone
=============================================================================
