-------------------------------- MODULE Server --------------------------------
(* TcpServer, TcpAcceptor, TcpTimeWheel and the life of a server's           *)
(* TcpConnections (net/tcp). The acceptor, the wheel and the timer that      *)
(* frees closed connections run on processor 0; the coroutine of each        *)
(* connection runs on another thread, on a raw pointer to the connection.    *)
(* The kernel gives a new connection the lowest free descriptor.             *)
EXTENDS Integers, Sequences, FiniteSets

CONSTANTS Conns,        \* the connections that are ever asked for
          MaxFd,        \* descriptors are 1..MaxFd
          N,            \* m_bucket_count of the wheel
          MaxData,      \* how often a peer sends
          None

ASSUME NAssumption == N \in Nat \ {0, 1}
ASSUME MaxFdAssumption == MaxFd \in Nat \ {0}
ASSUME NoneAssumption == None \notin Conns

VARIABLES socket,       \* descriptor -> the connection behind it
          m_fd,         \* connection -> its descriptor, 0 before accept()
          peer,         \* its peer: "waiting" to be accepted, "open" or "closed"
          data,         \* how much of what the peer sent is unread
          left,         \* how often the peer will send yet
          shut,         \* shutdown() has been called on its socket
          m_clients,    \* descriptor -> the connection the server owns for it
          m_state,      \* connection -> "none", "Connected", "HalfClosing", "Closed"
          m_stop,
          co,           \* where its coroutine is
          quiet,        \* turns of the wheel since its last activity, up to 2;
                        \* 1 before it, when m_last_active_time is not set
          m_wheel,      \* bucket -> the connections whose slots are in it
          m_cur_bucket,
          pending,      \* the coroutines of processor 0 that will fresh() a slot
          expired,      \* connections whose slot is gone, to be shut down
          found,        \* the one whose state has been found to be open
          age,          \* turns of the wheel since its last fresh(), up to N
          freed,        \* connections that have been deleted
          undefined     \* a deleted one was used: anything may follow

netVars == <<socket, m_fd, peer, data, left, shut>>
connVars == <<m_state, m_stop, co, quiet>>
wheelVars == <<m_wheel, m_cur_bucket, pending, age>>
shutVars == <<expired, found>>
ownVars == <<m_clients, freed, undefined>>
vars == <<netVars, connVars, wheelVars, shutVars, ownVars>>

Fds == 1..MaxFd
Buckets == 0..N - 1
Free == {f \in Fds : socket[f] = None}
Lowest == CHOOSE f \in Free : \A g \in Free : f <= g

Init == /\ socket = [f \in Fds |-> None]
        /\ m_fd = [c \in Conns |-> 0]
        /\ peer = [c \in Conns |-> "waiting"]
        /\ data = [c \in Conns |-> 0]
        /\ left = [c \in Conns |-> MaxData]
        /\ shut = [c \in Conns |-> FALSE]
        /\ m_clients = [f \in Fds |-> None]
        /\ m_state = [c \in Conns |-> "none"]
        /\ m_stop = [c \in Conns |-> FALSE]
        /\ co = [c \in Conns |-> "none"]
        /\ quiet = [c \in Conns |-> 0]
        /\ m_wheel = [b \in Buckets |-> {}]
        /\ m_cur_bucket = 0
        /\ pending = <<>>
        /\ expired = {}
        /\ found = None
        /\ age = [c \in Conns |-> 0]
        /\ freed = {}
        /\ undefined = FALSE

-----------------------------------------------------------------------------
(* The peers. *)

Sends(c) == /\ peer[c] = "open" /\ left[c] > 0
            /\ data' = [data EXCEPT ![c] = @ + 1]
            /\ left' = [left EXCEPT ![c] = @ - 1]
            /\ UNCHANGED <<socket, m_fd, peer, shut, connVars, wheelVars, shutVars, ownVars>>

Closes(c) == /\ peer[c] = "open"
             /\ peer' = [peer EXCEPT ![c] = "closed"]
             /\ UNCHANGED <<socket, m_fd, data, left, shut, connVars, wheelVars, shutVars, ownVars>>

-----------------------------------------------------------------------------
(* Processor 0. *)

Idle0 == expired = {} /\ found = None

Replaced(f) == {m_clients[f]} \ {None}

\* For mutants: a connection enters the wheel with its first data only.
RegisteredNot(c) == pending

freshTcpConnection(c) == Append(pending, c)

\* registerToTimeWheel()
Registered(c) == freshTcpConnection(c)

\* toAccept() and NetSocket::accept(), which wait for a connection.
Acceptable(c) == peer[c] = "waiting" /\ Free # {}

\* MainAcceptCorFunc(), addClient(), initServer(): the connection takes the
\* place of one that had the descriptor before.
Accept(c) ==
  /\ Idle0
  /\ Acceptable(c)
  /\ peer' = [peer EXCEPT ![c] = "open"]
  /\ socket' = [socket EXCEPT ![Lowest] = c]
  /\ m_fd' = [m_fd EXCEPT ![c] = Lowest]
  /\ freed' = freed \cup Replaced(Lowest)
  /\ m_clients' = [m_clients EXCEPT ![Lowest] = c]
  /\ m_state' = [m_state EXCEPT ![c] = "Connected"]
  /\ co' = [co EXCEPT ![c] = "input"]
  /\ pending' = Registered(c)
  /\ quiet' = [quiet EXCEPT ![c] = 1]
  /\ UNCHANGED <<data, left, shut, m_stop, m_wheel, m_cur_bucket, age, shutVars, undefined>>

\* For mutants: the bucket that is cleared next.
FreshIndexNext == m_cur_bucket

FreshIndex == (m_cur_bucket - 1 + N) % N

\* A coroutine of freshTcpConnection().
Fresh == /\ Idle0
         /\ pending # <<>>
         /\ m_wheel' = [m_wheel EXCEPT ![FreshIndex] = @ \cup {Head(pending)}]
         /\ age' = [age EXCEPT ![Head(pending)] = 0]
         /\ pending' = Tail(pending)
         /\ UNCHANGED <<netVars, connVars, m_cur_bucket, shutVars, ownVars>>

\* Whether the slot of c is held elsewhere than in bucket b.
Held(c, b) == \/ \E d \in Buckets \ {b} : c \in m_wheel[d]
              \/ \E i \in DOMAIN pending : pending[i] = c

\* For mutants: the wheel does not wrap.
NextBucketOn == m_cur_bucket + 1

NextBucket == (m_cur_bucket + 1) % N

Lives(c) == co[c] \notin {"none", "ended"}

\* The slots that go with the bucket, whose connections are still there.
SlotsGone == {c \in m_wheel[m_cur_bucket] : ~Held(c, m_cur_bucket)} \ freed

\* loopFunc()
Turn == /\ Idle0
        /\ expired' = SlotsGone
        /\ m_wheel' = [m_wheel EXCEPT ![m_cur_bucket] = {}]
        /\ m_cur_bucket' = NextBucket
        /\ quiet' = [c \in Conns |-> IF Lives(c) /\ quiet[c] < 2 THEN quiet[c] + 1 ELSE quiet[c]]
        /\ age' = [c \in Conns |-> IF Lives(c) /\ age[c] < N THEN age[c] + 1 ELSE age[c]]
        /\ UNCHANGED <<netVars, m_state, m_stop, co, pending, found, ownVars>>

\* shutdownConnection(): the test of the state.
ShutTest(c) == /\ c \in expired /\ found = None
               /\ expired' = expired \ {c}
               /\ found' = IF m_state[c] = "Closed" THEN None ELSE c
               /\ UNCHANGED <<netVars, connVars, wheelVars, ownVars>>

\* shutdownConnection(): the state, and whatever the descriptor now is.
Shut == /\ found # None
        /\ m_state' = [m_state EXCEPT ![found] = "HalfClosing"]
        /\ shut' = IF socket[m_fd[found]] = None THEN shut
                   ELSE [shut EXCEPT ![socket[m_fd[found]]] = TRUE]
        /\ found' = None
        /\ UNCHANGED <<socket, m_fd, peer, data, left, m_stop, co, quiet, wheelVars, expired, ownVars>>

\* For mutants: half-closed connections are deleted as well.
ToClearHalf(c) == m_state[c] \in {"HalfClosing", "Closed"}

ToClear(c) == m_state[c] = "Closed"

\* ClearClientTimerFunc(), for one client at a time.
ClearClient(f) == /\ Idle0
                  /\ m_clients[f] # None /\ ToClear(m_clients[f])
                  /\ freed' = freed \cup {m_clients[f]}
                  /\ m_clients' = [m_clients EXCEPT ![f] = None]
                  /\ UNCHANGED <<netVars, connVars, wheelVars, shutVars, undefined>>

-----------------------------------------------------------------------------
(* The coroutine of a connection: MainServerLoopCorFunc(). *)

At(c, pc) == co[c] = pc /\ c \notin freed

\* The first test of input().
MayRead(c) == m_state[c] # "Closed"

Goes(c, pc) == co' = [co EXCEPT ![c] = pc]

\* input(): read() returns data, of whatever is behind the descriptor now.
Read(c) == /\ At(c, "input") /\ MayRead(c)
           /\ LET s == socket[m_fd[c]] IN
              /\ s # None /\ data[s] > 0
              /\ data' = [data EXCEPT ![s] = 0]
           /\ Goes(c, "active")
           /\ UNCHANGED <<socket, m_fd, peer, left, shut, m_state, m_stop, quiet, wheelVars, shutVars, ownVars>>

\* Whether getLastActiveTime() may be an interval ago, and whether it must.
MayBeStale(c) == quiet[c] >= 1
MustBeStale(c) == quiet[c] = 2

SlotAlive(c) == Held(c, N)

\* input(): the slot is put into the wheel again after an interval.
Refresh(c) == /\ At(c, "active")
              /\ \/ /\ MayBeStale(c) /\ SlotAlive(c)
                    /\ pending' = freshTcpConnection(c)
                 \/ /\ ~MustBeStale(c) \/ ~SlotAlive(c)
                    /\ pending' = pending
              /\ quiet' = [quiet EXCEPT ![c] = 0]
              /\ Goes(c, "execute")
              /\ UNCHANGED <<netVars, m_state, m_stop, m_wheel, m_cur_bucket, age, shutVars, ownVars>>

\* input(): read() returns nothing, clearClient() closes the descriptor.
CloseFd(c) == /\ At(c, "input") /\ MayRead(c)
              /\ LET s == socket[m_fd[c]] IN s # None /\ data[s] = 0 /\ (peer[s] = "closed" \/ shut[s])
              /\ m_stop' = [m_stop EXCEPT ![c] = TRUE]
              /\ socket' = [socket EXCEPT ![m_fd[c]] = None]
              /\ Goes(c, "closing")
              /\ UNCHANGED <<m_fd, peer, data, left, shut, m_state, quiet, wheelVars, shutVars, ownVars>>

\* clearClient(): the state.
SetClosed(c) == /\ At(c, "closing")
                /\ m_state' = [m_state EXCEPT ![c] = "Closed"]
                /\ Goes(c, "execute")
                /\ UNCHANGED <<netVars, m_stop, quiet, wheelVars, shutVars, ownVars>>

\* execute(), output() and the test of m_stop.
Execute(c) == /\ At(c, "execute")
              /\ IF m_stop[c]
                 THEN /\ Goes(c, "ended")
                      /\ quiet' = [quiet EXCEPT ![c] = 0]
                      /\ age' = [age EXCEPT ![c] = 0]
                 ELSE Goes(c, "input") /\ UNCHANGED <<quiet, age>>
              /\ UNCHANGED <<netVars, m_state, m_stop, m_wheel, m_cur_bucket, pending, shutVars, ownVars>>

\* Any of these on a connection that has been deleted.
UseFreed(c) == /\ c \in freed /\ co[c] # "ended"
               /\ undefined' = TRUE
               /\ UNCHANGED <<netVars, connVars, wheelVars, shutVars, m_clients, freed>>

-----------------------------------------------------------------------------
PeerStep == \E c \in Conns : Sends(c) \/ Closes(c)

Timers == Turn \/ \E f \in Fds : ClearClient(f)

Processor0 == \/ Fresh \/ Shut
              \/ \E c \in Conns : Accept(c) \/ ShutTest(c)

CoroutineStep(c) == Read(c) \/ Refresh(c) \/ CloseFd(c) \/ SetClosed(c) \/ Execute(c) \/ UseFreed(c)

Next == ~undefined /\ (PeerStep \/ Timers \/ Processor0 \/ \E c \in Conns : CoroutineStep(c))

\* The wheel turns, and every thread goes on; peers may stay silent for ever.
Spec == /\ Init /\ [][Next]_vars
        /\ WF_vars(~undefined /\ Turn) /\ WF_vars(~undefined /\ Processor0)
        /\ \A c \in Conns : WF_vars(~undefined /\ CoroutineStep(c))

-----------------------------------------------------------------------------
\* Each component keeps its type: the bucket that is next is one of the wheel's,
\* and a running coroutine's connection has a descriptor.
TypeOK == /\ socket \in [Fds -> Conns \cup {None}]
          /\ m_clients \in [Fds -> Conns \cup {None}]
          /\ m_fd \in [Conns -> 0..MaxFd]
          /\ m_wheel \in [Buckets -> SUBSET Conns]
          /\ m_cur_bucket \in Buckets
          /\ \A c \in Conns : co[c] # "none" => m_fd[c] # 0
          /\ m_state \in [Conns -> {"none", "Connected", "HalfClosing", "Closed"}]
          /\ co \in [Conns -> {"none", "input", "active", "closing", "execute", "ended"}]

\* An open descriptor belongs to a connection that the server owns under it
\* and that has not been deleted: neither ClearClientTimerFunc() nor
\* addClient() drops one whose socket is open.
OpenIsOwned ==
  \A f \in Fds : socket[f] # None =>
    /\ m_clients[f] = socket[f] /\ m_fd[socket[f]] = f
    /\ socket[f] \notin freed

\* The wheel shuts a connection down only after all its buckets have turned
\* since the connection was last put into it.
WheelWaits ==
  [][\A c \in Conns : found' = c /\ found # c => age[c] >= N]_vars

\* tcp_server.cpp:144 on ClearClientTimerFunc(): "delete Closed TcpConnection
\* per loop": what is deleted is done, and nothing uses it afterwards. (The
\* code does not keep this: the run server_freed.)
NoUseAfterFree == ~undefined

\* Every accepted connection, also of a peer that falls silent without
\* closing, gives its descriptor back.
DescriptorsReturned ==
  \A c \in Conns : co[c] = "input" ~> undefined \/ \A f \in Fds : socket[f] # c

-----------------------------------------------------------------------------
(* What the proofs in ServerProofs rest on.                                  *)

\* The connection c has not closed its descriptor.
Open(c) == co[c] \in {"input", "active"} \/ (co[c] = "execute" /\ ~m_stop[c])

\* Nothing has happened to a connection before it is accepted; an open one has
\* its descriptor, which leads to it; and what says Closed is not open.
OwnInv ==
  /\ TypeOK
  /\ peer \in [Conns -> {"waiting", "open", "closed"}]
  /\ m_stop \in [Conns -> BOOLEAN]
  /\ freed \subseteq Conns /\ expired \subseteq Conns /\ found \in Conns \cup {None}
  /\ pending \in Seq(Conns)
  /\ \A c \in Conns : peer[c] = "waiting" => co[c] = "none" /\ m_fd[c] = 0 /\ c \notin freed /\ ~m_stop[c]
  /\ \A c \in Conns : co[c] \in {"closing", "ended"} => m_stop[c]
  /\ \A f \in Fds : m_clients[f] # None => m_fd[m_clients[f]] = f
  /\ \A f \in Fds : socket[f] # None => m_fd[socket[f]] = f /\ Open(socket[f])
  /\ \A c \in Conns : Open(c) =>
       /\ m_fd[c] \in Fds /\ socket[m_fd[c]] = c /\ m_clients[m_fd[c]] = c
       /\ c \notin freed
       /\ m_state[c] # "Closed" /\ (co[c] # "execute" => ~m_stop[c])

InWheel(c) == \E b \in Buckets : c \in m_wheel[b]
IsPending(c) == \E i \in DOMAIN pending : pending[i] = c

\* The bucket that c was last put into, if that is less than N turns ago.
LastBucket(c) == IF m_cur_bucket > age[c] THEN m_cur_bucket - 1 - age[c]
                 ELSE m_cur_bucket - 1 - age[c] + N

\* A connection is in the bucket where its last fresh() put it, until the wheel
\* has turned N times since; and once its slot is gone it never has one again.
WheelInv ==
  /\ age \in [Conns -> 0..N]
  /\ \A c \in Conns : co[c] = "none" => ~InWheel(c) /\ ~IsPending(c) /\ m_state[c] = "none"
  /\ \A c \in Conns : InWheel(c) /\ Lives(c) /\ age[c] < N => c \in m_wheel[LastBucket(c)]
  /\ \A c \in Conns : c \in expired \/ found = c \/ m_state[c] = "HalfClosing" =>
       ~InWheel(c) /\ ~IsPending(c)
  /\ \A c \in expired : /\ co[c] # "none" /\ m_state[c] # "HalfClosing" /\ found # c
                        /\ Lives(c) => age[c] = N
  /\ found # None => co[found] # "none"
  /\ \A c \in Conns : co[c] = "ended" \/ (co[c] = "execute" /\ m_stop[c]) =>
       m_state[c] \in {"Closed", "HalfClosing"}
=============================================================================
