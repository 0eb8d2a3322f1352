----------------------------- MODULE ServerProofs -----------------------------
(* The life of a server's connections, for every number of connections,      *)
(* descriptors and buckets: what is open is owned by the server under its    *)
(* own descriptor, and the wheel waits its whole turn.                       *)
EXTENDS Server, SequenceTheorems, WellFoundedInduction, TLAPS

LEMMA LowestFree ==
    ASSUME Free # {}
    PROVE  Lowest \in Fds /\ socket[Lowest] = None
<1>1. PICK f \in Free : TRUE
  OBVIOUS
<1>2. Free \in SUBSET Nat
  BY MaxFdAssumption DEF Free, Fds
<1>3. PICK g \in Free : \A h \in Free : <<h, g>> \notin OpToRel(<, Nat)
  BY <1>1, <1>2, WFMin, NatLessThanWellFounded, Zenon
<1>4. \A h \in Free : g <= h
  <2> TAKE h \in Free
  <2>1. ~(h < g)
    BY <1>2, <1>3 DEF OpToRel
  <2> QED BY <1>2, <2>1
<1>5. Lowest \in Free
  BY <1>4 DEF Lowest
<1> QED BY <1>5 DEF Free

\* The two indices of the wheel, without the remainder.
LEMMA WheelIndices ==
    ASSUME m_cur_bucket \in Buckets
    PROVE  /\ NextBucket \in Buckets
           /\ NextBucket = IF m_cur_bucket = N - 1 THEN 0 ELSE m_cur_bucket + 1
           /\ FreshIndex \in Buckets
           /\ FreshIndex = IF m_cur_bucket = 0 THEN N - 1 ELSE m_cur_bucket - 1
<1>1. N \in Nat \ {0, 1} /\ m_cur_bucket \in Int /\ 0 <= m_cur_bucket /\ m_cur_bucket <= N - 1
  BY NAssumption DEF Buckets
<1>2. (m_cur_bucket + 1) % N = IF m_cur_bucket = N - 1 THEN 0 ELSE m_cur_bucket + 1
  BY <1>1
<1>3. (m_cur_bucket - 1 + N) % N = IF m_cur_bucket = 0 THEN N - 1 ELSE m_cur_bucket - 1
  BY <1>1
<1> QED BY <1>1, <1>2, <1>3 DEF NextBucket, FreshIndex, Buckets

LEMMA OwnInit == Init => OwnInv
BY NoneAssumption, NAssumption, MaxFdAssumption
   DEF Init, OwnInv, TypeOK, Open, Buckets, Fds

\* Every step of the peers, of processor 0 and of a coroutine keeps OwnInv.
LEMMA PeerOwn ==
    ASSUME OwnInv, PeerStep
    PROVE  OwnInv'
<1> USE DEF OwnInv, TypeOK, Open, connVars, wheelVars, shutVars, ownVars, Fds
<1>1. ASSUME NEW c \in Conns, Sends(c) PROVE OwnInv'
  BY <1>1 DEF Sends
<1>2. ASSUME NEW c \in Conns, Closes(c) PROVE OwnInv'
  BY <1>2 DEF Closes
<1> QED BY <1>1, <1>2 DEF PeerStep

LEMMA AcceptOwn ==
    ASSUME OwnInv, NEW c \in Conns, Accept(c)
    PROVE  OwnInv'
<1>1. PICK fd \in Fds : fd = Lowest /\ socket[fd] = None
  BY LowestFree DEF Accept, Acceptable
<1>2. fd # 0 /\ fd \in 0..MaxFd /\ c # None
  BY <1>1, MaxFdAssumption, NoneAssumption DEF Fds
<1>3. co[c] = "none" /\ m_fd[c] = 0 /\ c \notin freed /\ ~m_stop[c]
  BY DEF Accept, Acceptable, OwnInv
<1>4. \A f \in Fds : m_clients[f] # c /\ socket[f] # c
  BY <1>2, <1>3, MaxFdAssumption DEF OwnInv, Fds
<1>5. \A d \in Replaced(fd) : d \in Conns /\ ~Open(d)
  <2> SUFFICES ASSUME m_clients[fd] # None, Open(m_clients[fd]) PROVE FALSE
    BY <1>1 DEF Replaced, OwnInv, TypeOK
  <2>1. m_clients[fd] \in Conns /\ m_fd[m_clients[fd]] = fd
    BY <1>1 DEF OwnInv, TypeOK
  <2> QED BY <1>1, <2>1, NoneAssumption DEF OwnInv
<1>6. /\ peer' = [peer EXCEPT ![c] = "open"]
      /\ socket' = [socket EXCEPT ![fd] = c]
      /\ m_fd' = [m_fd EXCEPT ![c] = fd]
      /\ freed' = freed \cup Replaced(fd)
      /\ m_clients' = [m_clients EXCEPT ![fd] = c]
      /\ m_state' = [m_state EXCEPT ![c] = "Connected"]
      /\ co' = [co EXCEPT ![c] = "input"]
      /\ pending' = Append(pending, c)
      /\ UNCHANGED <<m_stop, m_wheel, m_cur_bucket, expired, found>>
  BY <1>1 DEF Accept, Registered, freshTcpConnection, shutVars
<1>7. TypeOK'
  BY <1>2, <1>6 DEF OwnInv, TypeOK
<1>8. /\ peer' \in [Conns -> {"waiting", "open", "closed"}]
      /\ m_stop' \in [Conns -> BOOLEAN]
      /\ freed' \subseteq Conns /\ expired' \subseteq Conns /\ found' \in Conns \cup {None}
      /\ pending' \in Seq(Conns)
  BY <1>5, <1>6 DEF OwnInv
<1>9. \A d \in Conns : peer'[d] = "waiting" =>
        co'[d] = "none" /\ m_fd'[d] = 0 /\ d \notin freed' /\ ~m_stop'[d]
  <2> SUFFICES ASSUME NEW d \in Conns, peer'[d] = "waiting"
               PROVE  co'[d] = "none" /\ m_fd'[d] = 0 /\ d \notin freed' /\ ~m_stop'[d]
    OBVIOUS
  <2>1. d # c /\ peer[d] = "waiting"
    BY <1>6 DEF OwnInv
  <2>2. m_clients[fd] # d
    BY <2>1, <1>2, NoneAssumption DEF OwnInv
  <2> QED BY <1>6, <2>1, <2>2 DEF OwnInv, TypeOK, Replaced
<1>10. /\ \A f \in Fds : m_clients'[f] # None => m_fd'[m_clients'[f]] = f
       /\ \A d \in Conns : co'[d] \in {"closing", "ended"} => m_stop'[d]
  BY <1>4, <1>6 DEF OwnInv, TypeOK
<1>11. \A f \in Fds : (socket[f] # None => m_fd[socket[f]] = f /\ Open(socket[f]))'
  BY <1>4, <1>6 DEF OwnInv, TypeOK, Open
<1>12. \A d \in Conns : Open(d)' =>
         /\ m_fd'[d] \in Fds /\ socket'[m_fd'[d]] = d /\ m_clients'[m_fd'[d]] = d
         /\ d \notin freed'
         /\ m_state'[d] # "Closed" /\ (co'[d] # "execute" => ~m_stop'[d])
  <2> SUFFICES ASSUME NEW d \in Conns, Open(d)'
               PROVE  /\ m_fd'[d] \in Fds /\ socket'[m_fd'[d]] = d /\ m_clients'[m_fd'[d]] = d
                      /\ d \notin freed'
                      /\ m_state'[d] # "Closed" /\ (co'[d] # "execute" => ~m_stop'[d])
    OBVIOUS
  <2>1. CASE d = c
    BY <2>1, <1>2, <1>3, <1>4, <1>6 DEF OwnInv, TypeOK, Replaced
  <2>2. CASE d # c
    <3>1. Open(d)
      BY <2>2, <1>6 DEF Open, OwnInv, TypeOK
    <3>2. m_fd[d] # fd /\ d \notin Replaced(fd)
      BY <3>1, <1>1, <1>5, NoneAssumption DEF OwnInv
    <3> QED BY <2>2, <3>1, <3>2, <1>6 DEF OwnInv, TypeOK
  <2> QED BY <2>1, <2>2
<1> QED BY <1>7, <1>8, <1>9, <1>10, <1>11, <1>12 DEF OwnInv

LEMMA WheelOwn ==
    ASSUME OwnInv, Fresh \/ Turn
    PROVE  OwnInv'
<1>1. CASE Fresh
  <2>1. Head(pending) \in Conns /\ Tail(pending) \in Seq(Conns)
    BY <1>1 DEF Fresh, OwnInv
  <2>2. FreshIndex \in Buckets
    BY WheelIndices DEF OwnInv, TypeOK
  <2>3. TypeOK'
    BY <1>1, <2>1, <2>2 DEF Fresh, OwnInv, TypeOK, netVars, connVars, ownVars
  <2> QED BY <1>1, <2>1, <2>3 DEF Fresh, OwnInv, Open, netVars, connVars, shutVars, ownVars
<1>2. CASE Turn
  <2>1. TypeOK'
    BY <1>2, WheelIndices DEF Turn, OwnInv, TypeOK, netVars, ownVars
  <2>2. expired' \subseteq Conns
    BY <1>2 DEF Turn, SlotsGone, OwnInv, TypeOK
  <2> QED BY <1>2, <2>1, <2>2 DEF Turn, OwnInv, Open, netVars, ownVars
<1> QED BY <1>1, <1>2

LEMMA ShutOwn ==
    ASSUME OwnInv, Shut \/ \E c \in Conns : ShutTest(c)
    PROVE  OwnInv'
<1>1. CASE Shut
  <2>1. found \in Conns
    BY <1>1 DEF Shut, OwnInv
  <2> QED BY <1>1, <2>1 DEF Shut, OwnInv, TypeOK, Open, wheelVars, ownVars
<1>2. ASSUME NEW c \in Conns, ShutTest(c) PROVE OwnInv'
  BY <1>2 DEF ShutTest, OwnInv, TypeOK, Open, netVars, connVars, wheelVars, ownVars
<1> QED BY <1>1, <1>2

LEMMA ClearOwn ==
    ASSUME OwnInv, NEW f \in Fds, ClearClient(f)
    PROVE  OwnInv'
<1>1. PICK c \in Conns : m_clients[f] = c /\ m_state[c] = "Closed"
  BY DEF ClearClient, ToClear, OwnInv, TypeOK
<1>2. ~Open(c)
  BY <1>1 DEF OwnInv
<1>3. \A d \in Conns : Open(d) => m_fd[d] # f
  BY <1>1, <1>2 DEF OwnInv
<1>4. peer[c] # "waiting"
  BY <1>1, NoneAssumption, MaxFdAssumption DEF OwnInv, Fds
<1>5. TypeOK'
  BY DEF ClearClient, OwnInv, TypeOK, netVars, connVars, wheelVars
<1> QED BY <1>1, <1>2, <1>3, <1>4, <1>5
        DEF ClearClient, OwnInv, TypeOK, Open, netVars, connVars, wheelVars, shutVars

LEMMA CoroutineOwn ==
    ASSUME OwnInv, NEW c \in Conns, CoroutineStep(c)
    PROVE  OwnInv'
<1> USE DEF At, Goes
<1>1. CASE Read(c)
  <2>1. socket[m_fd[c]] = c
    BY <1>1 DEF Read, OwnInv, Open
  <2> QED BY <1>1, <2>1 DEF Read, OwnInv, TypeOK, Open, wheelVars, shutVars, ownVars
<1>2. CASE Refresh(c)
  <2>1. pending' \in Seq(Conns)
    <3>1. pending \in Seq(Conns) /\ Append(pending, c) \in Seq(Conns)
      BY DEF OwnInv
    <3> QED BY <1>2, <3>1 DEF Refresh, freshTcpConnection
  <2>2. ~m_stop[c]
    BY <1>2 DEF Refresh, OwnInv, Open
  <2> QED BY <1>2, <2>1, <2>2 DEF Refresh, OwnInv, TypeOK, Open, netVars, shutVars, ownVars
<1>3. CASE CloseFd(c)
  <2>1. Open(c) /\ m_fd[c] \in Fds /\ socket[m_fd[c]] = c
    BY <1>3 DEF CloseFd, OwnInv, Open
  <2>2. \A d \in Conns : Open(d) /\ d # c => m_fd[d] # m_fd[c]
    BY <2>1 DEF OwnInv
  <2>3. TypeOK'
    <3>1. /\ socket' \in [Fds -> Conns \cup {None}]
          /\ co' = [co EXCEPT ![c] = "closing"] /\ co[c] # "none"
          /\ UNCHANGED <<m_fd, m_state, m_clients, m_wheel, m_cur_bucket>>
      BY <1>3 DEF CloseFd, OwnInv, TypeOK, wheelVars, ownVars
    <3> QED BY <3>1 DEF OwnInv, TypeOK
  <2>10. m_stop' \in [Conns -> BOOLEAN]
    BY <1>3 DEF CloseFd, OwnInv
  <2>4. peer[c] # "waiting"
    BY <2>1 DEF OwnInv, Open
  <2>5. \A f \in Fds : socket[f] # None /\ f # m_fd[c] => socket[f] \in Conns \ {c}
    BY <2>1 DEF OwnInv, TypeOK
  <2>6. \A d \in Conns : Open(d)' => Open(d) /\ d # c
    BY <1>3 DEF CloseFd, OwnInv, TypeOK, Open
  <2>7. \A d \in Conns \ {c} : Open(d) => Open(d)'
    BY <1>3 DEF CloseFd, OwnInv, TypeOK, Open
  <2>8. \A f \in Fds : (socket[f] # None => m_fd[socket[f]] = f /\ Open(socket[f]))'
    BY <1>3, <2>5, <2>7 DEF CloseFd, OwnInv, TypeOK
  <2>9. \A d \in Conns : co'[d] # co[d] => d = c
    BY <1>3 DEF CloseFd, OwnInv, TypeOK
  <2> QED BY <1>3, <2>1, <2>2, <2>3, <2>4, <2>6, <2>8, <2>9, <2>10
          DEF CloseFd, OwnInv, TypeOK, wheelVars, shutVars, ownVars
<1>4. CASE SetClosed(c)
  <2>1. ~Open(c)
    BY <1>4 DEF SetClosed, Open
  <2> QED BY <1>4 DEF SetClosed, OwnInv, TypeOK, Open, netVars, wheelVars, shutVars, ownVars
<1>5. CASE Execute(c)
  <2>1. /\ UNCHANGED <<socket, m_fd, peer, m_clients, m_state, m_stop, m_wheel, m_cur_bucket,
                       pending, expired, found, freed>>
        /\ co' = [co EXCEPT ![c] = IF m_stop[c] THEN "ended" ELSE "input"]
        /\ co[c] = "execute"
    BY <1>5 DEF Execute, netVars, shutVars, ownVars
  <2>2. TypeOK'
    BY <2>1 DEF OwnInv, TypeOK
  <2>3. \A d \in Conns : /\ Open(d)' <=> Open(d)
                         /\ co[d] = "none" <=> co'[d] = "none"
                         /\ co'[d] \in {"closing", "ended"} => m_stop'[d]
                         /\ Open(d)' => (co'[d] # "execute" => ~m_stop'[d])
    BY <2>1 DEF OwnInv, TypeOK, Open
  <2>4. \A f \in Fds : (socket[f] # None => m_fd[socket[f]] = f /\ Open(socket[f]))'
    BY <2>1, <2>3 DEF OwnInv, TypeOK
  <2> QED BY <2>1, <2>2, <2>3, <2>4 DEF OwnInv
<1>6. CASE UseFreed(c)
  BY <1>6 DEF UseFreed, OwnInv, TypeOK, Open, netVars, connVars, wheelVars, shutVars
<1> QED BY <1>1, <1>2, <1>3, <1>4, <1>5, <1>6 DEF CoroutineStep

LEMMA OwnNext == OwnInv /\ [Next]_vars => OwnInv'
<1> SUFFICES ASSUME OwnInv, [Next]_vars PROVE OwnInv'
  OBVIOUS
<1>1. CASE UNCHANGED vars
  BY <1>1 DEF vars, netVars, connVars, wheelVars, shutVars, ownVars, OwnInv, TypeOK, Open
<1>2. CASE Next
  BY <1>2, PeerOwn, AcceptOwn, WheelOwn, ShutOwn, ClearOwn, CoroutineOwn
     DEF Next, Timers, Processor0
<1> QED BY <1>1, <1>2

\* A connection that is waiting has nothing yet, and one that is open has a
\* descriptor of its own, under which the server owns it: accept(), input(),
\* clearClient() and the two places that delete connections all keep this.
THEOREM OwnInvariant == Spec => []OwnInv
BY OwnInit, OwnNext, PTL DEF Spec

\* Each component keeps its type (the two indices of TcpTimeWheel stay on it,
\* and the descriptor of a running coroutine is set).
THEOREM TypesKept == Spec => []TypeOK
BY OwnInvariant, PTL DEF OwnInv

\* An open descriptor belongs to a connection that the server owns under that
\* descriptor and has not deleted (addClient(), ClearClientTimerFunc()).
THEOREM OpenOwned == Spec => []OpenIsOwned
<1>1. OwnInv => OpenIsOwned
  BY DEF OwnInv, TypeOK, OpenIsOwned, Open
<1> QED BY <1>1, OwnInvariant, PTL

-----------------------------------------------------------------------------
LEMMA WheelInit == Init => WheelInv
<1> SUFFICES ASSUME Init PROVE WheelInv
  OBVIOUS
<1>1. DOMAIN pending = {} /\ \A c \in Conns : ~IsPending(c)
  BY DEF Init, IsPending
<1> QED BY <1>1, NAssumption, NoneAssumption DEF Init, WheelInv, InWheel, Lives

\* What is pending after a fresh() is added, and after one has been made.
LEMMA PendingAppended ==
    ASSUME OwnInv, NEW c \in Conns, pending' = Append(pending, c)
    PROVE  \A d \in Conns : IsPending(d)' <=> (IsPending(d) \/ d = c)
<1>1. pending \in Seq(Conns)
  BY DEF OwnInv
<1>2. /\ Len(pending') = Len(pending) + 1
      /\ \A i \in 1..Len(pending) : pending'[i] = pending[i]
      /\ pending'[Len(pending) + 1] = c
  BY <1>1
<1>3. DOMAIN pending = 1..Len(pending) /\ DOMAIN pending' = 1..Len(pending) + 1 /\ Len(pending) \in Nat
  BY <1>1, <1>2
<1> QED BY <1>2, <1>3 DEF IsPending

LEMMA PendingTaken ==
    ASSUME OwnInv, pending # <<>>, pending' = Tail(pending)
    PROVE  /\ IsPending(Head(pending)) /\ Head(pending) \in Conns
           /\ \A d \in Conns : IsPending(d)' => IsPending(d)
<1>1. pending \in Seq(Conns)
  BY DEF OwnInv
<1>2. Len(pending) \in Nat \ {0} /\ DOMAIN pending = 1..Len(pending) /\ Head(pending) = pending[1]
  BY <1>1
<1>3. /\ DOMAIN pending' = 1..Len(pending) - 1
      /\ \A i \in 1..Len(pending) - 1 : pending'[i] = pending[i + 1]
  BY <1>1, <1>2
<1>4. \A i \in 1..Len(pending) - 1 : i + 1 \in DOMAIN pending
  BY <1>2
<1> QED BY <1>1, <1>2, <1>3, <1>4 DEF IsPending

\* A connection that is accepted was not in the wheel, and waits to enter it.
LEMMA AcceptWheel ==
    ASSUME OwnInv, WheelInv, NEW c \in Conns, Accept(c)
    PROVE  WheelInv'
<1>1. /\ pending' = Append(pending, c)
      /\ m_state' = [m_state EXCEPT ![c] = "Connected"]
      /\ co' = [co EXCEPT ![c] = "input"]
      /\ UNCHANGED <<m_wheel, m_cur_bucket, age, expired, found, m_stop>>
      /\ expired = {} /\ found = None
  BY DEF Accept, Registered, freshTcpConnection, shutVars, Idle0
<1>2. co[c] = "none" /\ ~m_stop[c]
  BY DEF Accept, Acceptable, OwnInv
<1>3. ~InWheel(c) /\ \A d \in Conns : InWheel(d)' <=> InWheel(d)
  BY <1>1, <1>2 DEF WheelInv, InWheel
<1>4. \A d \in Conns : IsPending(d)' <=> (IsPending(d) \/ d = c)
  BY <1>1, PendingAppended
<1>5. \A d \in Conns : d # c => co'[d] = co[d] /\ m_state'[d] = m_state[d]
  BY <1>1 DEF OwnInv, TypeOK
<1>6. co'[c] = "input" /\ m_state'[c] = "Connected"
  BY <1>1 DEF OwnInv, TypeOK
<1>7. \A d \in Conns : LastBucket(d)' = LastBucket(d)
  BY <1>1 DEF LastBucket
<1> QED BY <1>1, <1>2, <1>3, <1>4, <1>5, <1>6, <1>7, NoneAssumption DEF WheelInv, Lives

\* A slot that is put into the wheel is in its last bucket.
LEMMA FreshWheel ==
    ASSUME OwnInv, WheelInv, Fresh
    PROVE  WheelInv'
<1>1. PICK c \in Conns : c = Head(pending)
  BY PendingTaken DEF Fresh
<1>2. /\ m_wheel' = [m_wheel EXCEPT ![FreshIndex] = @ \cup {c}]
      /\ age' = [age EXCEPT ![c] = 0]
      /\ pending' = Tail(pending) /\ pending # <<>>
      /\ UNCHANGED <<m_cur_bucket, m_state, m_stop, co, expired, found>>
      /\ expired = {} /\ found = None
  BY <1>1 DEF Fresh, Idle0, connVars, shutVars
<1>3. /\ IsPending(c) /\ c \in Conns
      /\ \A d \in Conns : IsPending(d)' => IsPending(d)
  BY <1>1, <1>2, PendingTaken
<1>4. /\ FreshIndex \in Buckets
      /\ FreshIndex = IF m_cur_bucket = 0 THEN N - 1 ELSE m_cur_bucket - 1
      /\ m_cur_bucket \in Int /\ 0 <= m_cur_bucket
  BY WheelIndices, NAssumption DEF OwnInv, TypeOK, Buckets
<1>5. co[c] # "none" /\ m_state[c] # "HalfClosing"
  BY <1>3 DEF WheelInv
<1>6. \A d \in Conns, b \in Buckets : d \in m_wheel'[b] <=> d \in m_wheel[b] \/ (d = c /\ b = FreshIndex)
  BY <1>2, <1>4 DEF OwnInv, TypeOK
<1>7. \A d \in Conns : d # c => (InWheel(d)' <=> InWheel(d)) /\ LastBucket(d)' = LastBucket(d)
                                /\ age'[d] = age[d]
  BY <1>2, <1>6 DEF InWheel, LastBucket, WheelInv
<1>8. age \in [Conns -> 0..N] /\ N \in Nat
  BY NAssumption DEF WheelInv
<1>9. age' \in [Conns -> 0..N] /\ age'[c] = 0
  BY <1>2, <1>3, <1>8
<1>10. LastBucket(c)' = FreshIndex
  <2>1. m_cur_bucket' = m_cur_bucket
    BY <1>2
  <2>2. (LastBucket(c))' = IF m_cur_bucket > 0 THEN m_cur_bucket - 1 ELSE m_cur_bucket - 1 + N
    BY <2>1, <1>4, <1>8, <1>9 DEF LastBucket
  <2> QED BY <2>2, <1>4, <1>8
<1>11. \A d \in Conns : InWheel(d)' /\ Lives(d)' /\ age'[d] < N => d \in m_wheel'[LastBucket(d)']
  <2> SUFFICES ASSUME NEW d \in Conns, InWheel(d)', Lives(d)', age'[d] < N
               PROVE  d \in m_wheel'[LastBucket(d)']
    OBVIOUS
  <2>1. CASE d = c
    <3>1. c \in m_wheel'[FreshIndex]
      BY <1>3, <1>4, <1>6
    <3> QED BY <2>1, <3>1, <1>10
  <2>2. CASE d # c
    <3>1. d \in m_wheel[LastBucket(d)] /\ LastBucket(d) \in Buckets
      <4>1. d \in m_wheel[LastBucket(d)] /\ age[d] \in 0..N /\ age[d] < N
        BY <2>2, <1>2, <1>7 DEF WheelInv, Lives
      <4>2. LastBucket(d) \in Buckets
        BY <4>1, NAssumption DEF LastBucket, Buckets, OwnInv, TypeOK
      <4> QED BY <4>1, <4>2
    <3> QED BY <2>2, <3>1, <1>6, <1>7
  <2> QED BY <2>1, <2>2
<1> QED BY <1>2, <1>3, <1>5, <1>7, <1>11, <1>9 DEF WheelInv, Lives

\* After a turn the bucket of a slot is where it was, unless it was the one that
\* was cleared: then the wheel has turned N times since.
LEMMA TurnWheel ==
    ASSUME OwnInv, WheelInv, Turn
    PROVE  WheelInv'
<1>1. /\ expired' = SlotsGone
      /\ m_wheel' = [m_wheel EXCEPT ![m_cur_bucket] = {}]
      /\ m_cur_bucket' = NextBucket
      /\ UNCHANGED <<m_state, m_stop, co, pending, found>>
      /\ expired = {} /\ found = None
  BY DEF Turn, Idle0
<1>2. /\ m_cur_bucket' = IF m_cur_bucket = N - 1 THEN 0 ELSE m_cur_bucket + 1
      /\ m_cur_bucket \in Buckets /\ m_cur_bucket \in Int
      /\ 0 <= m_cur_bucket /\ m_cur_bucket <= N - 1 /\ N \in Nat /\ N > 1
  BY <1>1, WheelIndices, NAssumption DEF OwnInv, TypeOK, Buckets
<1>3. age \in [Conns -> 0..N]
  BY DEF WheelInv
<1>4. \A d \in Conns : /\ age[d] \in 0..N
                       /\ age'[d] = IF Lives(d) /\ age[d] < N THEN age[d] + 1 ELSE age[d]
  BY <1>3 DEF Turn
<1>5. age' \in [Conns -> 0..N]
  <2>1. age' = [d \in Conns |-> IF Lives(d) /\ age[d] < N THEN age[d] + 1 ELSE age[d]]
    BY DEF Turn
  <2>2. \A d \in Conns : (IF Lives(d) /\ age[d] < N THEN age[d] + 1 ELSE age[d]) \in 0..N
    BY <1>2, <1>4
  <2> QED BY <2>1, <2>2
<1>6. \A d \in Conns, b \in Buckets : d \in m_wheel'[b] <=> d \in m_wheel[b] /\ b # m_cur_bucket
  BY <1>1, <1>2 DEF OwnInv, TypeOK
<1>7. \A d \in Conns : InWheel(d)' => InWheel(d) /\ \E b \in Buckets \ {m_cur_bucket} : d \in m_wheel[b]
  BY <1>6 DEF InWheel
<1>8. \A d \in Conns : IsPending(d)' <=> IsPending(d)
  BY <1>1 DEF IsPending
<1>9. \A d \in Conns : age[d] < N =>
        /\ LastBucket(d) \in Buckets
        /\ LastBucket(d) = m_cur_bucket <=> age[d] = N - 1
  BY <1>2, <1>4 DEF LastBucket, Buckets
<1>10. \A d \in Conns : (InWheel(d) /\ Lives(d) /\ age[d] < N => d \in m_wheel[LastBucket(d)])'
  <2> SUFFICES ASSUME NEW d \in Conns, InWheel(d)', Lives(d)', age'[d] < N
               PROVE  d \in m_wheel'[(LastBucket(d))']
    OBVIOUS
  <2>1. Lives(d) /\ InWheel(d)
    BY <1>1, <1>7 DEF Lives
  <2>2. age[d] \in 0..N /\ age[d] < N - 1 /\ age'[d] = age[d] + 1
    BY <1>2, <1>4, <2>1
  <2>3. (LastBucket(d))' = LastBucket(d)
    BY <1>2, <2>2 DEF LastBucket
  <2>4. d \in m_wheel[LastBucket(d)] /\ LastBucket(d) \in Buckets \ {m_cur_bucket}
    BY <1>2, <1>9, <2>1, <2>2 DEF WheelInv
  <2> QED BY <1>6, <2>3, <2>4
<1>11. \A d \in expired' : /\ d \in Conns /\ d \in m_wheel[m_cur_bucket]
                           /\ \A b \in Buckets \ {m_cur_bucket} : d \notin m_wheel[b]
                           /\ ~IsPending(d)
  BY <1>1, <1>2 DEF SlotsGone, Held, IsPending, OwnInv, TypeOK
<1>12. \A d \in expired' : /\ ~InWheel(d)' /\ ~IsPending(d)'
                           /\ co[d] # "none" /\ m_state[d] # "HalfClosing"
  BY <1>2, <1>7, <1>8, <1>11 DEF WheelInv, InWheel
<1>13. \A d \in expired' : Lives(d) => age'[d] = N
  <2> SUFFICES ASSUME NEW d \in expired', Lives(d), age[d] < N PROVE age'[d] = N
    BY <1>2, <1>4, <1>11
  <2>1. d \in Conns /\ d \in m_wheel[LastBucket(d)] /\ LastBucket(d) \in Buckets
    BY <1>2, <1>9, <1>11 DEF WheelInv, InWheel
  <2>2. age[d] = N - 1
    BY <1>9, <1>11, <2>1
  <2> QED BY <1>2, <1>4, <2>1, <2>2
<1>14. \A d \in Conns : Lives(d)' <=> Lives(d)
  BY <1>1 DEF Lives
<1>15. \A d \in expired' : /\ co'[d] # "none" /\ m_state'[d] # "HalfClosing" /\ found' # d
                           /\ Lives(d)' => age'[d] = N
  BY <1>1, <1>11, <1>12, <1>13, <1>14, NoneAssumption
<1>16. \A d \in Conns : d \in expired' \/ found' = d \/ m_state'[d] = "HalfClosing" =>
         ~InWheel(d)' /\ ~IsPending(d)'
  BY <1>1, <1>7, <1>8, <1>12, NoneAssumption DEF WheelInv
<1>17. /\ \A d \in Conns : co'[d] = "none" => ~InWheel(d)' /\ ~IsPending(d)' /\ m_state'[d] = "none"
       /\ found' = None
       /\ \A d \in Conns : co'[d] = "ended" \/ (co'[d] = "execute" /\ m_stop'[d]) =>
            m_state'[d] \in {"Closed", "HalfClosing"}
  BY <1>1, <1>7, <1>8 DEF WheelInv
<1> QED BY <1>5, <1>10, <1>15, <1>16, <1>17 DEF WheelInv

\* shutdownConnection() takes a connection from the expired ones, tests its
\* state and sets it.
LEMMA ShutWheel ==
    ASSUME OwnInv, WheelInv, Shut \/ \E c \in Conns : ShutTest(c)
    PROVE  WheelInv'
<1>1. UNCHANGED <<m_wheel, m_cur_bucket, pending, age, co, m_stop>>
  BY DEF Shut, ShutTest, wheelVars, connVars
<1>2. \A d \in Conns : /\ InWheel(d)' <=> InWheel(d)
                       /\ IsPending(d)' <=> IsPending(d)
                       /\ LastBucket(d)' = LastBucket(d)
                       /\ Lives(d)' <=> Lives(d)
  BY <1>1 DEF InWheel, IsPending, LastBucket, Lives
<1>3. CASE Shut
  <2>1. found \in Conns /\ found \notin expired /\ found' = None /\ expired' = expired
    BY <1>3 DEF Shut, OwnInv, WheelInv
  <2>2. \A d \in Conns : m_state'[d] = IF d = found THEN "HalfClosing" ELSE m_state[d]
    BY <1>3, <2>1 DEF Shut, OwnInv, TypeOK
  <2>3. ~InWheel(found) /\ ~IsPending(found) /\ co[found] # "none"
    BY <2>1, NoneAssumption DEF WheelInv
  <2>4. \A d \in Conns : co'[d] = "none" => ~InWheel(d)' /\ ~IsPending(d)' /\ m_state'[d] = "none"
    BY <1>1, <1>2, <2>2, <2>3 DEF WheelInv
  <2>5. \A d \in Conns : d \in expired' \/ found' = d \/ m_state'[d] = "HalfClosing" =>
          ~InWheel(d)' /\ ~IsPending(d)'
    BY <1>2, <2>1, <2>2, <2>3, NoneAssumption DEF WheelInv
  <2>6. \A d \in expired' : /\ co'[d] # "none" /\ m_state'[d] # "HalfClosing" /\ found' # d
                            /\ Lives(d)' => age'[d] = N
    BY <1>1, <1>2, <2>1, <2>2, NoneAssumption DEF WheelInv, OwnInv
  <2>7. \A d \in Conns : co'[d] = "ended" \/ (co'[d] = "execute" /\ m_stop'[d]) =>
           m_state'[d] \in {"Closed", "HalfClosing"}
    BY <1>1, <2>2 DEF WheelInv
  <2>8. \A d \in Conns : (InWheel(d) /\ Lives(d) /\ age[d] < N => d \in m_wheel[LastBucket(d)])'
    BY <1>1, <1>2 DEF WheelInv
  <2> QED BY <1>1, <2>1, <2>4, <2>5, <2>6, <2>7, <2>8 DEF WheelInv
<1>4. ASSUME NEW c \in Conns, ShutTest(c) PROVE WheelInv'
  <2>1. /\ c \in expired /\ expired' = expired \ {c} /\ found' \in {None, c} /\ m_state' = m_state
    BY <1>4 DEF ShutTest, connVars
  <2> QED BY <1>1, <1>2, <2>1, NoneAssumption DEF WheelInv, OwnInv
<1> QED BY <1>3, <1>4

\* What leaves the wheel, its slots and the connections' states as they are.
LEMMA OtherWheel ==
    ASSUME OwnInv, WheelInv,
           \/ UNCHANGED vars
           \/ PeerStep
           \/ \E f \in Fds : ClearClient(f)
           \/ \E c \in Conns : UseFreed(c)
    PROVE  WheelInv'
<1>1. UNCHANGED <<m_wheel, m_cur_bucket, pending, age, co, m_state, m_stop, expired, found>>
  BY DEF PeerStep, Sends, Closes, ClearClient, UseFreed, vars, connVars, wheelVars, shutVars
<1> QED BY <1>1 DEF WheelInv, InWheel, IsPending, LastBucket, Lives

LEMMA CoroutineWheel ==
    ASSUME OwnInv, WheelInv, NEW c \in Conns, CoroutineStep(c)
    PROVE  WheelInv'
<1> USE DEF At, Goes
<1>1. CASE UseFreed(c)
  BY <1>1, OtherWheel
<1>2. CASE ~UseFreed(c)
  <2>1. /\ UNCHANGED <<m_wheel, m_cur_bucket, expired, found>>
        /\ co[c] # "none" /\ co[c] # "ended"
        /\ \A d \in Conns \ {c} : co'[d] = co[d] /\ m_state'[d] = m_state[d] /\ m_stop'[d] = m_stop[d]
        /\ co'[c] \in {"input", "active", "execute", "closing", "ended"}
    BY <1>2 DEF CoroutineStep, Read, Refresh, CloseFd, SetClosed, Execute, wheelVars, shutVars,
                OwnInv, TypeOK
  <2>2. /\ age' \in [Conns -> 0..N]
        /\ \A d \in Conns : Lives(d)' => Lives(d) /\ age'[d] = age[d]
    BY <1>2, <2>1, NAssumption
       DEF CoroutineStep, Read, Refresh, CloseFd, SetClosed, Execute, wheelVars, WheelInv, Lives,
           OwnInv, TypeOK
  <2>3. /\ co'[c] = "ended" \/ (co'[c] = "execute" /\ m_stop'[c]) => m_state'[c] \in {"Closed", "HalfClosing"}
        /\ m_state'[c] = "HalfClosing" => m_state[c] = "HalfClosing"
    BY <1>2
       DEF CoroutineStep, Read, Refresh, CloseFd, SetClosed, Execute, WheelInv, OwnInv, TypeOK, Open
  <2>4. \A d \in Conns : IsPending(d)' => IsPending(d) \/ (d = c /\ InWheel(c))
    <3>1. CASE pending' = pending
      BY <3>1 DEF IsPending
    <3>2. CASE pending' # pending
      <4>1. pending' = Append(pending, c) /\ Held(c, N)
        BY <1>2, <3>2 DEF CoroutineStep, Read, Refresh, CloseFd, SetClosed, Execute, wheelVars,
                          freshTcpConnection, SlotAlive
      <4>2. InWheel(c) \/ IsPending(c)
        BY <4>1 DEF Held, InWheel, IsPending
      <4> QED BY <4>1, <4>2, PendingAppended
    <3> QED BY <3>1, <3>2
  <2>5. \A d \in Conns : /\ InWheel(d)' <=> InWheel(d)
                         /\ Lives(d)' => LastBucket(d)' = LastBucket(d)
    BY <2>1, <2>2 DEF InWheel, LastBucket
  <2>6. \A d \in Conns : (InWheel(d) /\ Lives(d) /\ age[d] < N => d \in m_wheel[LastBucket(d)])'
    BY <2>1, <2>2, <2>5 DEF WheelInv
  <2>7. \A d \in Conns : d \in expired' \/ found' = d \/ m_state'[d] = "HalfClosing" =>
          ~InWheel(d)' /\ ~IsPending(d)'
    BY <2>1, <2>3, <2>4, <2>5 DEF WheelInv
  <2>8. \A d \in Conns : co'[d] = "none" => ~InWheel(d)' /\ ~IsPending(d)' /\ m_state'[d] = "none"
    BY <2>1, <2>4, <2>5 DEF WheelInv
  <2>9. \A d \in expired' : /\ co'[d] # "none" /\ m_state'[d] # "HalfClosing" /\ found' # d
                            /\ Lives(d)' => age'[d] = N
    <3> SUFFICES ASSUME NEW d \in expired
                 PROVE  /\ co'[d] # "none" /\ m_state'[d] # "HalfClosing" /\ found' # d
                        /\ Lives(d)' => age'[d] = N
      BY <2>1
    <3>1. d \in Conns /\ co[d] # "none" /\ m_state[d] # "HalfClosing" /\ found # d
      BY DEF WheelInv, OwnInv
    <3>2. Lives(d) => age[d] = N
      BY DEF WheelInv
    <3>3. co'[d] # "none" /\ m_state'[d] # "HalfClosing" /\ found' # d
      BY <2>1, <2>3, <3>1
    <3> QED BY <2>2, <3>1, <3>2, <3>3
  <2>10. found' # None => co'[found'] # "none"
    BY <2>1 DEF WheelInv, OwnInv
  <2>11. \A d \in Conns : co'[d] = "ended" \/ (co'[d] = "execute" /\ m_stop'[d]) =>
           m_state'[d] \in {"Closed", "HalfClosing"}
    BY <2>1, <2>3 DEF WheelInv
  <2> QED BY <2>2, <2>6, <2>7, <2>8, <2>9, <2>10, <2>11 DEF WheelInv
<1> QED BY <1>1, <1>2

LEMMA WheelNext == OwnInv /\ WheelInv /\ [Next]_vars => WheelInv'
<1> SUFFICES ASSUME OwnInv, WheelInv, [Next]_vars PROVE WheelInv'
  OBVIOUS
<1> QED BY AcceptWheel, FreshWheel, TurnWheel, ShutWheel, OtherWheel, CoroutineWheel
        DEF Next, Timers, Processor0

\* A slot stays where its last fresh() put it until the wheel has turned N
\* times, and what has lost its slot has been silent that long or is over.
THEOREM WheelInvariant == Spec => []WheelInv
<1>1. Init => WheelInv
  BY WheelInit
<1>2. OwnInv /\ OwnInv' /\ WheelInv /\ [Next]_vars => WheelInv'
  BY WheelNext
<1> QED BY <1>1, <1>2, OwnInvariant, PTL DEF Spec

\* No connection is shut down before all the buckets have turned since it was
\* last put into the wheel (TcpTimeWheel::loopFunc(), shutdownConnection()).
THEOREM WheelAlwaysWaits == Spec => WheelWaits
<1> DEFINE Waits == \A c \in Conns : found' = c /\ found # c => age[c] >= N
<1>1. OwnInv /\ WheelInv /\ [Next]_vars => [Waits]_vars
  <2> SUFFICES ASSUME OwnInv, WheelInv, Next, NEW c \in Conns, found' = c, found # c
               PROVE  age[c] >= N
    OBVIOUS
  <2>1. ShutTest(c) /\ m_state[c] # "Closed"
    <3>1. PICK d \in Conns : ShutTest(d)
      BY NoneAssumption
         DEF Next, PeerStep, Timers, Processor0, CoroutineStep, Sends, Closes, Accept, Fresh, Turn,
             Shut, ClearClient, Read, Refresh, CloseFd, SetClosed, Execute, UseFreed, shutVars
    <3> QED BY <3>1, NoneAssumption DEF ShutTest
  <2>2. c \in expired
    BY <2>1 DEF ShutTest
  <2>3. Lives(c)
    BY <2>1, <2>2 DEF Lives, WheelInv
  <2>4. age[c] = N
    BY <2>2, <2>3 DEF WheelInv
  <2> QED BY <2>4, NAssumption
<1>2. [][Next]_vars /\ []OwnInv /\ []WheelInv => [][Waits]_vars
  BY <1>1, PTL
<1> QED BY <1>2, OwnInvariant, WheelInvariant, PTL DEF Spec, WheelWaits
=============================================================================
