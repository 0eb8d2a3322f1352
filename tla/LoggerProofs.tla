----------------------------- MODULE LoggerProofs -----------------------------
(***************************************************************************)
(* No line of the log is lost, doubled or moved before an earlier one of   *)
(* its thread, and each says what its call said unless another call has    *)
(* redirected std::cout, or printed, meanwhile: for any number of threads  *)
(* and calls, any settings, and any size of the queue and of the file.     *)
(***************************************************************************)
EXTENDS Logger, SequenceTheorems, TLAPS

Texts == Seq(Threads \X Nat \X {"file", "terminal"})
AllLines == Lines(Earlier) \cup (Threads \X Nat \X Texts)

\* The lines of several parts.
Within(parts) == UNION {Lines(parts[i]) : i \in DOMAIN parts}

\* A call that has not put its line anywhere yet.
BeforeLine == {"mutex_log", "coutType", "inserting", "swap", "put", "take", "restore", "size",
               "rename", "create", "open", "write", "insert"}

\* One that has its message in the text of that line.
Said == {"take", "restore", "size", "rename", "create", "open", "write", "insert"}

(***************************************************************************)
(* The invariant.  What keeps the lines in order is that the mutexes are   *)
(* held where the code holds them, that whoever has a file open finds      *)
(* nothing but empty files behind it, and that with the queue switched off *)
(* the queue is empty, and with it on nobody writes past it.               *)
(***************************************************************************)
LogTypes ==
    /\ pc \in [Threads -> BeforeLine \cup {"idle", "terminal", "printing", "flush", "flushing"}]
    /\ calls \in [Threads -> Nat]
    /\ oss \in [Threads -> Texts]
    /\ content \in Seq(Seq(AllLines))
    /\ messageQueue \in Seq(AllLines)
    /\ file \in {None, Len(content)}
    /\ archive \in [1..MaxSecond -> Nat]
    /\ second \in 1..MaxSecond
    /\ newFileName \in [Threads -> Nat]
    /\ opened \in [Threads -> Nat]
    /\ mutex_file \in Threads \cup {None}
    /\ mutex_queue \in Threads \cup {None}
    /\ writable \in BOOLEAN
    /\ overwritten \in BOOLEAN

MutexInv ==
    \A t \in Threads : /\ mutex_file = t <=> pc[t] \in {"write", "flushing"}
                       /\ mutex_queue = t <=> pc[t] \in {"flush", "flushing"}

OpenInv ==
    \A t \in Threads : pc[t] \in {"write", "flushing"} =>
        /\ opened[t] \in 0..Len(content)
        /\ writable => opened[t] # None
        /\ \A i \in DOMAIN content : i > opened[t] => content[i] = <<>>

ModeInv ==
    /\ settings.logFileQueueSwitch = "off" =>
         /\ messageQueue = <<>>
         /\ \A t \in Threads : pc[t] \notin {"insert", "flush", "flushing"}
    /\ settings.logFileQueueSwitch # "off" => \A t \in Threads : pc[t] \notin {"open", "write"}

StartInv ==
    /\ ~singleObject => messageQueue = <<>> /\ \A t \in Threads : pc[t] \in {"idle", "mutex_log"}
    /\ ~writable => content = <<>>
    /\ \A t \in Threads : pc[t] = "rename" => newFileName[t] \in 1..MaxSecond

ReachInv == writable /\ ~overwritten => \A i \in DOMAIN content : Reachable(i)

PartsInv ==
    /\ InOrder(Parts)
    /\ \A line \in Within(Parts), t \in Threads :
         line[1] = t => /\ line[2] <= calls[t]
                        /\ pc[t] \in BeforeLine => line[2] < calls[t]
    /\ writable => written \subseteq Within(Parts)

QueuedInv ==
    \A t \in Threads : pc[t] \in {"flush", "flushing"} => Line(t) \in Lines(messageQueue)

\* A call that is not mixed has std::cout to itself from swap to restore, and
\* nothing but its message in its stream.
TextInv ==
    /\ \A t \in Redirected : Oss(t) \notin mixed => coutBuf = Oss(t) /\ Redirected = {t}
    /\ \A t \in Threads : Oss(t) \notin mixed =>
         /\ pc[t] = "put" => oss[t] = <<>>
         /\ pc[t] \in Said => oss[t] = <<<<t, calls[t], "file">>>>
    /\ \A line \in Within(Parts) :
         line[1] \in Threads /\ ~Mixed(line) => line[3] = <<<<line[1], line[2], "file">>>>

LoggerInv ==
    /\ LogTypes /\ MutexInv /\ OpenInv /\ ModeInv /\ StartInv
    /\ ReachInv /\ PartsInv /\ QueuedInv /\ TextInv

-----------------------------------------------------------------------------
(***************************************************************************)
(* Parts that change: what the steps do to them, and that the order stays. *)
(***************************************************************************)
LEMMA PartsAre ==
    ASSUME NEW S, NEW files \in Seq(Seq(S)), NEW queue \in Seq(S),
           NEW all, all = Append(files, queue)
    PROVE  /\ all \in Seq(Seq(S))
           /\ DOMAIN files = 1..Len(files)
           /\ DOMAIN all = 1..Len(files) + 1
           /\ Len(files) \in Nat
           /\ \A i \in 1..Len(files) : all[i] = files[i] /\ files[i] \in Seq(S)
           /\ all[Len(files) + 1] = queue
BY AppendProperties

LEMMA Ordered ==
    ASSUME NEW parts, InOrder(parts), NEW i \in DOMAIN parts, NEW j \in DOMAIN parts,
           NEW k \in DOMAIN parts[i], NEW l \in DOMAIN parts[j],
           i < j \/ (i = j /\ k < l), parts[i][k][1] = parts[j][l][1]
    PROVE  parts[i][k][2] < parts[j][l][2]
BY DEF InOrder

LEMMA Joined ==
    ASSUME NEW S, NEW s \in Seq(S), NEW t \in Seq(S)
    PROVE  /\ DOMAIN (s \o t) = 1..Len(s) + Len(t)
           /\ \A k \in 1..Len(s) : (s \o t)[k] = s[k]
           /\ \A k \in 1..Len(t) : (s \o t)[Len(s) + k] = t[k]
<1>1. /\ s \o t \in Seq(S)
      /\ Len(s \o t) = Len(s) + Len(t)
      /\ \A i \in 1..Len(s) + Len(t) : (s \o t)[i] = IF i <= Len(s) THEN s[i] ELSE t[i - Len(s)]
  BY ConcatProperties
<1> QED BY <1>1

\* An empty file is made behind the others, and before the queue.
LEMMA EmptyBefore ==
    ASSUME NEW n \in Nat, NEW old, NEW new,
           DOMAIN old = 1..n + 1, DOMAIN new = 1..n + 2,
           \A i \in 1..n : new[i] = old[i],
           DOMAIN new[n + 1] = {}, new[n + 2] = old[n + 1]
    PROVE  /\ Within(new) = Within(old)
           /\ InOrder(old) => InOrder(new)
<1> DEFINE Old(i) == IF i = n + 2 THEN n + 1 ELSE i
<1>1. ASSUME NEW i \in 1..n + 2, DOMAIN new[i] # {}
      PROVE  i # n + 1 /\ Old(i) \in 1..n + 1 /\ old[Old(i)] = new[i]
  <2>1. CASE i = n + 2
    <3>1. Old(i) = n + 1 /\ n + 1 \in 1..n + 1 /\ i # n + 1
      BY <2>1
    <3> QED BY <2>1, <3>1
  <2>2. CASE i # n + 2
    <3>1. i \in 1..n /\ Old(i) = i
      BY <1>1, <2>2
    <3> QED BY <3>1
  <2> QED BY <2>1, <2>2
<1>2. ASSUME NEW i \in 1..n + 1 PROVE \E j \in 1..n + 2 : new[j] = old[i]
  <2>1. i \in 1..n \/ i = n + 1
    OBVIOUS
  <2>2. i \in 1..n + 2 /\ n + 2 \in 1..n + 2
    OBVIOUS
  <2> QED BY <2>1, <2>2
<1>3. Within(new) = Within(old)
  <2>1. ASSUME NEW x \in Within(new) PROVE x \in Within(old)
    <3>1. PICK i \in 1..n + 2 : \E k \in DOMAIN new[i] : x = new[i][k]
      BY DEF Within, Lines
    <3>2. Old(i) \in 1..n + 1 /\ old[Old(i)] = new[i]
      BY <1>1, <3>1
    <3> HIDE DEF Old
    <3> QED BY <3>1, <3>2 DEF Within, Lines
  <2>2. ASSUME NEW x \in Within(old) PROVE x \in Within(new)
    <3>1. PICK i \in 1..n + 1 : \E k \in DOMAIN old[i] : x = old[i][k]
      BY DEF Within, Lines
    <3>2. PICK j \in 1..n + 2 : new[j] = old[i]
      BY <1>2
    <3> QED BY <3>1, <3>2 DEF Within, Lines
  <2> QED BY <2>1, <2>2
<1>4. ASSUME InOrder(old) PROVE InOrder(new)
  <2> SUFFICES ASSUME NEW i \in 1..n + 2, NEW j \in 1..n + 2,
                      NEW k \in DOMAIN new[i], NEW l \in DOMAIN new[j],
                      i < j \/ (i = j /\ k < l), new[i][k][1] = new[j][l][1]
               PROVE  new[i][k][2] < new[j][l][2]
    BY DEF InOrder
  <2>1. /\ i # n + 1 /\ Old(i) \in 1..n + 1 /\ old[Old(i)] = new[i]
        /\ j # n + 1 /\ Old(j) \in 1..n + 1 /\ old[Old(j)] = new[j]
    BY <1>1
  <2>2. Old(i) < Old(j) \/ (Old(i) = Old(j) /\ k < l)
    BY <2>1
  <2> HIDE DEF Old
  <2> QED BY <1>4, <2>1, <2>2, Ordered
<1> QED BY <1>3, <1>4

LEMMA EmptyFile ==
    ASSUME NEW S, NEW files \in Seq(Seq(S)), NEW queue \in Seq(S)
    PROVE  /\ Append(files, <<>>) \in Seq(Seq(S))
           /\ Len(Append(files, <<>>)) = Len(files) + 1
           /\ Within(Append(Append(files, <<>>), queue)) = Within(Append(files, queue))
           /\ InOrder(Append(files, queue)) => InOrder(Append(Append(files, <<>>), queue))
<1> DEFINE n == Len(files)
           more == Append(files, <<>>)
           old == Append(files, queue)
           new == Append(more, queue)
<1>1. <<>> \in Seq(S) /\ DOMAIN <<>> = {}
  OBVIOUS
<1>2. more \in Seq(Seq(S)) /\ Len(more) = n + 1 /\ n \in Nat
  BY <1>1, AppendProperties
<1>3. DOMAIN old = 1..n + 1 /\ DOMAIN new = 1..n + 2
  BY <1>2, PartsAre
<1>4. /\ \A i \in 1..n : new[i] = old[i]
      /\ new[n + 1] = <<>> /\ new[n + 2] = queue /\ old[n + 1] = queue
  <2>1. \A i \in 1..n : more[i] = files[i] /\ old[i] = files[i]
    BY <1>1, AppendProperties, PartsAre
  <2>2. more[n + 1] = <<>> /\ old[n + 1] = queue
    BY <1>1, AppendProperties, PartsAre
  <2>3. \A i \in 1..n + 1 : new[i] = more[i]
    BY <1>2, PartsAre
  <2>4. new[n + 2] = queue
    BY <1>2, PartsAre
  <2> QED BY <1>2, <2>1, <2>2, <2>3, <2>4
<1> HIDE DEF n, more, old, new
<1>5. DOMAIN new[n + 1] = {} /\ new[n + 2] = old[n + 1]
  BY <1>1, <1>4
<1>6. Within(new) = Within(old) /\ (InOrder(old) => InOrder(new))
  BY <1>2, <1>3, <1>4, <1>5, EmptyBefore
<1> QED BY <1>2, <1>6 DEF n, more, old, new

\* A line is put at the end of a part that has nothing behind it: the parts as
\* functions, and then as the files and the queue.
AddedTo(e, parts, n, new, size, line) ==
    /\ DOMAIN parts = 1..n /\ DOMAIN parts[e] = 1..size
    /\ DOMAIN new = 1..n /\ DOMAIN new[e] = 1..size + 1
    /\ \A k \in 1..size : new[e][k] = parts[e][k]
    /\ new[e][size + 1] = line
    /\ \A i \in 1..n : i # e => new[i] = parts[i]
    /\ \A i \in 1..n : i > e => DOMAIN new[i] = {}

\* The line is the latest of its thread.
Latest(line, parts) == \A other \in Within(parts) : other[1] = line[1] => other[2] < line[2]

LEMMA LineAdded ==
    ASSUME NEW n \in Nat, NEW e \in 1..n, NEW size \in Nat, NEW line,
           NEW parts, NEW new, AddedTo(e, parts, n, new, size, line)
    PROVE  /\ Within(new) = Within(parts) \cup {line}
           /\ InOrder(parts) /\ Latest(line, parts) => InOrder(new)
<1> USE DEF AddedTo
<1>1. ASSUME NEW i \in 1..n, NEW k \in DOMAIN new[i], ~(i = e /\ k = size + 1)
      PROVE  k \in DOMAIN parts[i] /\ new[i][k] = parts[i][k]
  <2>1. CASE i = e
    BY <1>1, <2>1
  <2>2. CASE i # e
    BY <2>2
  <2> QED BY <2>1, <2>2
<1>2. ASSUME NEW i \in 1..n, NEW k \in DOMAIN parts[i]
      PROVE  k \in DOMAIN new[i] /\ new[i][k] = parts[i][k]
  <2>1. CASE i = e
    BY <2>1
  <2>2. CASE i # e
    BY <2>2
  <2> QED BY <2>1, <2>2
<1>3. size + 1 \in DOMAIN new[e] /\ \A k \in DOMAIN new[e] : k <= size + 1
  OBVIOUS
<1>4. Within(new) = Within(parts) \cup {line}
  <2>1. ASSUME NEW x \in Within(new) PROVE x \in Within(parts) \cup {line}
    <3>1. PICK i \in 1..n : \E k \in DOMAIN new[i] : x = new[i][k]
      BY DEF Within, Lines
    <3>2. PICK k \in DOMAIN new[i] : x = new[i][k]
      BY <3>1
    <3>3. CASE i = e /\ k = size + 1
      BY <3>2, <3>3
    <3>4. CASE ~(i = e /\ k = size + 1)
      BY <1>1, <3>2, <3>4 DEF Within, Lines
    <3> QED BY <3>3, <3>4
  <2>2. ASSUME NEW x \in Within(parts) PROVE x \in Within(new)
    <3>1. PICK i \in 1..n : \E k \in DOMAIN parts[i] : x = parts[i][k]
      BY DEF Within, Lines
    <3> QED BY <1>2, <3>1 DEF Within, Lines
  <2>3. line \in Within(new)
    BY <1>3 DEF Within, Lines
  <2> QED BY <2>1, <2>2, <2>3
<1>5. ASSUME InOrder(parts), Latest(line, parts) PROVE InOrder(new)
  <2> SUFFICES ASSUME NEW i \in 1..n, NEW j \in 1..n,
                      NEW k \in DOMAIN new[i], NEW l \in DOMAIN new[j],
                      i < j \/ (i = j /\ k < l), new[i][k][1] = new[j][l][1]
               PROVE  new[i][k][2] < new[j][l][2]
    BY DEF InOrder
  <2>1. ~(i = e /\ k = size + 1)
    <3> SUFFICES ASSUME i = e, k = size + 1 PROVE FALSE
      OBVIOUS
    <3>1. CASE e < j
      <4>1. DOMAIN new[j] = {}
        BY <3>1
      <4> QED BY <4>1
    <3>2. CASE j = e /\ size + 1 < l
      <4>1. l \in DOMAIN new[e]
        BY <3>2
      <4>2. l \in 1..size + 1
        BY <4>1
      <4> QED BY <3>2, <4>2
    <3> QED BY <3>1, <3>2
  <2>2. k \in DOMAIN parts[i] /\ new[i][k] = parts[i][k]
    BY <1>1, <2>1
  <2>3. CASE j = e /\ l = size + 1
    <3>1. new[i][k] \in Within(parts)
      BY <2>2 DEF Within, Lines
    <3> QED BY <1>5, <2>3, <3>1 DEF Latest
  <2>4. CASE ~(j = e /\ l = size + 1)
    <3>1. l \in DOMAIN parts[j] /\ new[j][l] = parts[j][l]
      BY <1>1, <2>4
    <3>2. parts[i][k][1] = parts[j][l][1]
      BY <2>2, <3>1
    <3>3. parts[i][k][2] < parts[j][l][2]
      BY <1>5, <2>2, <3>1, <3>2, Ordered
    <3> QED BY <2>2, <3>1, <3>3
  <2> QED BY <2>3, <2>4
<1> QED BY <1>4, <1>5

LEMMA QueueLonger ==
    ASSUME NEW S, NEW files \in Seq(Seq(S)), NEW queue \in Seq(S), NEW line \in S
    PROVE  LET old == Append(files, queue)
               new == Append(files, Append(queue, line))
           IN  /\ Within(new) = Within(old) \cup {line}
               /\ InOrder(old) /\ Latest(line, old) => InOrder(new)
<1> DEFINE old == Append(files, queue)
           longer == Append(queue, line)
           new == Append(files, longer)
           n == Len(files) + 1
           size == Len(queue)
<1>1. /\ longer \in Seq(S) /\ DOMAIN longer = 1..size + 1 /\ size \in Nat
      /\ DOMAIN queue = 1..size /\ longer[size + 1] = line
      /\ \A k \in 1..size : longer[k] = queue[k]
  BY AppendProperties
<1> HIDE DEF longer
<1>2. /\ DOMAIN old = 1..n /\ old[n] = queue /\ n - 1 \in Nat /\ n \in Nat
      /\ \A i \in 1..n - 1 : old[i] = files[i]
  BY PartsAre
<1>3. /\ DOMAIN new = 1..n /\ new[n] = longer
      /\ \A i \in 1..n - 1 : new[i] = files[i]
  BY <1>1, PartsAre
<1> HIDE DEF old, new, n, size
<1>4. /\ n \in Nat /\ n \in 1..n
      /\ \A i \in 1..n : i # n => i \in 1..n - 1
      /\ \A i \in 1..n : ~(i > n)
  BY <1>2
<1>5. AddedTo(n, old, n, new, size, line)
  BY <1>1, <1>2, <1>3, <1>4 DEF AddedTo
<1>6. /\ Within(new) = Within(old) \cup {line}
      /\ InOrder(old) /\ Latest(line, old) => InOrder(new)
  <2>1. n \in Nat /\ n \in 1..n /\ size \in Nat
    BY <1>1, <1>4
  <2> QED BY <1>5, <2>1, LineAdded
<1> QED BY <1>6 DEF old, new, longer

LEMMA FileLonger ==
    ASSUME NEW S, NEW files \in Seq(Seq(S)), NEW line \in S, NEW e \in 1..Len(files),
           \A i \in 1..Len(files) : i > e => files[i] = <<>>
    PROVE  LET more == [files EXCEPT ![e] = @ \o <<line>>]
               old == Append(files, <<>>)
               new == Append(more, <<>>)
           IN  /\ more \in Seq(Seq(S)) /\ Len(more) = Len(files)
               /\ Within(new) = Within(old) \cup {line}
               /\ InOrder(old) /\ Latest(line, old) => InOrder(new)
<1> DEFINE more == [files EXCEPT ![e] = @ \o <<line>>]
           old == Append(files, <<>>)
           new == Append(more, <<>>)
           n == Len(files) + 1
           size == Len(files[e])
<1>1. /\ DOMAIN files = 1..n - 1 /\ n - 1 \in Nat /\ n \in Nat /\ files[e] \in Seq(S)
      /\ \A i \in 1..n - 1 : files[i] \in Seq(S)
  OBVIOUS
<1>2. /\ <<line>> \in Seq(S) /\ Len(<<line>>) = 1 /\ <<line>>[1] = line
      /\ <<>> \in Seq(S) /\ DOMAIN <<>> = {}
  OBVIOUS
<1>3. files[e] \o <<line>> \in Seq(S)
  BY <1>1, <1>2, ConcatProperties
<1>4. /\ more \in Seq(Seq(S)) /\ Len(more) = n - 1 /\ Len(more) = Len(files)
      /\ more[e] = files[e] \o <<line>>
      /\ \A i \in 1..n - 1 : i # e => more[i] = files[i]
  BY <1>1, <1>3
<1> HIDE DEF more
<1>5. /\ DOMAIN (files[e] \o <<line>>) = 1..size + 1 /\ size \in Nat
      /\ \A k \in 1..size : (files[e] \o <<line>>)[k] = files[e][k]
      /\ (files[e] \o <<line>>)[size + 1] = line
      /\ DOMAIN files[e] = 1..size
  BY <1>1, <1>2, Joined
<1>6. /\ DOMAIN old = 1..n /\ old[n] = <<>>
      /\ \A i \in 1..n - 1 : old[i] = files[i]
  BY <1>2, PartsAre
<1>7. /\ DOMAIN new = 1..n /\ new[n] = <<>>
      /\ \A i \in 1..n - 1 : new[i] = more[i]
  <2>1. /\ DOMAIN new = 1..Len(more) + 1 /\ new[Len(more) + 1] = <<>>
        /\ \A i \in 1..Len(more) : new[i] = more[i]
    <3>1. more \in Seq(Seq(S)) /\ <<>> \in Seq(S) /\ new = Append(more, <<>>)
      BY <1>2, <1>4
    <3> HIDE DEF new, old, n, size
    <3> QED BY <3>1, PartsAre
  <2>2. Len(more) + 1 = n
    BY <1>1, <1>4
  <2> QED BY <1>4, <2>1, <2>2
<1>8. e \in 1..n - 1 /\ \A i \in 1..n - 1 : i > e => files[i] = <<>>
  BY <1>1
<1> HIDE DEF old, new, n, size
<1>9. /\ n \in Nat /\ e \in 1..n /\ e # n
      /\ \A i \in 1..n : i = n \/ i \in 1..n - 1
      /\ \A i \in 1..n : i > e => i # e
  BY <1>1, <1>8
<1>10. AddedTo(e, old, n, new, size, line)
  <2>1. new[e] = files[e] \o <<line>> /\ old[e] = files[e]
    BY <1>4, <1>6, <1>7, <1>8
  <2>2. ASSUME NEW i \in 1..n, i # e PROVE new[i] = old[i]
    BY <1>4, <1>6, <1>7, <1>9, <2>2
  <2>3. ASSUME NEW i \in 1..n, i > e PROVE DOMAIN new[i] = {}
    <3>1. CASE i = n
      BY <1>2, <1>7, <3>1
    <3>2. CASE i \in 1..n - 1
      BY <1>2, <1>4, <1>7, <1>8, <1>9, <2>3, <3>2
    <3> QED BY <1>9, <3>1, <3>2
  <2> QED BY <1>5, <1>6, <1>7, <2>1, <2>2, <2>3 DEF AddedTo
<1>11. /\ Within(new) = Within(old) \cup {line}
       /\ InOrder(old) /\ Latest(line, old) => InOrder(new)
  BY <1>5, <1>9, <1>10, LineAdded
<1> QED BY <1>4, <1>11 DEF more, old, new

\* The last part goes to the end of one that has nothing between them: the
\* parts as functions, and then as sequences.
MovedTo(e, parts, n, new, size, rest) ==
    /\ DOMAIN parts = 1..n /\ DOMAIN parts[e] = 1..size /\ DOMAIN parts[n] = 1..rest
    /\ DOMAIN new = 1..n /\ DOMAIN new[e] = 1..size + rest
    /\ \A k \in 1..size : new[e][k] = parts[e][k]
    /\ \A k \in 1..rest : new[e][size + k] = parts[n][k]
    /\ \A i \in 1..n : i > e => DOMAIN new[i] = {}
    /\ \A i \in 1..n : i < e => new[i] = parts[i]
    /\ \A i \in 1..n : \A k \in DOMAIN parts[i] : k \in Nat
    /\ \A i \in 1..n : i > e /\ i < n => DOMAIN parts[i] = {}

LEMMA LinesMoved ==
    ASSUME NEW n \in Nat, NEW e \in 1..n, e < n, NEW size \in Nat, NEW rest \in Nat,
           NEW parts, NEW new, MovedTo(e, parts, n, new, size, rest)
    PROVE  /\ Within(new) = Within(parts)
           /\ InOrder(parts) => InOrder(new)
<1> USE DEF MovedTo
<1> DEFINE From(i, k) == IF i = e /\ k > size THEN n ELSE i
           At(i, k) == IF i = e /\ k > size THEN k - size ELSE k
<1>1. ASSUME NEW i \in 1..n, NEW k \in DOMAIN new[i]
      PROVE  /\ i <= e /\ k \in Nat
             /\ From(i, k) \in 1..n /\ At(i, k) \in DOMAIN parts[From(i, k)]
             /\ new[i][k] = parts[From(i, k)][At(i, k)]
  <2>1. i <= e
    OBVIOUS
  <2>2. CASE i = e /\ k > size
    <3>1. k - size \in 1..rest /\ size + (k - size) = k /\ k \in Nat /\ n \in 1..n
      BY <2>2
    <3>2. new[e][k] = parts[n][k - size]
      BY <3>1
    <3>3. From(i, k) = n /\ At(i, k) = k - size
      BY <2>2
    <3> QED BY <2>1, <2>2, <3>1, <3>2, <3>3
  <2>3. CASE i = e /\ ~(k > size)
    <3>1. k \in 1..size /\ k \in Nat
      BY <2>3
    <3>2. From(i, k) = e /\ At(i, k) = k
      BY <2>3
    <3> QED BY <2>1, <2>3, <3>1, <3>2
  <2>4. CASE i # e
    <3>1. new[i] = parts[i] /\ k \in Nat
      BY <2>1, <2>4
    <3>2. From(i, k) = i /\ At(i, k) = k
      BY <2>4
    <3> QED BY <2>1, <3>1, <3>2
  <2> QED BY <2>2, <2>3, <2>4
<1>2. ASSUME NEW i \in 1..n, NEW k \in DOMAIN parts[i]
      PROVE  \E j \in 1..n : \E l \in DOMAIN new[j] : new[j][l] = parts[i][k]
  <2>1. CASE i = n
    <3>1. size + k \in DOMAIN new[e] /\ new[e][size + k] = parts[i][k]
      BY <2>1
    <3> QED BY <3>1
  <2>2. CASE i = e
    <3>1. k \in DOMAIN new[e] /\ new[e][k] = parts[i][k]
      BY <2>2
    <3> QED BY <3>1
  <2>3. CASE i # n /\ i # e
    <3>1. i < e
      BY <2>3
    <3>2. new[i] = parts[i]
      BY <3>1
    <3> QED BY <3>2
  <2> QED BY <2>1, <2>2, <2>3
<1>3. Within(new) = Within(parts)
  <2>1. ASSUME NEW x \in Within(new) PROVE x \in Within(parts)
    <3>1. PICK i \in 1..n : \E k \in DOMAIN new[i] : x = new[i][k]
      BY DEF Within, Lines
    <3>2. PICK k \in DOMAIN new[i] : x = new[i][k]
      BY <3>1
    <3>3. PICK j \in 1..n : \E l \in DOMAIN parts[j] : x = parts[j][l]
      BY <1>1, <3>2
    <3> QED BY <3>3 DEF Within, Lines
  <2>2. ASSUME NEW x \in Within(parts) PROVE x \in Within(new)
    <3>1. PICK i \in 1..n : \E k \in DOMAIN parts[i] : x = parts[i][k]
      BY DEF Within, Lines
    <3>2. PICK j \in 1..n : \E l \in DOMAIN new[j] : x = new[j][l]
      BY <1>2, <3>1
    <3> QED BY <3>2 DEF Within, Lines
  <2> QED BY <2>1, <2>2
<1>4. ASSUME InOrder(parts) PROVE InOrder(new)
  <2> SUFFICES ASSUME NEW i \in 1..n, NEW j \in 1..n,
                      NEW k \in DOMAIN new[i], NEW l \in DOMAIN new[j],
                      i < j \/ (i = j /\ k < l), new[i][k][1] = new[j][l][1]
               PROVE  new[i][k][2] < new[j][l][2]
    BY DEF InOrder
  <2>1. k \in Nat /\ l \in Nat /\ i <= e /\ j <= e
    BY <1>1
  <2>2. From(i, k) < From(j, l) \/ (From(i, k) = From(j, l) /\ At(i, k) < At(j, l))
    BY <2>1
  <2>3. /\ From(i, k) \in 1..n /\ At(i, k) \in DOMAIN parts[From(i, k)]
        /\ new[i][k] = parts[From(i, k)][At(i, k)]
    BY <1>1
  <2>4. /\ From(j, l) \in 1..n /\ At(j, l) \in DOMAIN parts[From(j, l)]
        /\ new[j][l] = parts[From(j, l)][At(j, l)]
    BY <1>1
  <2> HIDE DEF From, At
  <2> DEFINE i2 == From(i, k)  j2 == From(j, l)  k2 == At(i, k)  l2 == At(j, l)
  <2>5. parts[i2][k2][1] = parts[j2][l2][1]
    BY <2>3, <2>4
  <2>6. i2 \in DOMAIN parts /\ j2 \in DOMAIN parts /\ k2 \in DOMAIN parts[i2] /\ l2 \in DOMAIN parts[j2]
    BY <2>3, <2>4
  <2>7. parts[i2][k2][2] < parts[j2][l2][2]
    BY <1>4, <2>2, <2>5, <2>6, Ordered
  <2> QED BY <2>3, <2>4, <2>7
<1> QED BY <1>3, <1>4

LEMMA LastMoved ==
    ASSUME NEW S, NEW files \in Seq(Seq(S)), NEW queue \in Seq(S), NEW e \in 1..Len(files),
           \A i \in 1..Len(files) : i > e => files[i] = <<>>
    PROVE  LET new == [files EXCEPT ![e] = @ \o queue]
           IN  /\ new \in Seq(Seq(S)) /\ Len(new) = Len(files)
               /\ Within(Append(new, <<>>)) = Within(Append(files, queue))
               /\ InOrder(Append(files, queue)) => InOrder(Append(new, <<>>))
<1> DEFINE new == [files EXCEPT ![e] = @ \o queue]
           n == Len(files) + 1
           old == Append(files, queue)
           all == Append(new, <<>>)
<1>1. /\ DOMAIN files = 1..Len(files) /\ Len(files) \in Nat /\ files[e] \in Seq(S)
      /\ \A i \in 1..Len(files) : files[i] \in Seq(S)
  OBVIOUS
<1>2. files[e] \o queue \in Seq(S)
  BY <1>1, ConcatProperties
<1>3. /\ new \in Seq(Seq(S)) /\ Len(new) = Len(files)
      /\ new[e] = files[e] \o queue
      /\ \A i \in 1..Len(files) : i # e => new[i] = files[i]
  BY <1>1, <1>2
<1>4. <<>> \in Seq(S) /\ DOMAIN <<>> = {}
  OBVIOUS
<1> HIDE DEF new
<1>5. /\ DOMAIN old = 1..n /\ old[n] = queue
      /\ \A i \in 1..Len(files) : old[i] = files[i]
  BY PartsAre
<1>6. /\ DOMAIN all = 1..n /\ all[n] = <<>>
      /\ \A i \in 1..Len(files) : all[i] = new[i]
  <2>1. /\ DOMAIN all = 1..Len(new) + 1 /\ all[Len(new) + 1] = <<>>
        /\ \A i \in 1..Len(new) : all[i] = new[i]
    BY <1>3, <1>4, PartsAre
  <2> QED BY <1>3, <2>1
<1> DEFINE size == Len(files[e])
           rest == Len(queue)
<1>7. /\ DOMAIN (files[e] \o queue) = 1..size + rest
      /\ \A k \in 1..size : (files[e] \o queue)[k] = files[e][k]
      /\ \A k \in 1..rest : (files[e] \o queue)[size + k] = queue[k]
  BY <1>1, Joined
<1>8. /\ n \in Nat /\ e \in 1..n /\ e < n /\ size \in Nat /\ rest \in Nat
      /\ DOMAIN files[e] = 1..size /\ DOMAIN queue = 1..rest
  BY <1>1
<1>15. \A i \in 1..n : i \in 1..Len(files) \/ i = n
  <2> HIDE DEF size, rest, old, all
  <2> QED BY <1>1
<1>9. \A i \in 1..Len(files) : \A k \in DOMAIN files[i] : k \in Nat
  BY <1>1
<1> HIDE DEF n, old, all, size, rest
<1>10. /\ \A i \in 1..n : i > e => DOMAIN all[i] = {}
       /\ \A i \in 1..n : i < e => all[i] = old[i]
       /\ \A i \in 1..n : i > e /\ i < n => DOMAIN old[i] = {}
  <2> SUFFICES ASSUME NEW i \in 1..n
               PROVE  /\ i > e => DOMAIN all[i] = {}
                      /\ i < e => all[i] = old[i]
                      /\ i > e /\ i < n => DOMAIN old[i] = {}
    OBVIOUS
  <2>1. CASE i = n
    BY <1>4, <1>6, <1>8, <2>1
  <2>2. CASE i \in 1..Len(files)
    <3>1. i > e => files[i] = <<>>
      BY <2>2
    <3>2. i # e => all[i] = files[i]
      BY <1>3, <1>6, <2>2
    <3>3. old[i] = files[i] /\ i \in Nat /\ e \in Nat
      BY <1>5, <2>2
    <3> QED BY <1>4, <3>1, <3>2, <3>3
  <2> QED BY <1>15, <2>1, <2>2
<1>11. \A i \in 1..n : \A k \in DOMAIN old[i] : k \in Nat
  <2> SUFFICES ASSUME NEW i \in 1..n, NEW k \in DOMAIN old[i] PROVE k \in Nat
    OBVIOUS
  <2>1. CASE i = n
    BY <1>5, <1>8, <2>1
  <2>2. CASE i \in 1..Len(files)
    BY <1>5, <1>9, <2>2
  <2> QED BY <1>15, <2>1, <2>2
<1>12. /\ old[e] = files[e] /\ all[e] = files[e] \o queue
  BY <1>3, <1>5, <1>6
<1>13. /\ DOMAIN old[e] = 1..size /\ DOMAIN old[n] = 1..rest /\ DOMAIN all[e] = 1..size + rest
       /\ \A k \in 1..size : all[e][k] = old[e][k]
       /\ \A k \in 1..rest : all[e][size + k] = old[n][k]
  BY <1>5, <1>7, <1>8, <1>12
<1>14. Within(all) = Within(old) /\ (InOrder(old) => InOrder(all))
  <2>1. MovedTo(e, old, n, all, size, rest)
    BY <1>5, <1>6, <1>10, <1>11, <1>13 DEF MovedTo
  <2> QED BY <1>8, <2>1, LinesMoved
<1> QED BY <1>3, <1>14 DEF new, old, all

-----------------------------------------------------------------------------
(***************************************************************************)
(* The initial states, and what several actions have in common.            *)
(***************************************************************************)
LEMMA LinesTyped ==
    /\ Earlier \in Seq(AllLines)
    /\ \A line \in AllLines : line[1] \in Threads => line[2] \in Nat
<1>1. Earlier \in Seq(AllLines)
  <2>1. Lines(Earlier) \subseteq AllLines
    BY DEF AllLines
  <2> QED BY <2>1, EarlierAssumption
<1>2. ASSUME NEW line \in AllLines, line[1] \in Threads PROVE line[2] \in Nat
  BY <1>2, EarlierAssumption DEF AllLines
<1> QED BY <1>1, <1>2

LEMMA PartsTyped == LogTypes => Within(Parts) \subseteq AllLines
<1> SUFFICES ASSUME LogTypes, NEW x \in Within(Parts) PROVE x \in AllLines
  OBVIOUS
<1>1. Parts \in Seq(Seq(AllLines))
  BY PartsAre DEF LogTypes, Parts
<1>2. PICK i \in DOMAIN Parts : \E k \in DOMAIN Parts[i] : x = Parts[i][k]
  BY DEF Within, Lines
<1>3. Parts[i] \in Seq(AllLines)
  BY <1>1
<1> QED BY <1>2, <1>3

LEMMA LoggerInit == Init => LoggerInv
<1> SUFFICES ASSUME Init PROVE LoggerInv
  OBVIOUS
<1>1. \/ file = None /\ content = <<>>
      \/ file = 1 /\ content = <<Earlier>> /\ writable
  BY DEF Init
<1>2. LogTypes
  <2>1. content \in Seq(Seq(AllLines)) /\ file \in {None, Len(content)}
    <3>1. CASE content = <<>>
      BY <1>1, <3>1
    <3>2. CASE file = 1 /\ content = <<Earlier>>
      <4>1. <<Earlier>> \in Seq(Seq(AllLines)) /\ Len(<<Earlier>>) = 1
        BY LinesTyped
      <4> QED BY <3>2, <4>1
    <3> QED BY <1>1, <3>1, <3>2
  <2>2. /\ pc \in [Threads -> BeforeLine \cup {"idle", "terminal", "printing", "flush", "flushing"}]
        /\ calls \in [Threads -> Nat]
        /\ newFileName \in [Threads -> Nat] /\ opened \in [Threads -> Nat]
        /\ oss \in [Threads -> Texts]
    BY DEF Init, None, BeforeLine, Texts
  <2>3. /\ archive \in [1..MaxSecond -> Nat] /\ second \in 1..MaxSecond
    BY SecondAssumption DEF Init, None
  <2>4. /\ mutex_file \in Threads \cup {None} /\ mutex_queue \in Threads \cup {None}
        /\ messageQueue \in Seq(AllLines)
    BY DEF Init
  <2>5. writable \in BOOLEAN /\ overwritten \in BOOLEAN
    BY Zenon DEF Init
  <2> QED BY <2>1, <2>2, <2>3, <2>4, <2>5 DEF LogTypes
<1>3. MutexInv /\ OpenInv /\ ModeInv /\ StartInv
  BY <1>1, ThreadsAssumption DEF Init, MutexInv, OpenInv, ModeInv, StartInv, None
<1>4. ReachInv
  BY <1>1 DEF ReachInv, Reachable
<1>5. PartsInv
  <2>1. CASE content = <<>>
    <3>1. Parts = << <<>> >>
      BY <2>1 DEF Init, Parts
    <3>2. DOMAIN Parts = 1..1 /\ Parts[1] = <<>> /\ DOMAIN Parts[1] = {}
      BY <3>1
    <3> QED BY <3>2 DEF Init, PartsInv, InOrder, Within, Lines
  <2>2. CASE content = <<Earlier>>
    <3>1. /\ <<Earlier>> \in Seq(Seq(AllLines)) /\ Len(<<Earlier>>) = 1
          /\ DOMAIN <<Earlier>> = 1..1 /\ <<Earlier>>[1] = Earlier
          /\ <<>> \in Seq(AllLines) /\ DOMAIN <<>> = {}
      BY LinesTyped
    <3>2. /\ DOMAIN Parts = 1..2 /\ Parts[1] = Earlier /\ DOMAIN Parts[2] = {}
          /\ DOMAIN <<Earlier>> = 1..1 /\ <<Earlier>>[1] = Earlier
      <4>1. Parts = Append(<<Earlier>>, <<>>)
        BY <2>2 DEF Init, Parts
      <4>2. /\ DOMAIN Parts = 1..Len(<<Earlier>>) + 1
            /\ \A i \in 1..Len(<<Earlier>>) : Parts[i] = <<Earlier>>[i]
            /\ Parts[Len(<<Earlier>>) + 1] = <<>>
        BY <3>1, <4>1, PartsAre
      <4> QED BY <3>1, <4>2
    <3>3. InOrder(Parts)
      <4> SUFFICES ASSUME NEW i \in DOMAIN Parts, NEW j \in DOMAIN Parts,
                          NEW k \in DOMAIN Parts[i], NEW l \in DOMAIN Parts[j],
                          i < j \/ (i = j /\ k < l), Parts[i][k][1] = Parts[j][l][1]
                   PROVE  Parts[i][k][2] < Parts[j][l][2]
        BY DEF InOrder
      <4>1. i = 1 /\ j = 1 /\ 1 \in DOMAIN <<Earlier>>
        BY <3>2
      <4>2. InOrder(<<Earlier>>)
        BY EarlierAssumption
      <4>3. k < l /\ k \in DOMAIN Earlier /\ l \in DOMAIN Earlier
        BY <3>2, <4>1
      <4> QED BY <3>2, <4>1, <4>2, <4>3, Ordered
    <3>4. Within(Parts) \subseteq Lines(Earlier)
      BY <3>2 DEF Within, Lines
    <3> QED BY <3>3, <3>4, EarlierAssumption DEF Init, PartsInv
  <2> QED BY <1>1, <2>1, <2>2
<1>6. QueuedInv
  BY DEF Init, QueuedInv
<1>7. TextInv
  <2>1. \A line \in Within(Parts) : line[1] \notin Threads
    <3>1. content = <<>> \/ content = <<Earlier>>
      BY <1>1
    <3>2. Within(Parts) \subseteq Lines(Earlier)
      <4> SUFFICES ASSUME NEW x \in Within(Parts) PROVE x \in Lines(Earlier)
        OBVIOUS
      <4>1. PICK i \in DOMAIN Parts : \E k \in DOMAIN Parts[i] : x = Parts[i][k]
        BY DEF Within, Lines
      <4>2. messageQueue = <<>> /\ DOMAIN <<>> = {} /\ <<>> \in Seq(AllLines)
        BY DEF Init
      <4>3. /\ DOMAIN Parts = 1..Len(content) + 1 /\ Len(content) \in Nat
            /\ \A k \in 1..Len(content) : Parts[k] = content[k]
            /\ Parts[Len(content) + 1] = <<>>
        BY <1>2, <4>2, PartsAre DEF LogTypes, Parts
      <4>4. i \in 1..Len(content)
        BY <4>1, <4>2, <4>3
      <4>5. Len(<<>>) = 0 /\ Len(<<Earlier>>) = 1
        OBVIOUS
      <4>6. content = <<Earlier>> /\ i = 1
        <5>1. CASE content = <<>>
          <6>1. i \in 1..0
            BY <4>4, <4>5, <5>1
          <6> QED BY <6>1
        <5>2. CASE content = <<Earlier>>
          <6>1. i \in 1..1
            BY <4>4, <4>5, <5>2
          <6> QED BY <5>2, <6>1
        <5> QED BY <3>1, <5>1, <5>2
      <4> QED BY <4>1, <4>3, <4>4, <4>6 DEF Lines
    <3> QED BY <3>2, EarlierAssumption
  <2>2. Redirected = {} /\ \A t \in Threads : pc[t] \notin Said /\ pc[t] # "put"
    BY DEF Init, Redirected, Said
  <2> QED BY <2>1, <2>2 DEF TextInv
<1> QED BY <1>2, <1>3, <1>4, <1>5, <1>6, <1>7 DEF LoggerInv

\* What createFile() or an ofstream does to the files.
LEMMA FileMade ==
    ASSUME LogTypes, StartInv
    PROVE  /\ WithFile = content \/ WithFile = Append(content, <<>>)
           /\ Inode \in {None, Len(WithFile)} /\ Inode \in Nat
           /\ writable => Inode # None /\ Inode = Len(WithFile)
           /\ Len(WithFile) \in Nat
           /\ Inode # file => Inode = Len(content) + 1 /\ file = None /\ writable
           /\ WithFile # content => Inode = Len(content) + 1
<1>1. Len(content) \in Nat
  BY DEF LogTypes
<1>2. Len(Append(content, <<>>)) = Len(content) + 1
  BY EmptyFile DEF LogTypes
<1> QED BY <1>1, <1>2 DEF LogTypes, Inode, WithFile, None

LEMMA Grown ==
    ASSUME LogTypes, content' = content \/ content' = Append(content, <<>>)
    PROVE  /\ content' \in Seq(Seq(AllLines))
           /\ Len(content) \in Nat /\ Len(content') \in Nat /\ Len(content) <= Len(content')
           /\ DOMAIN content = 1..Len(content) /\ DOMAIN content' = 1..Len(content')
           /\ content' # content => Len(content') = Len(content) + 1
           /\ \A i \in DOMAIN content : i \in DOMAIN content' /\ content'[i] = content[i]
           /\ \A i \in DOMAIN content' \ DOMAIN content : content'[i] = <<>>
<1>1. /\ content \in Seq(Seq(AllLines)) /\ Len(content) \in Nat /\ DOMAIN content = 1..Len(content)
      /\ <<>> \in Seq(AllLines)
  BY DEF LogTypes
<1>2. CASE content' = content
  BY <1>1, <1>2
<1>3. CASE content' = Append(content, <<>>)
  <2>1. /\ Append(content, <<>>) \in Seq(Seq(AllLines))
        /\ Len(Append(content, <<>>)) = Len(content) + 1
        /\ \A i \in 1..Len(content) : Append(content, <<>>)[i] = content[i]
        /\ Append(content, <<>>)[Len(content) + 1] = <<>>
    BY <1>1, AppendProperties
  <2> QED BY <1>1, <1>3, <2>1
<1> QED BY <1>2, <1>3

\* No line is added or moved, whatever files are made.
LEMMA PartsKept ==
    ASSUME LogTypes, PartsInv,
           content' = content \/ content' = Append(content, <<>>),
           messageQueue' = messageQueue, written' = written, writable' = writable,
           calls' \in [Threads -> Nat],
           \A t \in Threads : /\ calls[t] <= calls'[t]
                              /\ pc'[t] \in BeforeLine => pc[t] \in BeforeLine \/ calls[t] < calls'[t]
    PROVE  PartsInv'
<1>1. /\ Within(Parts') = Within(Parts)
      /\ InOrder(Parts) => InOrder(Parts')
  BY EmptyFile DEF LogTypes, Parts
<1>2. \A line \in Within(Parts), t \in Threads : line[1] = t => line[2] \in Nat
  BY PartsTyped, LinesTyped
<1>3. ASSUME NEW line \in Within(Parts), NEW t \in Threads, line[1] = t
      PROVE  line[2] <= calls'[t] /\ (pc'[t] \in BeforeLine => line[2] < calls'[t])
  <2>1. line[2] <= calls[t] /\ (pc[t] \in BeforeLine => line[2] < calls[t])
    BY <1>3 DEF PartsInv
  <2>2. line[2] \in Nat /\ calls[t] \in Nat /\ calls'[t] \in Nat
    BY <1>2, <1>3 DEF LogTypes
  <2> QED BY <2>1, <2>2
<1> QED BY <1>1, <1>3 DEF PartsInv

LEMMA WithinKept ==
    ASSUME LogTypes, content' = content \/ content' = Append(content, <<>>),
           messageQueue' = messageQueue
    PROVE  Within(Parts') \subseteq Within(Parts)
BY EmptyFile DEF LogTypes, Parts

\* A file is made, or none: the others stay as they are, and can be found.
LEMMA FilesKept ==
    ASSUME LogTypes, StartInv, ReachInv, UNCHANGED <<archive, overwritten, writable>>,
           file' = Inode, content' = WithFile
    PROVE  ReachInv'
<1> SUFFICES ASSUME writable, ~overwritten, NEW i \in DOMAIN content' PROVE Reachable(i)'
  BY DEF ReachInv
<1>1. /\ Inode = Len(WithFile) /\ (Inode # file => file = None)
      /\ WithFile = content \/ WithFile = Append(content, <<>>)
  BY FileMade
<1>2. /\ Len(content) \in Nat /\ DOMAIN content = 1..Len(content)
      /\ DOMAIN content' = 1..Len(content')
      /\ content' # content => Len(content') = Len(content) + 1
  BY <1>1, Grown
<1>3. CASE i \notin DOMAIN content
  <2>1. i = file'
    BY <1>1, <1>2, <1>3
  <2> QED BY <2>1 DEF Reachable
<1>4. CASE i \in DOMAIN content
  <2>1. Reachable(i)
    BY <1>4 DEF ReachInv
  <2>0. i # QueuePart /\ i # None
    <3>1. i \in 1..Len(content)
      BY <1>2, <1>4
    <3>2. Len(content) \in Nat
      BY <1>2
    <3> QED BY <3>1, <3>2 DEF QueuePart, None
  <2>2. CASE i = file
    <3>1. i = file'
      BY <1>1, <2>0, <2>2
    <3> QED BY <3>1 DEF Reachable
  <2>3. CASE \E s \in DOMAIN archive : archive[s] = i
    BY <2>3 DEF Reachable
  <2> QED BY <2>0, <2>1, <2>2, <2>3 DEF Reachable
<1> QED BY <1>3, <1>4

-----------------------------------------------------------------------------
(***************************************************************************)
(* The steps.                                                              *)
(***************************************************************************)
Quiet == {"idle", "coutType", "inserting", "swap", "put", "take", "restore", "terminal", "printing"}

\* A step that leaves the files, the queue and the mutexes alone, and the
\* texts of those that have put their lines into the queue.
LEMMA QuietStep ==
    ASSUME LoggerInv, NEW t \in Threads, NEW there \in Quiet \cup {"mutex_log", "size"},
           pc[t] \in Quiet, Goes(t, there),
           UNCHANGED <<settings, writable, singleObject, fileVars, queueVars>>,
           singleObject \/ there \in {"idle", "mutex_log"},
           oss' \in [Threads -> Texts], TextInv',
           \A u \in Threads : pc[u] \in {"flush", "flushing"} => oss'[u] = oss[u],
           \/ calls' = calls /\ (there \in BeforeLine => pc[t] \in BeforeLine)
           \/ calls' = [calls EXCEPT ![t] = @ + 1]
    PROVE  LoggerInv'
<1> USE DEF LoggerInv, Goes, Quiet
<1>1. /\ pc' \in [Threads -> BeforeLine \cup {"idle", "terminal", "printing", "flush", "flushing"}]
      /\ \A u \in Threads : u # t => pc'[u] = pc[u]
      /\ pc'[t] = there
  BY DEF LogTypes, BeforeLine
<1>2. /\ calls' \in [Threads -> Nat]
      /\ \A u \in Threads : /\ calls[u] <= calls'[u]
                            /\ pc'[u] \in BeforeLine => pc[u] \in BeforeLine \/ calls[u] < calls'[u]
  <2>1. calls \in [Threads -> Nat]
    BY DEF LogTypes
  <2>2. CASE calls' = calls /\ (there \in BeforeLine => pc[t] \in BeforeLine)
    BY <1>1, <2>1, <2>2
  <2>3. CASE calls' = [calls EXCEPT ![t] = @ + 1]
    BY <1>1, <2>1, <2>3
  <2> QED BY <2>2, <2>3
<1>3. LogTypes'
  BY <1>1, <1>2 DEF LogTypes, fileVars, queueVars
<1>4. MutexInv' /\ OpenInv' /\ ModeInv' /\ StartInv'
  <2>1. MutexInv'
    BY <1>1 DEF MutexInv, queueVars
  <2>2. OpenInv'
    BY <1>1 DEF OpenInv, fileVars
  <2>3. ModeInv'
    BY <1>1 DEF ModeInv, queueVars
  <2>4. StartInv'
    BY <1>1 DEF StartInv, fileVars, queueVars
  <2> QED BY <2>1, <2>2, <2>3, <2>4
<1>5. ReachInv'
  BY DEF ReachInv, Reachable, QueuePart, fileVars
<1>6. PartsInv'
  BY <1>2, PartsKept DEF fileVars, queueVars
<1>7. QueuedInv'
  <2>1. \A u \in Threads : u # t => calls'[u] = calls[u]
    BY DEF LogTypes
  <2> QED BY <1>1, <2>1 DEF QueuedInv, Line, queueVars
<1> QED BY <1>3, <1>4, <1>5, <1>6, <1>7

\* A step of a call that does not touch std::cout, and puts at most its line
\* somewhere.
LEMMA TextKept ==
    ASSUME LoggerInv, NEW t \in Threads, UNCHANGED <<calls, coutVars>>,
           \A u \in Threads : u # t => pc'[u] = pc[u],
           t \notin Redirected, t \notin Redirected',
           pc'[t] \in Said => pc[t] \in Said,
           Within(Parts') \subseteq Within(Parts) \cup (IF pc[t] \in Said THEN {Line(t)} ELSE {})
    PROVE  TextInv'
<1> USE DEF LoggerInv, TextInv, coutVars
<1>1. \A u \in Threads : u \in Redirected' <=> u \in Redirected
  BY DEF Redirected
<1>2. Redirected' = Redirected /\ Redirected \subseteq Threads
  BY <1>1 DEF Redirected
<1>3. \A u \in Redirected : Oss(u) \notin mixed => coutBuf = Oss(u) /\ Redirected = {u}
  OBVIOUS
<1>4. \A u \in Threads : Oss(u)' = Oss(u)
  BY DEF Oss
<1>5. ASSUME NEW u \in Threads, Oss(u) \notin mixed
      PROVE  /\ pc'[u] = "put" => oss[u] = <<>>
             /\ pc'[u] \in Said => oss[u] = <<<<u, calls[u], "file">>>>
  BY <1>5 DEF Redirected
<1>6. ASSUME NEW line \in Within(Parts'), line[1] \in Threads, ~Mixed(line)
      PROVE  line[3] = <<<<line[1], line[2], "file">>>>
  <2>1. CASE line \in Within(Parts)
    BY <1>6, <2>1
  <2>2. CASE pc[t] \in Said /\ line = Line(t)
    BY <1>6, <2>2 DEF Line, Oss, Mixed
  <2> QED BY <1>6, <2>1, <2>2
<1> QED BY <1>2, <1>3, <1>4, <1>5, <1>6 DEF Mixed

LEMMA SamePartsText ==
    ASSUME LoggerInv, NEW t \in Threads, UNCHANGED <<fileVars, queueVars>>
    PROVE  Within(Parts') = Within(Parts) /\ LogTypes /\ TextInv
BY DEF LoggerInv, Parts, fileVars, queueVars

LEMMA CallStep ==
    ASSUME LoggerInv, NEW t \in Threads, Call(t)
    PROVE  LoggerInv'
<1> USE DEF Call, Goes
<1>1. /\ (IF singleObject THEN "coutType" ELSE "mutex_log") \in Quiet \cup {"mutex_log", "size"}
      /\ singleObject \/ (IF singleObject THEN "coutType" ELSE "mutex_log") \in {"idle", "mutex_log"}
  BY DEF Quiet
<1>2. pc[t] \in Quiet
  BY DEF Quiet
<1>3. /\ \A u \in Threads : u # t => pc'[u] = pc[u] /\ calls'[u] = calls[u]
      /\ pc'[t] \in {"coutType", "mutex_log"}
      /\ UNCHANGED <<oss, mixed, coutBuf>> /\ oss \in [Threads -> Texts]
  BY DEF LoggerInv, LogTypes, coutVars
<1>4. TextInv'
  <2>1. Redirected' = Redirected /\ t \notin Redirected /\ Redirected \subseteq Threads
    BY <1>3 DEF Redirected
  <2>2. ASSUME NEW u \in Redirected, Oss(u)' \notin mixed PROVE coutBuf = Oss(u)' /\ Redirected = {u}
    <3>1. Oss(u)' = Oss(u)
      BY <1>3, <2>1 DEF Oss
    <3> QED BY <2>2, <3>1 DEF LoggerInv, TextInv
  <2>3. ASSUME NEW u \in Threads, Oss(u)' \notin mixed
        PROVE  /\ pc'[u] = "put" => oss[u] = <<>>
               /\ pc'[u] \in Said => oss[u] = <<<<u, calls'[u], "file">>>>
    <3>1. CASE u = t
      BY <1>3, <3>1 DEF Said
    <3>2. CASE u # t
      <4>1. Oss(u)' = Oss(u)
        BY <1>3, <3>2 DEF Oss
      <4> QED BY <1>3, <2>3, <3>2, <4>1 DEF LoggerInv, TextInv
    <3> QED BY <3>1, <3>2
  <2> QED BY <1>3, <2>1, <2>2, <2>3, SamePartsText DEF TextInv, Mixed
<1> QED BY <1>1, <1>2, <1>3, <1>4, QuietStep

LEMMA LookStep ==
    ASSUME LoggerInv, NEW t \in Threads, CoutType(t) \/ Inserted(t)
    PROVE  LoggerInv'
<1>1. pc[t] \in Quiet /\ pc[t] \in BeforeLine /\ singleObject /\ t \notin Redirected
  BY DEF CoutType, Inserted, Quiet, BeforeLine, LoggerInv, StartInv, Redirected
<1>2. AfterType(t) \in {"swap", "terminal", "idle"}
  BY DEF AfterType, AfterFile
<1>3. PICK there \in {"swap", "terminal", "idle", "inserting"} : Goes(t, there)
  BY <1>2 DEF CoutType, Inserted
<1>4. UNCHANGED <<calls, coutVars, settings, writable, singleObject, fileVars, queueVars>>
  BY DEF CoutType, Inserted
<1>5. there \in Quiet /\ there \notin Said
  BY <1>3 DEF Quiet, Said
<1>6. /\ \A u \in Threads : u # t => pc'[u] = pc[u]
      /\ pc'[t] = there
  BY <1>3 DEF Goes, LoggerInv, LogTypes
<1>7. TextInv'
  <2>1. t \notin Redirected'
    BY <1>3, <1>6 DEF Redirected
  <2>2. Within(Parts') \subseteq Within(Parts)
    BY <1>4, SamePartsText
  <2> QED BY <1>1, <1>4, <1>5, <1>6, <2>1, <2>2, TextKept
<1>8. oss' = oss /\ oss \in [Threads -> Texts]
  BY <1>4 DEF coutVars, LoggerInv, LogTypes
<1> QED BY <1>1, <1>3, <1>4, <1>5, <1>7, <1>8, QuietStep

LEMMA PutTyped ==
    ASSUME LogTypes, NEW buf, NEW text \in Threads \X Nat \X {"file", "terminal"},
           PutInto(buf, text)
    PROVE  /\ oss' \in [Threads -> Texts]
           /\ \A u \in Threads : pc[u] \notin {"put", "take"} => oss'[u] = oss[u]
<1>1. ASSUME NEW u \in Threads
      PROVE  oss[u] \in Texts /\ Append(oss[u], text) \in Texts
  <2>1. oss[u] \in Texts
    BY DEF LogTypes
  <2> QED BY <2>1, AppendProperties DEF Texts
<1> QED BY <1>1 DEF PutInto

\* The steps of the macros between the swap and the end.
LEMMA MacroText ==
    ASSUME LoggerInv, NEW t \in Threads,
           Swap(t) \/ Put(t) \/ Take(t) \/ Restore(t) \/ Terminal(t) \/ Printed(t)
    PROVE  TextInv' /\ oss' \in [Threads -> Texts]
           /\ \A u \in Threads : pc[u] \in {"flush", "flushing"} => oss'[u] = oss[u]
<1> USE DEF LoggerInv, TextInv
<1>0. DOMAIN pc = Threads /\ oss \in [Threads -> Texts] /\ calls \in [Threads -> Nat]
  BY DEF LogTypes
<1>1. /\ calls' = calls /\ UNCHANGED <<fileVars, queueVars>>
      /\ \A u \in Threads : u # t => pc'[u] = pc[u]
      /\ \A id \in mixed : id \in mixed'
      /\ oss \in [Threads -> Texts] /\ calls \in [Threads -> Nat] /\ t \in DOMAIN pc
  <2>1. CASE Swap(t)
    BY <1>0, <2>1 DEF Swap, Goes
  <2>2. CASE Put(t)
    BY <1>0, <2>2 DEF Put, Goes
  <2>3. CASE Take(t) \/ Restore(t)
    BY <1>0, <2>3 DEF Take, Restore, Goes, coutVars
  <2>4. CASE Terminal(t) \/ Printed(t)
    BY <1>0, <2>4 DEF Terminal, Printed, Prints, Goes
  <2> QED BY <2>1, <2>2, <2>3, <2>4
<1>2. \A u \in Threads : Oss(u)' = Oss(u)
  BY <1>1 DEF Oss
<1>3. Redirected \subseteq Threads /\ Redirected' \subseteq Threads
  BY DEF Redirected
<1>4. \A line \in Within(Parts') :
        line[1] \in Threads /\ ~Mixed(line)' => line[3] = <<<<line[1], line[2], "file">>>>
  BY <1>1, SamePartsText DEF Mixed
<1>5. SUFFICES /\ oss' \in [Threads -> Texts]
               /\ \A u \in Threads : pc[u] \in {"flush", "flushing"} => oss'[u] = oss[u]
               /\ \A u \in Redirected' : Oss(u) \notin mixed' => coutBuf' = Oss(u) /\ Redirected' = {u}
               /\ \A u \in Threads : Oss(u) \notin mixed' =>
                    /\ pc'[u] = "put" => oss'[u] = <<>>
                    /\ pc'[u] \in Said => oss'[u] = <<<<u, calls[u], "file">>>>
  BY <1>1, <1>2, <1>3, <1>4
<1>6. CASE Swap(t)
  <2>1. /\ oss' = [oss EXCEPT ![t] = <<>>] /\ pc[t] = "swap" /\ pc'[t] = "put" /\ coutBuf' = Oss(t)
        /\ Redirected' = Redirected \cup {t} /\ t \notin Redirected
        /\ mixed' = IF Redirected \cup Printing = {} THEN mixed
                    ELSE mixed \cup {Oss(u) : u \in Redirected \cup {t}}
    BY <1>1, <1>6 DEF Swap, Goes, Redirected
  <2>2. <<>> \in Texts /\ "put" \notin Said
    BY DEF Texts, Said
  <2>3. ASSUME NEW u \in Redirected', Oss(u) \notin mixed' PROVE coutBuf' = Oss(u) /\ Redirected' = {u}
    <3>1. Redirected = {}
      BY <2>1, <2>3
    <3> QED BY <2>1, <3>1
  <2> QED BY <1>1, <2>1, <2>2, <2>3
<1>7. CASE Put(t)
  <2>1. /\ pc[t] = "put" /\ pc'[t] = "take" /\ UNCHANGED <<coutBuf, mixed>>
        /\ PutInto(coutBuf, <<t, calls[t], "file">>)
        /\ Redirected' = Redirected /\ t \in Redirected
    BY <1>1, <1>7 DEF Put, Goes, Redirected
  <2>2. /\ oss' \in [Threads -> Texts]
        /\ \A u \in Threads : pc[u] \notin {"put", "take"} => oss'[u] = oss[u]
    BY <1>1, <2>1, PutTyped
  <2>3. ASSUME NEW u \in Threads, Oss(u) \notin mixed
        PROVE  /\ pc'[u] = "put" => oss'[u] = <<>>
               /\ pc'[u] \in Said => oss'[u] = <<<<u, calls[u], "file">>>>
    <3>1. CASE u = t
      <4>1. oss[t] = <<>> /\ coutBuf = Oss(t)
        BY <2>1, <2>3, <3>1
      <4>2. oss'[t] = Append(<<>>, <<t, calls[t], "file">>)
        BY <2>1, <4>1 DEF PutInto
      <4> QED BY <2>1, <3>1, <4>2
    <3>2. CASE u # t
      <4>1. pc[u] \notin {"put", "take"}
        <5>1. u \notin Redirected
          BY <2>1, <2>3, <3>2
        <5> QED BY <5>1 DEF Redirected
      <4> QED BY <1>1, <2>2, <2>3, <3>2, <4>1
    <3> QED BY <3>1, <3>2
  <2> QED BY <2>1, <2>2, <2>3
<1>8. CASE Take(t) \/ Restore(t)
  <2>1. /\ UNCHANGED <<oss, mixed>> /\ t \in Redirected
        /\ pc[t] \in Said /\ pc'[t] \in Said /\ pc'[t] # "put"
    BY <1>1, <1>8 DEF Take, Restore, Goes, Redirected, coutVars, Said
  <2>2. ASSUME NEW u \in Redirected', Oss(u) \notin mixed
        PROVE  coutBuf' = Oss(u) /\ Redirected' = {u}
    <3>1. u \in Redirected /\ Redirected' \subseteq Redirected
      BY <1>1, <2>1, <2>2 DEF Redirected
    <3>2. Redirected = {u} /\ coutBuf = Oss(u)
      BY <2>2, <3>1
    <3>3. u = t /\ coutBuf' = coutBuf
      <4>1. u = t
        BY <2>1, <3>2
      <4> QED BY <1>1, <1>8, <2>2, <4>1 DEF Take, Restore, Goes, Redirected, coutVars
    <3> QED BY <2>2, <3>1, <3>2, <3>3
  <2> QED BY <1>1, <2>1, <2>2
<1>9. CASE Terminal(t) \/ Printed(t)
  <2>1. /\ pc[t] \in {"terminal", "printing"} /\ pc'[t] \in {"printing", "idle"} /\ UNCHANGED coutBuf
        /\ PutInto(coutBuf, <<t, calls[t], "terminal">>)
        /\ mixed' = mixed \cup {Oss(u) : u \in Redirected}
        /\ Redirected' = Redirected /\ pc'[t] \notin Said
    BY <1>1, <1>9 DEF Terminal, Printed, Prints, Goes, Redirected, Said
  <2>2. /\ oss' \in [Threads -> Texts]
        /\ \A u \in Threads : pc[u] \notin {"put", "take"} => oss'[u] = oss[u]
    BY <1>1, <2>1, PutTyped
  <2>3. ASSUME NEW u \in Threads, Oss(u) \notin mixed'
        PROVE  /\ pc'[u] = "put" => oss'[u] = <<>>
               /\ pc'[u] \in Said => oss'[u] = <<<<u, calls[u], "file">>>>
    <3>1. u \notin Redirected
      BY <2>1, <2>3
    <3>2. pc[u] \notin {"put", "take"}
      BY <3>1 DEF Redirected
    <3> QED BY <1>1, <2>1, <2>2, <2>3, <3>2
  <2> QED BY <2>1, <2>2, <2>3
<1> QED BY <1>6, <1>7, <1>8, <1>9

LEMMA MacroStep ==
    ASSUME LoggerInv, NEW t \in Threads,
           Swap(t) \/ Put(t) \/ Take(t) \/ Restore(t) \/ Terminal(t) \/ Printed(t)
    PROVE  LoggerInv'
<1>1. pc[t] \in Quiet /\ singleObject /\ (pc[t] \in BeforeLine \/ pc[t] \in {"terminal", "printing"})
  BY DEF Swap, Put, Take, Restore, Terminal, Printed, Prints, Quiet, BeforeLine, LoggerInv, StartInv
<1>2. PICK there \in {"put", "take", "restore", "size", "printing", "idle"} :
        /\ Goes(t, there)
        /\ pc[t] \in {"terminal", "printing"} => there \in {"printing", "idle"}
        /\ there \in BeforeLine => pc[t] \in BeforeLine
  BY DEF Swap, Put, Take, Restore, Terminal, Printed, Prints, BeforeLine
<1>3. /\ there \in Quiet \cup {"mutex_log", "size"}
      /\ there \in BeforeLine => pc[t] \in BeforeLine
  BY <1>1, <1>2 DEF Quiet, BeforeLine
<1>4. calls' = calls /\ UNCHANGED <<settings, writable, singleObject, fileVars, queueVars>>
  BY DEF Swap, Put, Take, Restore, Terminal, Printed, Prints
<1> QED BY <1>1, <1>2, <1>3, <1>4, MacroText, QuietStep

LEMMA TickStep ==
    ASSUME LoggerInv, Tick
    PROVE  LoggerInv'
<1> USE DEF LoggerInv, Tick, callVars, coutVars, queueVars
<1>1. LogTypes'
  BY SecondAssumption DEF LogTypes
<1>2. MutexInv' /\ OpenInv' /\ ModeInv' /\ StartInv'
  BY DEF MutexInv, OpenInv, ModeInv, StartInv
<1>3. ReachInv'
  BY DEF ReachInv, Reachable, QueuePart
<1>4. PartsInv'
  BY PartsKept DEF LogTypes
<1>5. QueuedInv'
  BY DEF QueuedInv, Line
<1>6. TextInv'
  <2>1. Parts' = Parts /\ Redirected' = Redirected
    BY DEF Parts, Redirected
  <2> QED BY <2>1 DEF TextInv, Oss, Mixed, coutVars
<1> QED BY <1>1, <1>2, <1>3, <1>4, <1>5, <1>6

LEMMA TestSizeStep ==
    ASSUME LoggerInv, NEW t \in Threads, TestSize(t)
    PROVE  LoggerInv'
<1> USE DEF LoggerInv, TestSize, Goes, coutVars, queueVars
<1>1. /\ pc[t] = "size"
      /\ pc' \in [Threads -> BeforeLine \cup {"idle", "terminal", "printing", "flush", "flushing"}]
      /\ \A u \in Threads : u # t => pc'[u] = pc[u]
      /\ pc'[t] = IF TooLarge THEN "rename" ELSE ToWrite
  BY DEF LogTypes, BeforeLine, ToWrite
<1>2. /\ newFileName' \in [Threads -> Nat]
      /\ \A u \in Threads : u # t => newFileName'[u] = newFileName[u]
      /\ newFileName'[t] = IF TooLarge THEN second ELSE 0
  BY SecondAssumption DEF LogTypes
<1>3. LogTypes'
  BY <1>1, <1>2 DEF LogTypes
<1>4. MutexInv'
  BY <1>1 DEF MutexInv, ToWrite
<1>5. OpenInv'
  BY <1>1 DEF OpenInv, ToWrite
<1>6. ModeInv'
  BY <1>1 DEF ModeInv, ToWrite
<1>7. StartInv'
  BY <1>1, <1>2 DEF StartInv, LogTypes, ToWrite
<1>8. ReachInv'
  BY DEF ReachInv, Reachable, QueuePart
<1>9. PartsInv'
  <2>1. pc[t] \in BeforeLine
    BY <1>1 DEF BeforeLine
  <2> QED BY <1>1, <2>1, PartsKept DEF LogTypes
<1>10. QueuedInv'
  BY <1>1 DEF QueuedInv, Line, ToWrite
<1>11. TextInv'
  <2>1. t \notin Redirected /\ t \notin Redirected' /\ (pc'[t] \in Said => pc[t] \in Said)
    BY <1>1 DEF Redirected, Said, ToWrite
  <2>2. Within(Parts') \subseteq Within(Parts)
    BY DEF Parts
  <2> QED BY <1>1, <2>1, <2>2, TextKept
<1> QED BY <1>3, <1>4, <1>5, <1>6, <1>7, <1>8, <1>9, <1>10, <1>11

LEMMA RenameStep ==
    ASSUME LoggerInv, NEW t \in Threads, Rename(t)
    PROVE  LoggerInv'
<1> USE DEF LoggerInv, Rename, Goes, coutVars, queueVars
<1>1. /\ pc[t] = "rename"
      /\ pc' \in [Threads -> BeforeLine \cup {"idle", "terminal", "printing", "flush", "flushing"}]
      /\ \A u \in Threads : u # t => pc'[u] = pc[u]
      /\ pc'[t] = "create"
  BY DEF LogTypes, BeforeLine
<1>2. newFileName[t] \in 1..MaxSecond
  BY <1>1 DEF StartInv
<1>3. Len(content) \in Nat /\ DOMAIN content = 1..Len(content)
  BY DEF LogTypes
<1>4. LogTypes'
  <2>1. archive' \in [1..MaxSecond -> Nat]
    BY <1>2, <1>3 DEF LogTypes, Renamed, None
  <2>2. overwritten' \in BOOLEAN
    OBVIOUS
  <2> QED BY <1>1, <2>1, <2>2 DEF LogTypes
<1>5. MutexInv' /\ OpenInv' /\ ModeInv' /\ StartInv'
  BY <1>1 DEF MutexInv, OpenInv, ModeInv, StartInv
<1>6. ReachInv'
  <2> SUFFICES ASSUME writable, ~overwritten', NEW i \in DOMAIN content PROVE Reachable(i)'
    BY DEF ReachInv
  <2>1. ~overwritten /\ ~Replaces(newFileName[t])
    OBVIOUS
  <2>2. Reachable(i) /\ i # QueuePart /\ i # None
    <3>1. i \in 1..Len(content)
      BY <1>3
    <3>2. Reachable(i)
      BY <2>1 DEF ReachInv
    <3> QED BY <1>3, <3>1, <3>2 DEF QueuePart, None
  <2>3. CASE i = file
    <3>1. archive'[newFileName[t]] = i /\ newFileName[t] \in DOMAIN archive'
      BY <1>2, <2>2, <2>3 DEF Renamed, LogTypes
    <3> QED BY <3>1 DEF Reachable
  <2>4. CASE i # file
    <3>1. PICK s \in DOMAIN archive : archive[s] = i
      BY <2>2, <2>4 DEF Reachable
    <3>2. archive'[s] = i /\ s \in DOMAIN archive'
      BY <1>2, <2>1, <2>2, <3>1 DEF Renamed, Replaces, LogTypes
    <3> QED BY <3>2 DEF Reachable
  <2> QED BY <2>3, <2>4
<1>7. PartsInv'
  <2>1. pc[t] \in BeforeLine
    BY <1>1 DEF BeforeLine
  <2> QED BY <1>1, <2>1, PartsKept DEF LogTypes
<1>8. QueuedInv'
  BY <1>1 DEF QueuedInv, Line
<1>9. TextInv'
  <2>1. t \notin Redirected /\ t \notin Redirected' /\ (pc'[t] \in Said => pc[t] \in Said)
    BY <1>1 DEF Redirected, Said, ToWrite
  <2>2. Within(Parts') \subseteq Within(Parts)
    BY DEF Parts
  <2> QED BY <1>1, <2>1, <2>2, TextKept
<1> QED BY <1>4, <1>5, <1>6, <1>7, <1>8, <1>9

LEMMA CreateFileStep ==
    ASSUME LoggerInv, NEW t \in Threads, CreateFile(t)
    PROVE  LoggerInv'
<1> USE DEF LoggerInv, CreateFile, Goes, coutVars, queueVars
<1>1. /\ pc[t] = "create"
      /\ pc' \in [Threads -> BeforeLine \cup {"idle", "terminal", "printing", "flush", "flushing"}]
      /\ \A u \in Threads : u # t => pc'[u] = pc[u]
      /\ pc'[t] = ToWrite
  BY DEF LogTypes, BeforeLine, ToWrite
<1>2. /\ content' = content \/ content' = Append(content, <<>>)
      /\ file' \in {None, Len(content')}
      /\ writable
         \/ content' = content
  BY FileMade DEF WithFile
<1>3. LogTypes'
  BY <1>1, <1>2, Grown DEF LogTypes
<1>4. MutexInv' /\ ModeInv'
  BY <1>1 DEF MutexInv, ModeInv, ToWrite
<1>5. OpenInv'
  <2> SUFFICES ASSUME NEW u \in Threads, pc'[u] \in {"write", "flushing"}
               PROVE  /\ opened[u] \in 0..Len(content')
                      /\ writable => opened[u] # None
                      /\ \A i \in DOMAIN content' : i > opened[u] => content'[i] = <<>>
    BY DEF OpenInv
  <2>1. /\ opened[u] \in 0..Len(content)
        /\ writable => opened[u] # None
        /\ \A i \in DOMAIN content : i > opened[u] => content[i] = <<>>
    BY <1>1 DEF OpenInv, ToWrite
  <2> QED BY <1>2, <2>1, Grown
<1>6. StartInv'
  BY <1>1, <1>2 DEF StartInv, ToWrite
<1>7. ReachInv'
  BY FilesKept
<1>8. PartsInv'
  <2>1. pc[t] \in BeforeLine
    BY <1>1 DEF BeforeLine
  <2> QED BY <1>1, <1>2, <2>1, PartsKept DEF LogTypes
<1>9. QueuedInv'
  BY <1>1 DEF QueuedInv, Line, ToWrite
<1>10. TextInv'
  <2>1. t \notin Redirected /\ t \notin Redirected' /\ (pc'[t] \in Said => pc[t] \in Said)
    BY <1>1 DEF Redirected, Said, ToWrite
  <2>2. Within(Parts') \subseteq Within(Parts)
    BY <1>2, WithinKept
  <2> QED BY <1>1, <2>1, <2>2, TextKept
<1> QED BY <1>3, <1>4, <1>5, <1>6, <1>7, <1>8, <1>9, <1>10

LEMMA OpenStep ==
    ASSUME LoggerInv, NEW t \in Threads, Open(t)
    PROVE  LoggerInv'
<1> USE DEF LoggerInv, Open, Goes, coutVars
<1>1. /\ pc[t] \in {"open", "flush"}
      /\ pc' \in [Threads -> BeforeLine \cup {"idle", "terminal", "printing", "flush", "flushing"}]
      /\ \A u \in Threads : u # t => pc'[u] = pc[u]
      /\ pc'[t] = IF pc[t] = "open" THEN "write" ELSE "flushing"
  BY DEF LogTypes, BeforeLine
<1>2. /\ content' = content \/ content' = Append(content, <<>>)
      /\ file' \in {None, Len(content')}
      /\ writable \/ content' = content
  BY FileMade DEF WithFile
<1>3. /\ opened' \in [Threads -> Nat]
      /\ \A u \in Threads : u # t => opened'[u] = opened[u]
      /\ opened'[t] = Inode /\ Inode \in 0..Len(content')
      /\ writable => Inode # None /\ Inode = Len(content')
  <2>1. /\ Inode \in {None, Len(content')} /\ Inode \in Nat /\ Len(content') \in Nat
        /\ writable => Inode # None /\ Inode = Len(content')
    BY FileMade
  <2> QED BY <2>1 DEF LogTypes, None
<1>4. LogTypes'
  BY <1>1, <1>2, <1>3, Grown DEF LogTypes
<1>5. MutexInv'
  BY <1>1, ThreadsAssumption DEF MutexInv, LogTypes, None
<1>6. ModeInv'
  BY <1>1 DEF ModeInv
<1>7. OpenInv'
  <2> SUFFICES ASSUME NEW u \in Threads, pc'[u] \in {"write", "flushing"}
               PROVE  /\ opened'[u] \in 0..Len(content')
                      /\ writable => opened'[u] # None
                      /\ \A i \in DOMAIN content' : i > opened'[u] => content'[i] = <<>>
    BY DEF OpenInv
  <2>1. CASE u = t
    <3>1. CASE writable
      BY <1>2, <1>3, <2>1, <3>1, Grown
    <3>2. CASE ~writable
      <4>1. content' = <<>>
        BY <1>2, <3>2 DEF StartInv
      <4> QED BY <1>3, <2>1, <3>2, <4>1
    <3> QED BY <3>1, <3>2
  <2>2. CASE u # t
    <3>1. mutex_file = u
      BY <1>1, <2>2 DEF MutexInv
    <3> QED BY <3>1, ThreadsAssumption DEF None
  <2> QED BY <2>1, <2>2
<1>8. StartInv'
  BY <1>1, <1>2 DEF StartInv
<1>9. ReachInv'
  BY FilesKept
<1>10. PartsInv'
  <2>1. pc[t] \in BeforeLine \/ pc'[t] \notin BeforeLine
    BY <1>1 DEF BeforeLine
  <2> QED BY <1>1, <1>2, <2>1, PartsKept DEF LogTypes
<1>11. QueuedInv'
  BY <1>1 DEF QueuedInv, Line
<1>12. TextInv'
  <2>1. t \notin Redirected /\ t \notin Redirected' /\ (pc'[t] \in Said => pc[t] \in Said)
    BY <1>1 DEF Redirected, Said, ToWrite
  <2>2. Within(Parts') \subseteq Within(Parts)
    BY <1>2, WithinKept
  <2> QED BY <1>1, <2>1, <2>2, TextKept
<1> QED BY <1>4, <1>5, <1>6, <1>7, <1>8, <1>9, <1>10, <1>11, <1>12

LEMMA MakeLoggerStep ==
    ASSUME LoggerInv, NEW t \in Threads, MakeLogger(t)
    PROVE  LoggerInv'
<1> USE DEF LoggerInv, MakeLogger, Goes, coutVars, MustMake
<1>1. /\ pc[t] = "mutex_log"
      /\ pc' \in [Threads -> BeforeLine \cup {"idle", "terminal", "printing", "flush", "flushing"}]
      /\ \A u \in Threads : u # t => pc'[u] = pc[u]
      /\ pc'[t] = "coutType"
  BY DEF LogTypes, BeforeLine
<1>2. messageQueue' = messageQueue
  BY DEF StartInv
<1>3. /\ content' = content \/ content' = Append(content, <<>>)
      /\ writable \/ content' = content
  <2>1. TooLarge => writable
    <3>1. file = None \/ writable
      <4>1. ~writable => file = None
        BY DEF LogTypes, StartInv, None
      <4> QED BY <4>1
    <3> QED BY <3>1 DEF TooLarge
  <2> QED BY <2>1, FileMade DEF WithFile
<1>4. /\ file' \in {None, Len(content')}
      /\ archive' \in [1..MaxSecond -> Nat]
      /\ overwritten' \in BOOLEAN
  <2>1. Len(content) \in Nat /\ file \in Nat /\ second \in 1..MaxSecond
    BY DEF LogTypes, None
  <2>2. Len(Append(content, <<>>)) = Len(content) + 1
    BY EmptyFile DEF LogTypes
  <2>3. file' \in {None, Len(content')}
    BY <2>1, <2>2, FileMade DEF LogTypes
  <2>4. archive' \in [1..MaxSecond -> Nat]
    BY <2>1 DEF LogTypes, Renamed
  <2>5. overwritten' \in BOOLEAN
    BY DEF LogTypes
  <2> QED BY <2>3, <2>4, <2>5
<1>5. LogTypes'
  BY <1>1, <1>2, <1>3, <1>4, Grown DEF LogTypes
<1>6. MutexInv' /\ ModeInv'
  BY <1>1, <1>2 DEF MutexInv, ModeInv
<1>7. OpenInv'
  <2> SUFFICES ASSUME NEW u \in Threads, pc'[u] \in {"write", "flushing"}
               PROVE  /\ opened[u] \in 0..Len(content')
                      /\ writable => opened[u] # None
                      /\ \A i \in DOMAIN content' : i > opened[u] => content'[i] = <<>>
    BY DEF OpenInv
  <2>1. /\ opened[u] \in 0..Len(content)
        /\ writable => opened[u] # None
        /\ \A i \in DOMAIN content : i > opened[u] => content[i] = <<>>
    BY <1>1 DEF OpenInv
  <2> QED BY <1>3, <2>1, Grown
<1>8. StartInv'
  BY <1>1, <1>2, <1>3 DEF StartInv
<1>9. ReachInv'
  <2>1. CASE ~(MustMake /\ settings.logFileSwitch = "on")
    BY <2>1 DEF ReachInv, Reachable, QueuePart
  <2>2. CASE MustMake /\ settings.logFileSwitch = "on" /\ ~TooLarge
    <3>1. UNCHANGED <<archive, writable>> /\ file' = Inode /\ content' = WithFile
      BY <2>2
    <3>2. overwritten' = overwritten
      BY <2>2 DEF LogTypes
    <3> QED BY <3>1, <3>2, FilesKept
  <2>3. CASE MustMake /\ settings.logFileSwitch = "on" /\ TooLarge
    <3>1. /\ file' = Len(content) + 1 /\ content' = Append(content, <<>>)
          /\ archive' = [archive EXCEPT ![second] = file]
          /\ file # None /\ second \in 1..MaxSecond
          /\ archive \in [1..MaxSecond -> Nat]
      BY <2>3 DEF TooLarge, Renamed, LogTypes
    <3> SUFFICES ASSUME writable, ~overwritten', NEW i \in DOMAIN content' PROVE Reachable(i)'
      BY DEF ReachInv
    <3>2. ~overwritten /\ archive[second] = None
      BY <2>3, <3>1 DEF Replaces
    <3>3. /\ Len(content) \in Nat /\ DOMAIN content' = 1..Len(content) + 1
          /\ DOMAIN content = 1..Len(content)
      BY <3>1, EmptyFile DEF LogTypes
    <3>4. CASE i = Len(content) + 1
      BY <3>1, <3>4 DEF Reachable
    <3>5. CASE i \in 1..Len(content)
      <4>1. Reachable(i) /\ i # QueuePart /\ i # None
        <5>1. Reachable(i)
          BY <3>2, <3>3, <3>5 DEF ReachInv
        <5> QED BY <3>3, <3>5, <5>1 DEF QueuePart, None
      <4>2. CASE i = file
        BY <3>1, <4>2 DEF Reachable
      <4>3. CASE i # file
        <5>1. PICK s \in DOMAIN archive : archive[s] = i
          BY <4>1, <4>3 DEF Reachable
        <5>2. archive'[s] = i /\ s \in DOMAIN archive'
          BY <3>1, <3>2, <4>1, <5>1
        <5> QED BY <5>2 DEF Reachable
      <4> QED BY <4>2, <4>3
    <3> QED BY <3>3, <3>4, <3>5
  <2> QED BY <2>1, <2>2, <2>3
<1>10. PartsInv'
  <2>1. pc[t] \in BeforeLine
    BY <1>1 DEF BeforeLine
  <2> QED BY <1>1, <1>2, <1>3, <2>1, PartsKept DEF LogTypes
<1>11. QueuedInv'
  BY <1>1, <1>2 DEF QueuedInv, Line
<1>12. TextInv'
  <2>1. t \notin Redirected /\ t \notin Redirected' /\ (pc'[t] \in Said => pc[t] \in Said)
    BY <1>1 DEF Redirected, Said, ToWrite
  <2>2. Within(Parts') \subseteq Within(Parts)
    BY <1>2, <1>3, WithinKept
  <2> QED BY <1>1, <2>1, <2>2, TextKept
<1> QED BY <1>5, <1>6, <1>7, <1>8, <1>9, <1>10, <1>11, <1>12

\* A call that has yet to put its line somewhere puts the latest of its thread.
LEMMA OwnLine ==
    ASSUME LoggerInv, NEW t \in Threads
    PROVE  /\ Line(t) \in AllLines /\ Line(t)[1] = t /\ Line(t)[2] = calls[t] /\ calls[t] \in Nat
           /\ pc[t] \in BeforeLine => Latest(Line(t), Parts)
<1>1. calls[t] \in Nat /\ oss[t] \in Texts
  BY DEF LoggerInv, LogTypes
<1> QED BY <1>1 DEF LoggerInv, PartsInv, AllLines, Line, Latest

LEMMA WriteStep ==
    ASSUME LoggerInv, NEW t \in Threads, Write(t)
    PROVE  LoggerInv'
<1> USE DEF LoggerInv, Write, Goes, coutVars, Returns
<1>1. /\ pc[t] = "write"
      /\ pc' \in [Threads -> BeforeLine \cup {"idle", "terminal", "printing", "flush", "flushing"}]
      /\ \A u \in Threads : u # t => pc'[u] = pc[u]
      /\ pc'[t] \in {"idle", "terminal"}
  BY DEF LogTypes, AfterFile
<1>2. /\ messageQueue = <<>> /\ singleObject
      /\ \A u \in Threads : u # t => pc[u] \notin {"write", "flushing"}
      /\ opened[t] \in 0..Len(content) /\ (opened[t] = None => ~writable)
      /\ \A i \in 1..Len(content) : i > opened[t] => content[i] = <<>>
      /\ Len(content) \in Nat
  <2>1. messageQueue = <<>> /\ singleObject
    BY <1>1 DEF ModeInv, StartInv
  <2>2. \A u \in Threads : u # t => pc[u] \notin {"write", "flushing"}
    BY <1>1 DEF MutexInv
  <2>3. Len(content) \in Nat /\ DOMAIN content = 1..Len(content)
    BY DEF LogTypes
  <2> QED BY <1>1, <2>1, <2>2, <2>3 DEF OpenInv
<1>3. /\ content' \in Seq(Seq(AllLines)) /\ Len(content') = Len(content)
      /\ InOrder(Parts')
      /\ Within(Parts') = IF opened[t] = None THEN Within(Parts) ELSE Within(Parts) \cup {Line(t)}
  <2>1. CASE opened[t] = None
    <3>1. content' = content /\ Parts' = Parts
      BY <2>1 DEF WrittenTo, Parts
    <3> QED BY <2>1, <3>1 DEF LogTypes, PartsInv
  <2>2. CASE opened[t] # None
    <3>1. opened[t] \in 1..Len(content)
      BY <1>2, <2>2 DEF None
    <3>2. content' = [content EXCEPT ![opened[t]] = @ \o <<Line(t)>>]
      BY <2>2 DEF WrittenTo
    <3>3. Parts = Append(content, <<>>) /\ Parts' = Append(content', <<>>)
      BY <1>2 DEF Parts
    <3>4. InOrder(Parts) /\ Latest(Line(t), Parts) /\ Line(t) \in AllLines
      BY <1>1, OwnLine DEF PartsInv, BeforeLine
    <3>5. content \in Seq(Seq(AllLines))
      BY DEF LogTypes
    <3> DEFINE e == opened[t]
               line == Line(t)
               more == [content EXCEPT ![e] = @ \o <<line>>]
    <3>6. /\ more \in Seq(Seq(AllLines)) /\ Len(more) = Len(content)
          /\ Within(Append(more, <<>>)) = Within(Append(content, <<>>)) \cup {line}
          /\ /\ InOrder(Append(content, <<>>)) /\ Latest(line, Append(content, <<>>))
             => InOrder(Append(more, <<>>))
      <4>1. e \in 1..Len(content) /\ line \in AllLines /\ content \in Seq(Seq(AllLines))
            /\ \A i \in 1..Len(content) : i > e => content[i] = <<>>
        BY <1>2, <3>1, <3>4, <3>5
      <4> HIDE DEF e, line
      <4> QED BY <4>1, FileLonger
    <3>7. content' = more
      BY <3>2
    <3> HIDE DEF e, more
    <3> QED BY <2>2, <3>3, <3>4, <3>6, <3>7
  <2> QED BY <2>1, <2>2
<1>4. DOMAIN content' = DOMAIN content
  BY <1>3 DEF LogTypes
<1>5. LogTypes'
  BY <1>1, <1>3 DEF LogTypes, None
<1>6. MutexInv' /\ OpenInv' /\ ModeInv'
  BY <1>1, <1>2, ThreadsAssumption DEF MutexInv, OpenInv, ModeInv, None
<1>7. StartInv'
  <2>1. ASSUME ~writable PROVE content' = <<>>
    <3>1. content = <<>> /\ Len(content) = 0
      BY <2>1 DEF StartInv
    <3>2. opened[t] = None
      BY <1>2, <3>1 DEF None
    <3> QED BY <3>1, <3>2 DEF WrittenTo
  <2> QED BY <1>1, <1>2, <2>1 DEF StartInv
<1>8. ReachInv' /\ QueuedInv'
  BY <1>1, <1>3, <1>4 DEF ReachInv, Reachable, QueuePart, QueuedInv, Line
<1>9. PartsInv'
  <2>1. ASSUME NEW line \in Within(Parts'), NEW u \in Threads, line[1] = u
        PROVE  line[2] <= calls[u] /\ (pc'[u] \in BeforeLine => line[2] < calls[u])
    <3>1. CASE line \in Within(Parts)
      BY <1>1, <2>1, <3>1 DEF PartsInv, BeforeLine
    <3>2. CASE line = Line(t)
      BY <1>1, <2>1, <3>2, OwnLine DEF BeforeLine
    <3> QED BY <1>3, <3>1, <3>2
  <2>2. writable => written' \subseteq Within(Parts')
    BY <1>2, <1>3 DEF PartsInv
  <2> QED BY <1>3, <2>1, <2>2 DEF PartsInv
<1>10. TextInv'
  <2>1. t \notin Redirected /\ t \notin Redirected' /\ (pc'[t] \in Said => pc[t] \in Said)
    BY <1>1 DEF Redirected, Said, ToWrite
  <2>2. pc[t] \in Said /\ Within(Parts') \subseteq Within(Parts) \cup {Line(t)}
    BY <1>1, <1>3 DEF Said
  <2> QED BY <1>1, <2>1, <2>2, TextKept
<1> QED BY <1>5, <1>6, <1>7, <1>8, <1>9, <1>10

LEMMA InsertStep ==
    ASSUME LoggerInv, NEW t \in Threads, Insert(t)
    PROVE  LoggerInv'
<1> USE DEF LoggerInv, Insert, Goes, coutVars, Returns
<1>1. /\ pc[t] = "insert" /\ pc[t] \in BeforeLine
      /\ pc' \in [Threads -> BeforeLine \cup {"idle", "terminal", "printing", "flush", "flushing"}]
      /\ \A u \in Threads : u # t => pc'[u] = pc[u]
      /\ pc'[t] \in {"idle", "terminal", "flush"}
      /\ mutex_queue' = IF pc'[t] = "flush" THEN t ELSE None
      /\ mutex_queue = None
      /\ written' \subseteq written \cup {Line(t)}
  BY DEF LogTypes, AfterFile, BeforeLine
<1>2. /\ UNCHANGED <<settings, writable, singleObject, calls, content, file, archive, second,
                     newFileName, opened, overwritten, mutex_file, oss>>
      /\ messageQueue' = Append(messageQueue, Line(t))
  BY DEF fileVars
<1>3. /\ messageQueue \in Seq(AllLines) /\ content \in Seq(Seq(AllLines)) /\ Line(t) \in AllLines
      /\ InOrder(Parts) /\ Latest(Line(t), Parts)
  BY <1>1, OwnLine DEF LogTypes, PartsInv
<1>4. /\ messageQueue' \in Seq(AllLines)
      /\ Lines(messageQueue') = Lines(messageQueue) \cup {Line(t)}
  <2>1. /\ messageQueue' \in Seq(AllLines)
        /\ DOMAIN messageQueue = 1..Len(messageQueue) /\ Len(messageQueue) \in Nat
        /\ DOMAIN messageQueue' = 1..Len(messageQueue) + 1
        /\ \A k \in 1..Len(messageQueue) : messageQueue'[k] = messageQueue[k]
        /\ messageQueue'[Len(messageQueue) + 1] = Line(t)
    BY <1>2, <1>3, AppendProperties
  <2>2. \A k \in 1..Len(messageQueue) + 1 : k = Len(messageQueue) + 1 \/ k \in 1..Len(messageQueue)
    BY <2>1
  <2>3. \A k \in 1..Len(messageQueue) : k \in 1..Len(messageQueue) + 1
    BY <2>1
  <2>4. Len(messageQueue) + 1 \in 1..Len(messageQueue) + 1
    BY <2>1
  <2> QED BY <2>1, <2>2, <2>3, <2>4 DEF Lines
<1>5. InOrder(Parts') /\ Within(Parts') = Within(Parts) \cup {Line(t)}
  BY <1>2, <1>3, QueueLonger DEF Parts
<1>6. LogTypes'
  BY <1>1, <1>2, <1>4 DEF LogTypes
<1>7. MutexInv' /\ OpenInv' /\ ModeInv' /\ StartInv'
  <2>1. MutexInv'
    BY <1>1, <1>2, ThreadsAssumption DEF MutexInv, None
  <2>2. OpenInv'
    BY <1>1, <1>2 DEF OpenInv
  <2>3. ModeInv'
    BY <1>1, <1>2 DEF ModeInv
  <2>4. StartInv'
    BY <1>1, <1>2 DEF StartInv
  <2> QED BY <2>1, <2>2, <2>3, <2>4
<1>8. ReachInv'
  BY <1>2 DEF ReachInv, Reachable, QueuePart
<1>9. QueuedInv'
  BY <1>1, <1>2, <1>4 DEF QueuedInv, Line
<1>10. PartsInv'
  <2>1. ASSUME NEW line \in Within(Parts'), NEW u \in Threads, line[1] = u
        PROVE  line[2] <= calls[u] /\ (pc'[u] \in BeforeLine => line[2] < calls[u])
    <3>1. CASE line \in Within(Parts)
      BY <1>1, <2>1, <3>1 DEF PartsInv
    <3>2. CASE line = Line(t)
      BY <1>1, <2>1, <3>2, OwnLine DEF BeforeLine
    <3> QED BY <1>5, <3>1, <3>2
  <2>2. writable => written' \subseteq Within(Parts')
    BY <1>1, <1>5 DEF PartsInv
  <2> QED BY <1>2, <1>5, <2>1, <2>2 DEF PartsInv
<1>11. TextInv'
  <2>1. t \notin Redirected /\ t \notin Redirected' /\ (pc'[t] \in Said => pc[t] \in Said)
    BY <1>1 DEF Redirected, Said, ToWrite
  <2>2. pc[t] \in Said /\ Within(Parts') \subseteq Within(Parts) \cup {Line(t)}
    BY <1>1, <1>5 DEF Said
  <2> QED BY <1>1, <2>1, <2>2, TextKept
<1> QED BY <1>6, <1>7, <1>8, <1>9, <1>10, <1>11

LEMMA FlushStep ==
    ASSUME LoggerInv, NEW t \in Threads, Flush(t)
    PROVE  LoggerInv'
<1> USE DEF LoggerInv, Flush, Goes, coutVars, Returns, Unlocked
<1>1. /\ pc[t] = "flushing"
      /\ pc' \in [Threads -> BeforeLine \cup {"idle", "terminal", "printing", "flush", "flushing"}]
      /\ \A u \in Threads : u # t => pc'[u] = pc[u]
      /\ pc'[t] \in {"idle", "terminal"}
  BY DEF LogTypes, AfterFile
<1>2. /\ singleObject
      /\ \A u \in Threads : u # t => pc[u] \notin {"write", "flushing", "flush"}
      /\ opened[t] \in 0..Len(content) /\ (opened[t] = None => ~writable)
      /\ \A i \in 1..Len(content) : i > opened[t] => content[i] = <<>>
      /\ Len(content) \in Nat
  <2>1. singleObject
    BY <1>1 DEF StartInv
  <2>2. \A u \in Threads : u # t => pc[u] \notin {"write", "flushing", "flush"}
    BY <1>1 DEF MutexInv
  <2>3. Len(content) \in Nat /\ DOMAIN content = 1..Len(content)
    BY DEF LogTypes
  <2> QED BY <1>1, <2>1, <2>2, <2>3 DEF OpenInv
<1>3. /\ content' \in Seq(Seq(AllLines)) /\ Len(content') = Len(content)
      /\ InOrder(Parts')
      /\ Within(Parts') \subseteq Within(Parts)
      /\ writable => Within(Parts') = Within(Parts)
  <2>1. CASE opened[t] = None
    <3>1. content' = content /\ content = <<>> /\ ~writable
      BY <1>2, <2>1 DEF WrittenTo, StartInv
    <3>2. Parts' = << <<>> >>
      BY <3>1 DEF Parts
    <3>3. DOMAIN Parts' = 1..1 /\ DOMAIN Parts'[1] = {}
      BY <3>2
    <3>4. InOrder(Parts') /\ Within(Parts') = {}
      BY <3>3 DEF InOrder, Within, Lines
    <3> QED BY <3>1, <3>4 DEF LogTypes
  <2>2. CASE opened[t] # None
    <3>1. opened[t] \in 1..Len(content)
      BY <1>2, <2>2 DEF None
    <3>2. content' = [content EXCEPT ![opened[t]] = @ \o messageQueue]
      BY <2>2 DEF WrittenTo
    <3>3. Parts = Append(content, messageQueue) /\ Parts' = Append(content', <<>>)
      BY DEF Parts
    <3>4. content \in Seq(Seq(AllLines)) /\ messageQueue \in Seq(AllLines) /\ InOrder(Parts)
      BY DEF LogTypes, PartsInv
    <3> DEFINE e == opened[t]
               more == [content EXCEPT ![e] = @ \o messageQueue]
    <3>5. /\ more \in Seq(Seq(AllLines)) /\ Len(more) = Len(content)
          /\ Within(Append(more, <<>>)) = Within(Append(content, messageQueue))
          /\ InOrder(Append(content, messageQueue)) => InOrder(Append(more, <<>>))
      <4>1. e \in 1..Len(content) /\ \A i \in 1..Len(content) : i > e => content[i] = <<>>
        BY <1>2, <3>1
      <4> HIDE DEF e
      <4> QED BY <3>4, <4>1, LastMoved
    <3>6. content' = more
      BY <3>2
    <3> HIDE DEF e, more
    <3> QED BY <3>3, <3>4, <3>5, <3>6
  <2> QED BY <2>1, <2>2
<1>4. DOMAIN content' = DOMAIN content
  BY <1>3 DEF LogTypes
<1>5. LogTypes'
  BY <1>1, <1>3 DEF LogTypes, None
<1>6. MutexInv' /\ OpenInv' /\ ModeInv' /\ QueuedInv'
  BY <1>1, <1>2, ThreadsAssumption DEF MutexInv, OpenInv, ModeInv, QueuedInv, None
<1>7. StartInv'
  <2>1. ASSUME ~writable PROVE content' = <<>>
    <3>1. content = <<>> /\ Len(content) = 0
      BY <2>1 DEF StartInv
    <3>2. opened[t] = None
      BY <1>2, <3>1 DEF None
    <3> QED BY <3>1, <3>2 DEF WrittenTo
  <2> QED BY <1>1, <1>2, <2>1 DEF StartInv
<1>8. ReachInv'
  BY <1>3, <1>4 DEF ReachInv, Reachable, QueuePart
<1>9. PartsInv'
  <2>1. ASSUME NEW line \in Within(Parts'), NEW u \in Threads, line[1] = u
        PROVE  line[2] <= calls[u] /\ (pc'[u] \in BeforeLine => line[2] < calls[u])
    BY <1>1, <1>3, <2>1 DEF PartsInv, BeforeLine
  <2>2. Line(t) \in Within(Parts)
    <3>1. Line(t) \in Lines(messageQueue)
      BY <1>1 DEF QueuedInv
    <3>2. QueuePart \in DOMAIN Parts /\ Parts[QueuePart] = messageQueue
      BY <1>2, PartsAre DEF LogTypes, Parts, QueuePart
    <3> QED BY <3>1, <3>2 DEF Within
  <2>3. writable => written' \subseteq Within(Parts')
    BY <1>3, <2>2 DEF PartsInv
  <2> QED BY <1>3, <2>1, <2>3 DEF PartsInv
<1>10. TextInv'
  <2>1. t \notin Redirected /\ t \notin Redirected' /\ (pc'[t] \in Said => pc[t] \in Said)
    BY <1>1 DEF Redirected, Said, ToWrite
  <2>2. Within(Parts') \subseteq Within(Parts)
    BY <1>3
  <2> QED BY <1>1, <2>1, <2>2, TextKept
<1> QED BY <1>5, <1>6, <1>7, <1>8, <1>9, <1>10

-----------------------------------------------------------------------------
(***************************************************************************)
(* Every behaviour of the Logger keeps the invariant.                      *)
(***************************************************************************)
THEOREM LoggerInvariant == Spec => []LoggerInv
<1>1. LoggerInv /\ [Next]_vars => LoggerInv'
  <2> SUFFICES ASSUME LoggerInv, [Next]_vars PROVE LoggerInv'
    OBVIOUS
  <2>1. CASE Tick
    BY <2>1, TickStep
  <2>2. ASSUME NEW t \in Threads, Call(t) PROVE LoggerInv'
    BY <2>2, CallStep
  <2>3. ASSUME NEW t \in Threads, InCall(t) PROVE LoggerInv'
    BY <2>3, MakeLoggerStep, LookStep, MacroStep, TestSizeStep, RenameStep, CreateFileStep,
       OpenStep, WriteStep, InsertStep, FlushStep DEF InCall
  <2>4. CASE UNCHANGED vars
    <3> USE <2>4 DEF vars, callVars, coutVars, fileVars, queueVars, LoggerInv
    <3>1. LogTypes' /\ MutexInv' /\ OpenInv' /\ ModeInv' /\ StartInv'
      BY DEF LogTypes, MutexInv, OpenInv, ModeInv, StartInv
    <3>2. ReachInv' /\ QueuedInv'
      BY DEF ReachInv, Reachable, QueuePart, QueuedInv, Line
    <3>3. PartsInv'
      BY PartsKept DEF LogTypes
    <3>4. TextInv'
      <4>1. Parts' = Parts /\ Redirected' = Redirected
        BY DEF Parts, Redirected
      <4> QED BY <4>1 DEF TextInv, Oss, Mixed
    <3> QED BY <3>1, <3>2, <3>3, <3>4
  <2> QED BY <2>1, <2>2, <2>3, <2>4 DEF Next
<1> QED BY <1>1, LoggerInit, PTL DEF Spec

(***************************************************************************)
(* LinesKept: the lines of a thread are in order and each there at most    *)
(* once, over the archives, the file and the queue; no line that was       *)
(* written is lost as long as no archive is replaced; and a line of a call *)
(* that had std::cout to itself says what the call said.                   *)
(***************************************************************************)
THEOREM LinesStay == Spec => []LinesKept
<1>1. LoggerInv => LinesKept
  <2> SUFFICES ASSUME LoggerInv PROVE LinesKept
    OBVIOUS
  <2>1. InOrder(Parts)
    BY DEF LoggerInv, PartsInv
  <2>2. ASSUME writable, ~overwritten, NEW line \in written
        PROVE  \E i \in DOMAIN Parts : Reachable(i) /\ line \in Lines(Parts[i])
    <3>1. PICK i \in DOMAIN Parts : line \in Lines(Parts[i])
      BY <2>2 DEF LoggerInv, PartsInv, Within
    <3>2. i \in DOMAIN content \/ i = QueuePart
      <4>1. /\ DOMAIN Parts = 1..Len(content) + 1 /\ Len(content) \in Nat
            /\ DOMAIN content = 1..Len(content)
        BY PartsAre DEF LoggerInv, LogTypes, Parts
      <4> QED BY <3>1, <4>1 DEF QueuePart
    <3>3. Reachable(i)
      BY <2>2, <3>2 DEF LoggerInv, ReachInv, Reachable
    <3> QED BY <3>1, <3>3
  <2>3. ASSUME NEW i \in DOMAIN Parts, NEW line \in Lines(Parts[i]), line[1] \in Threads, ~Mixed(line)
        PROVE  line[3] = <<<<line[1], line[2], "file">>>>
    <3>1. line \in Within(Parts)
      BY DEF Within
    <3> QED BY <2>3, <3>1 DEF LoggerInv, TextInv
  <2> QED BY <2>1, <2>2, <2>3 DEF LinesKept
<1> QED BY <1>1, LoggerInvariant, PTL
=============================================================================
