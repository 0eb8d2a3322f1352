----------------------------- MODULE ClientProofs -----------------------------
(* Client for any number of calls and message numbers of any length and      *)
(* radix: what CallMethod() tells its caller is true, but for a call whose   *)
(* read() was resumed for nothing, which timer events outlive their call, and *)
(* that genMsgNumber() counts.                                               *)
EXTENDS Client, NaturalsInduction, WellFoundedInduction, TLAPS

(* Message numbers.                                                          *)
LEMMA Least ==
  ASSUME NEW S \in SUBSET Nat, S # {}
  PROVE  \E m \in S : \A j \in S : m <= j
<1> DEFINE R == OpToRel(<, Nat)
<1>1. PICK m \in S : \A j \in S : <<j, m>> \notin R
  <2>1. IsWellFoundedOn(R, Nat)
    BY NatLessThanWellFounded
  <2> HIDE DEF R
  <2> QED BY <2>1, WFMin
<1>2. \A j \in S : ~ (j < m)
  BY <1>1 DEF OpToRel
<1> QED BY <1>2

\* V is what Value(nu) sums, up to digit n.
IsSum(V, nu, n) ==
  /\ V \in [0..n -> Int]
  /\ V[0] = 0
  /\ \A i \in 1..n : V[i] = V[i - 1] * Radix + nu[i]

LEMMA SumExists ==
  ASSUME NEW nu \in Numbers
  PROVE  \A n \in 0..Len_ : \E V : IsSum(V, nu, n)
<1> DEFINE S == {n \in 0..Len_ : \A V : ~IsSum(V, nu, n)}
<1> SUFFICES ASSUME S # {} PROVE FALSE
  OBVIOUS
<1>0. Len_ \in Nat /\ Len_ # 0 /\ Radix \in Nat /\ Radix # 0
  BY RadixAssumption
<1>1. PICK n \in S : \A j \in S : n <= j
  <2>1. S \in SUBSET Nat
    BY <1>0
  <2> HIDE DEF S
  <2> QED BY <2>1, Least
<1>2. n \in 0..Len_ /\ \A V : ~IsSum(V, nu, n)
  OBVIOUS
<1>3. CASE n = 0
  <2> DEFINE V == [i \in 0..0 |-> 0]
  <2>1. IsSum(V, nu, 0)
    BY DEF IsSum
  <2> HIDE DEF V
  <2> QED BY <1>2, <1>3, <2>1
<1>4. CASE n # 0
  <2>1. n - 1 \in 0..Len_ /\ n - 1 \notin S /\ n \in Nat /\ n \in 1..Len_
    BY <1>0, <1>1, <1>2, <1>4
  <2>2. PICK W : IsSum(W, nu, n - 1)
    BY <2>1
  <2> DEFINE V == [i \in 0..n |-> IF i = n THEN W[n - 1] * Radix + nu[n] ELSE W[i]]
  <2>3. nu[n] \in Int /\ W[n - 1] \in Int /\ W[n - 1] * Radix \in Int
    <3>1. nu[n] \in Int
      BY <1>0, <2>1 DEF Numbers
    <3>2. W[n - 1] \in Int
      BY <2>1, <2>2 DEF IsSum
    <3> QED BY <1>0, <3>1, <3>2
  <2>4. V \in [0..n -> Int]
    <3>1. \A i \in 0..n : i # n => W[i] \in Int
      BY <2>1, <2>2 DEF IsSum
    <3> QED BY <2>3, <3>1
  <2>5. V[0] = 0
    BY <2>1, <2>2 DEF IsSum
  <2>6. ASSUME NEW i \in 1..n PROVE V[i] = V[i - 1] * Radix + nu[i]
    <3>1. i - 1 \in 0..n /\ i - 1 # n /\ V[i - 1] = W[i - 1] /\ i \in 0..n
      BY <2>1
    <3>2. CASE i = n
      BY <3>1, <3>2
    <3>3. CASE i # n
      <4>1. i \in 1..(n - 1) /\ V[i] = W[i]
        BY <2>1, <3>1, <3>3
      <4>2. W[i] = W[i - 1] * Radix + nu[i]
        BY <2>2, <4>1 DEF IsSum
      <4> HIDE DEF V
      <4> QED BY <3>1, <4>1, <4>2
    <3> QED BY <3>2, <3>3
  <2>7. IsSum(V, nu, n)
    BY <2>4, <2>5, <2>6 DEF IsSum
  <2> HIDE DEF V
  <2> QED BY <1>2, <2>7
<1> QED BY <1>3, <1>4

LEMMA ValueIsSum ==
  ASSUME NEW nu \in Numbers
  PROVE  \E V : IsSum(V, nu, Len_) /\ Value(nu) = V[Len_]
<1>0. Len_ \in Nat /\ Len_ # 0
  BY RadixAssumption
<1> DEFINE F(V) == [i \in 0..Len_ |-> IF i = 0 THEN 0 ELSE V[i - 1] * Radix + nu[i]]
           U == CHOOSE V : V = F(V)
<1>1. Value(nu) = U[Len_]
  BY DEF Value
<1>2. PICK W : IsSum(W, nu, Len_)
  BY <1>0, SumExists
<1>3. W = F(W)
  BY <1>0, <1>2 DEF IsSum
<1>4. U = F(U)
  <2> HIDE DEF F
  <2> QED BY <1>3
<1>5. U = [i \in 0..Len_ |-> IF i = 0 THEN 0 ELSE U[i - 1] * Radix + nu[i]]
  <2> HIDE DEF U
  <2> QED BY <1>4
<1> HIDE DEF U
<1>6. U[0] = 0 /\ \A i \in 1..Len_ : U[i] = U[i - 1] * Radix + nu[i]
  BY <1>0, <1>5
<1>7. \A i \in 0..Len_ : U[i] = W[i]
  <2> DEFINE S == {i \in 0..Len_ : U[i] # W[i]}
  <2> SUFFICES ASSUME S # {} PROVE FALSE
    OBVIOUS
  <2>1. PICK i \in S : \A j \in S : i <= j
    <3>1. S \in SUBSET Nat
      BY <1>0
    <3> HIDE DEF S
    <3> QED BY <3>1, Least
  <2>2. i \in 0..Len_ /\ U[i] # W[i]
    OBVIOUS
  <2>3. i # 0
    BY <1>2, <1>6, <2>2 DEF IsSum
  <2>4. i \in 1..Len_ /\ i - 1 \in 0..Len_ /\ i - 1 \notin S
    BY <1>0, <2>1, <2>2, <2>3
  <2>5. U[i - 1] = W[i - 1]
    BY <2>4
  <2> HIDE DEF S
  <2> QED BY <1>2, <1>6, <2>2, <2>4, <2>5 DEF IsSum
<1>8. U = [i \in 0..Len_ |-> U[i]]
  BY <1>5
<1>9. W = [i \in 0..Len_ |-> W[i]]
  BY <1>2 DEF IsSum
<1>10. U = W
  BY <1>7, <1>8, <1>9
<1> QED BY <1>1, <1>2, <1>10

(* The digit that genMsgNumber() counts up.                                  *)
LEMMA ToIncrementIs ==
  ASSUME NEW nu \in Numbers, nu # AllMax
  PROVE  /\ ToIncrement(nu) \in 1..Len_
         /\ nu[ToIncrement(nu)] # Radix - 1
         /\ \A j \in ToIncrement(nu) + 1..Len_ : nu[j] = Radix - 1
<1>0. Len_ \in Nat /\ Len_ # 0
  BY RadixAssumption
<1> DEFINE S == {d \in 0..Len_ - 1 : nu[Len_ - d] # Radix - 1}
<1>1. S # {}
  <2>1. PICK i \in 1..Len_ : nu[i] # Radix - 1
    BY DEF Numbers, AllMax
  <2>2. Len_ - i \in 0..Len_ - 1 /\ Len_ - (Len_ - i) = i
    BY <1>0
  <2> QED BY <2>1, <2>2
<1>2. PICK d \in S : \A j \in S : d <= j
  <2>1. S \in SUBSET Nat
    BY <1>0
  <2> HIDE DEF S
  <2> QED BY <1>1, <2>1, Least
<1> DEFINE t == Len_ - d
<1>3. t \in 1..Len_ /\ nu[t] # Radix - 1
  BY <1>0, <1>2
<1>4. ASSUME NEW j \in t + 1..Len_ PROVE nu[j] = Radix - 1
  <2>1. Len_ - j \in 0..Len_ - 1 /\ Len_ - (Len_ - j) = j /\ Len_ - j < d
    BY <1>0, <1>2
  <2>2. Len_ - j \notin S
    <3> HIDE DEF S
    <3>1. d \in Nat
      BY <1>0, <1>2 DEF S
    <3> QED BY <1>0, <1>2, <2>1, <3>1
  <2> QED BY <2>1, <2>2
<1> HIDE DEF t
<1> QED BY <1>3, <1>4 DEF ToIncrement

LEMMA IncrementedIsNumber ==
  ASSUME NEW nu \in Numbers, nu # AllMax
  PROVE  Incremented(nu) \in Numbers
<1> DEFINE t == ToIncrement(nu)
<1>1. t \in 1..Len_ /\ nu[t] # Radix - 1
  BY ToIncrementIs
<1>2. Len_ \in Nat /\ Radix \in Nat /\ Radix # 0
  BY RadixAssumption
<1>3. \A j \in 1..Len_ : nu[j] \in 0..Radix - 1
  BY DEF Numbers
<1> HIDE DEF t
<1>4. nu[t] + 1 \in 0..Radix - 1
  BY <1>1, <1>2, <1>3
<1>5. 0 \in 0..Radix - 1
  BY <1>2
<1> QED BY <1>3, <1>4, <1>5 DEF Incremented, Numbers, t

(* It is one more.                                                           *)
LEMMA IncrementedCounts ==
  ASSUME NEW nu \in Numbers, nu # AllMax
  PROVE  Value(Incremented(nu)) = Value(nu) + 1
<1> DEFINE t == ToIncrement(nu)
           up == Incremented(nu)
<1>0. Len_ \in Nat /\ Len_ # 0 /\ Radix \in Nat /\ Radix # 0
  BY RadixAssumption
<1>1. t \in 1..Len_ /\ \A j \in t + 1..Len_ : nu[j] = Radix - 1
  BY ToIncrementIs
<1>2. \A j \in 1..Len_ : up[j] = IF j < t THEN nu[j] ELSE IF j = t THEN nu[j] + 1 ELSE 0
  BY DEF Incremented
<1>3. up \in Numbers
  BY IncrementedIsNumber
<1>4. PICK V : IsSum(V, nu, Len_) /\ Value(nu) = V[Len_]
  BY ValueIsSum
<1>5. PICK W : IsSum(W, up, Len_) /\ Value(up) = W[Len_]
  BY <1>3, ValueIsSum
<1> HIDE DEF t, up
<1>6. /\ V \in [0..Len_ -> Int] /\ W \in [0..Len_ -> Int]
      /\ V[0] = 0 /\ W[0] = 0
      /\ \A i \in 1..Len_ : V[i] = V[i - 1] * Radix + nu[i]
      /\ \A i \in 1..Len_ : W[i] = W[i - 1] * Radix + up[i]
  BY <1>4, <1>5 DEF IsSum
<1>7. \A i \in 1..Len_ : nu[i] \in Int
  BY <1>0 DEF Numbers
<1> DEFINE S == {i \in 0..Len_ : W[i] # IF i < t THEN V[i] ELSE V[i] + 1}
<1>8. S = {}
  <2> SUFFICES ASSUME S # {} PROVE FALSE
    OBVIOUS
  <2>1. PICK i \in S : \A j \in S : i <= j
    <3>1. S \in SUBSET Nat
      BY <1>0
    <3> HIDE DEF S
    <3> QED BY <3>1, Least
  <2>2. i \in 0..Len_ /\ W[i] # IF i < t THEN V[i] ELSE V[i] + 1
    OBVIOUS
  <2>3. i # 0
    BY <1>1, <1>6, <2>2
  <2>4. i \in 1..Len_ /\ i - 1 \in 0..Len_ /\ i - 1 \notin S
    BY <1>0, <2>1, <2>2, <2>3
  <2>5. W[i - 1] = IF i - 1 < t THEN V[i - 1] ELSE V[i - 1] + 1
    BY <2>4
  <2>6. /\ V[i] = V[i - 1] * Radix + nu[i]
        /\ W[i] = W[i - 1] * Radix + up[i]
    BY <1>6, <2>4
  <2>7. V[i - 1] \in Int /\ V[i] \in Int /\ nu[i] \in Int /\ i \in Int /\ t \in Int
    <3>1. V \in [0..Len_ -> Int]
      BY <1>6
    <3>2. nu[i] \in Int /\ i \in Int /\ t \in Int
      BY <1>0, <1>1, <1>7, <2>4
    <3> QED BY <2>2, <2>4, <3>1, <3>2
  <2> HIDE DEF S
  <2>8. CASE i < t
    <3>1. up[i] = nu[i] /\ W[i - 1] = V[i - 1]
      BY <1>2, <2>4, <2>5, <2>7, <2>8
    <3>2. W[i] = V[i]
      BY <2>6, <3>1
    <3> QED BY <2>2, <2>8, <3>2
  <2>9. CASE i = t
    <3>1. up[i] = nu[i] + 1 /\ W[i - 1] = V[i - 1]
      BY <1>2, <2>4, <2>5, <2>7, <2>9
    <3>2. V[i - 1] * Radix \in Int
      BY <1>0, <2>7
    <3>3. W[i] = V[i] + 1
      <4> DEFINE p == V[i - 1] * Radix
      <4>1. p \in Int /\ V[i] = p + nu[i] /\ W[i] = p + (nu[i] + 1)
        BY <2>6, <3>1, <3>2
      <4> HIDE DEF p
      <4> QED BY <2>7, <4>1
    <3> QED BY <2>2, <2>7, <2>9, <3>3
  <2>10. CASE i > t
    <3>1. up[i] = 0 /\ W[i - 1] = V[i - 1] + 1 /\ nu[i] = Radix - 1
      BY <1>1, <1>2, <2>4, <2>5, <2>7, <2>10
    <3>2. V[i - 1] * Radix \in Int /\ (V[i - 1] + 1) * Radix = V[i - 1] * Radix + Radix
      BY <1>0, <2>7
    <3>3. W[i] = V[i] + 1
      <4> DEFINE p == V[i - 1] * Radix
      <4>1. p \in Int /\ V[i] = p + (Radix - 1) /\ W[i] = (p + Radix) + 0
        BY <2>6, <3>1, <3>2
      <4> HIDE DEF p
      <4> QED BY <1>0, <4>1
    <3> QED BY <2>2, <2>7, <2>10, <3>3
  <2> QED BY <2>7, <2>8, <2>9, <2>10
<1>9. W[Len_] = V[Len_] + 1
  <2>1. Len_ \in 0..Len_ /\ ~(Len_ < t)
    BY <1>0, <1>1
  <2> QED BY <1>8, <2>1
<1> QED BY <1>4, <1>5, <1>9 DEF up

-----------------------------------------------------------------------------
(* The calls.                                                                *)
LEMMA ClientInit == Init => ClientInv
<1> SUFFICES ASSUME Init PROVE ClientInv
  OBVIOUS
<1>1. call = 0 /\ 0 \in 0..MaxCalls /\ \A k \in Calls : k > 0
  BY CallsAssumption DEF Init, Calls
<1>2. TypeOK
  BY <1>1 DEF Init, TypeOK, Waits
<1>3. ServerInv /\ CallInv /\ TimersEnd
  BY <1>1 DEF Init, ServerInv, CallInv, TimersEnd
<1> QED BY <1>2, <1>3 DEF ClientInv

\* delTimerEvent() leaves no trace of the event, and adds none.
LEMMA DeleteIs ==
  ASSUME NEW e, Delete(e)
  PROVE  timers' \subseteq timers /\ e \notin timers'
BY DEF Delete, Left

(* The steps of the network and the server.                                  *)
LEMMA NetworkStep ==
  ASSUME ClientInv, NEW k \in Calls,
         Answers(k) \/ Drains(k) \/ Executes(k) \/ Closes(k)
  PROVE  ClientInv'
<1> USE DEF ClientInv
<1>1. /\ UNCHANGED <<asserts, call, pc, is_timeout, connect_timeout, over_time, blocking, taken>>
      /\ UNCHANGED <<t_msg_req_nu, timers, due, loop, active, outcome, cut>>
  BY DEF Answers, Drains, Executes, Closes, codeVars, timerVars, loopVars
<1>2. CASE Executes(k)
  <2> USE DEF TypeOK
  <2>1. /\ request[k] = "sent" /\ request' = [request EXCEPT ![k] = "executed"] /\ link' = link
        /\ executed[k] = 0 /\ reply[k] = "no"
    BY <1>2 DEF Executes, ServerInv
  <2>2. PICK r \in {"no", "ok", "error", "unserialized"}, n \in {0, 1} :
           /\ reply' = [reply EXCEPT ![k] = r] /\ executed' = [executed EXCEPT ![k] = n]
           /\ (r = "ok" => n = 1) /\ (r = "error" => n = 0)
    <3>1. CASE /\ executed' = [executed EXCEPT ![k] = executed[k] + 1]
               /\ reply' \in {[reply EXCEPT ![k] = r] : r \in {"no", "ok", "unserialized"}}
      <4>1. executed' = [executed EXCEPT ![k] = 1]
        BY <2>1, <3>1
      <4> QED BY <3>1, <4>1
    <3>2. CASE /\ executed' = executed
               /\ reply' \in {[reply EXCEPT ![k] = r] : r \in {"error", "unserialized"}}
      <4>1. executed' = [executed EXCEPT ![k] = 0]
        BY <2>1, <3>2
      <4> QED BY <3>2, <4>1
    <3> QED BY <1>2, <3>1, <3>2 DEF Executes
  <2>3. /\ request'[k] = "executed" /\ reply'[k] = r /\ executed'[k] = n
        /\ \A j \in Calls : j # k =>
             request'[j] = request[j] /\ reply'[j] = reply[j] /\ executed'[j] = executed[j]
    BY <2>1, <2>2
  <2>4. TypeOK'
    BY <1>1, <2>1, <2>2
  <2>5. ServerInv'
    BY <2>2, <2>3 DEF ServerInv
  <2>6. outcome[k] \notin {"ok", "error", "connect_sys_err"}
        /\ (outcome[k] = "peer_closed" => link[k] = "down" \/ k \in cut)
        /\ ~(k > call \/ (k = call /\ pc \in Unsent))
    BY <2>1 DEF CallInv
  <2>7. CallInv'
    BY <1>1, <2>1, <2>3, <2>6 DEF CallInv
  <2>8. TimersEnd'
    BY <1>1, <2>1 DEF TimersEnd
  <2> QED BY <2>4, <2>5, <2>7, <2>8
<1>3. CASE Answers(k) \/ Closes(k)
  <2>1. /\ UNCHANGED <<request, executed, reply>>
        /\ link' \in [Calls -> {"none", "trying", "refused", "up", "down"}]
        /\ \A j \in Calls : link[j] = "down" => link'[j] = "down"
    BY <1>3 DEF Answers, Closes, serverVars, TypeOK
  <2>2. TypeOK'
    BY <1>1, <2>1 DEF TypeOK
  <2>3. ServerInv'
    BY <2>1 DEF ServerInv
  <2>4. CallInv'
    BY <1>1, <2>1 DEF CallInv, TypeOK
  <2>5. TimersEnd'
    BY <1>1, <2>1 DEF TimersEnd
  <2> QED BY <2>2, <2>3, <2>4, <2>5
<1>4. CASE Drains(k)
  <2>1. /\ UNCHANGED <<link, executed, reply>> /\ request[k] = "part"
        /\ request' = [request EXCEPT ![k] = "room"]
    BY <1>4 DEF Drains
  <2>2. TypeOK'
    BY <1>1, <2>1 DEF TypeOK
  <2>3. \A j \in Calls : (request'[j] = "no" <=> request[j] = "no")
                         /\ (request'[j] = "executed" <=> request[j] = "executed")
    BY <2>1 DEF TypeOK
  <2>4. ServerInv'
    BY <2>1, <2>3 DEF ServerInv
  <2>5. CallInv'
    BY <1>1, <2>1, <2>3 DEF CallInv
  <2>6. TimersEnd'
    BY <1>1, <2>1 DEF TimersEnd
  <2> QED BY <2>2, <2>4, <2>5, <2>6
<1> QED BY <1>2, <1>3, <1>4

(* The loop: what it resumes goes on behind its wait.                        *)
LEMMA LoopStep == ASSUME ClientInv, Loop PROVE ClientInv'
<1> USE DEF ClientInv
<1>1. UNCHANGED <<asserts, call, t_msg_req_nu, blocking, taken, link, request, executed, reply,
                  outcome, cut>>
  BY DEF Loop, FdEvent, OnTimer, RunTimer, RunActive, codeVars, serverVars
<1>2. pc \in Waits
  BY DEF Loop, FdEvent, Ready, OnTimer, RunTimer, RunActive, Waits
<1>3. pc' \in {pc, After(pc), "undefined"}
  BY DEF Loop, FdEvent, OnTimer, RunTimer, RunActive, TimerTo
<1>4. /\ pc' \in Waits \cup {"waited", "resend", "reread", "undefined"}
      /\ pc' \in Unsent => pc \in Unsent
      /\ pc' \notin {"idle", "undefined"} => pc \notin {"idle", "undefined"}
      /\ pc = "connecting" => pc' \in {"connecting", "waited", "undefined"}
  BY <1>2, <1>3 DEF Waits, After, Unsent
<1>5. timers' \subseteq timers /\ due' \subseteq due \cup timers
  BY DEF Loop, FdEvent, OnTimer, RunTimer, RunActive, timerVars
<1>6. /\ is_timeout' \in BOOLEAN /\ over_time' \in BOOLEAN /\ connect_timeout' \in BOOLEAN
      /\ loop' \in {"poll", "timer"} /\ active' \in BOOLEAN
  BY DEF Loop, FdEvent, OnTimer, RunTimer, RunActive, codeVars, TypeOK
<1>7. TypeOK'
  <2>1. /\ timers' \subseteq {"call", "connect"} \X (1..call)
        /\ due' \subseteq {"call", "connect"} \X (1..call)
    BY <1>5 DEF TypeOK
  <2> QED BY <1>1, <1>4, <1>6, <2>1 DEF TypeOK
<1>8. ServerInv'
  BY <1>1 DEF ServerInv
<1>9. /\ over_time' => is_timeout'
      /\ is_timeout' \/ <<"call", call>> \in due' => <<"call", call>> \notin timers'
  <2>1. CASE OnTimer
    BY <2>1 DEF OnTimer, codeVars, CallInv
  <2>2. CASE FdEvent \/ RunActive
    BY <2>2 DEF FdEvent, RunActive, codeVars, timerVars, CallInv
  <2>3. CASE \E e \in Events : RunTimer(e)
    <3>1. PICK e \in Events : RunTimer(e)
      BY <2>3
    <3>2. e \in due /\ due' = due \ {e} /\ timers' = timers
      BY <3>1 DEF RunTimer, timerVars
    <3>3. \/ e = <<"call", call>> /\ is_timeout' = TRUE
          \/ UNCHANGED <<is_timeout, over_time>>
      BY <3>1 DEF RunTimer
    <3> QED BY <3>2, <3>3 DEF CallInv
  <2> QED BY <2>1, <2>2, <2>3 DEF Loop
<1>10. CallInv'
  <2>1. pc' \notin {"idle", "undefined"} => call' \in Calls
    BY <1>1, <1>4 DEF CallInv
  <2>2. pc' # "err_deal"
    BY <1>4 DEF Waits
  <2>3. ASSUME NEW k \in Calls
        PROVE  /\ k > call \/ (k = call /\ pc' \in Unsent) => request[k] = "no"
               /\ k > call \/ (k = call /\ pc' \notin {"idle", "undefined"}) => outcome[k] = "none"
    BY <1>4 DEF CallInv
  <2> QED BY <1>1, <1>9, <2>1, <2>2, <2>3 DEF CallInv
<1>11. TimersEnd'
  <2>1. ASSUME NEW k \in Calls, <<"connect", k>> \in timers'
        PROVE  k = call /\ pc' \in {"connecting", "waited", "undefined"}
    <3>1. k = call /\ pc = "connecting"
      BY <1>2, <1>5, <2>1 DEF TimersEnd, Waits
    <3> QED BY <1>4, <3>1
  <2>2. \A k \in Calls : <<"call", k>> \in timers' => <<"call", k>> \in timers
    BY <1>5
  <2> QED BY <1>1, <2>1, <2>2 DEF TimersEnd
<1> QED BY <1>7, <1>8, <1>10, <1>11

(* The coroutine goes on in its call.                                        *)
LEMMA ProceedStep ==
  ASSUME ClientInv,
         InProgress \/ AtOnce \/ OtherError \/ Waited \/ Connected \/ Output \/ Resend
           \/ Fills \/ ReadWaits \/ ReadFails \/ (NotConnected /\ outcome' = outcome)
  PROVE  ClientInv'
<1> USE DEF ClientInv
<1>1. call \in Calls /\ pc \notin {"idle", "undefined"} /\ outcome[call] = "none"
  <2>1. pc \in {"connect", "waited", "reconnect", "connected", "resend", "read", "reread"}
    BY DEF InProgress, AtOnce, OtherError, Waited, Connected, Output, Resend, Fills, ReadWaits,
           ReadFails, NotConnected
  <2> QED BY <2>1 DEF CallInv
<1>2. /\ UNCHANGED <<asserts, call, t_msg_req_nu, is_timeout, over_time>>
      /\ UNCHANGED <<due, loop, active, executed, reply, outcome>>
  BY DEF InProgress, AtOnce, OtherError, Waited, Connected, Output, Resend, Fills, ReadWaits,
         ReadFails, NotConnected, codeVars, loopVars, serverVars
<1>3. connect_timeout' \in BOOLEAN /\ blocking' \in BOOLEAN /\ taken' \in BOOLEAN
  BY DEF InProgress, AtOnce, OtherError, Waited, Connected, Output, Resend, Fills, ReadWaits,
         ReadFails, NotConnected, codeVars, TypeOK
<1>4. /\ timers' \subseteq timers \/ timers' = timers \cup {<<"connect", call>>}
      /\ <<"connect", call>> \in timers' => pc' = "connecting"
      /\ <<"call", call>> \in timers' => <<"call", call>> \in timers
      /\ \A k \in Calls \ {call} : <<"connect", k>> \notin timers'
      /\ \A k \in Calls : <<"call", k>> \in timers' => <<"call", k>> \in timers
  <2>1. \A k \in Calls : <<"connect", k>> \in timers => k = call /\ pc = "waited"
    <3>1. pc # "connecting" /\ pc # "undefined"
      BY DEF InProgress, AtOnce, OtherError, Waited, Connected, Output, Resend, Fills, ReadWaits,
             ReadFails, NotConnected
    <3> QED BY <3>1 DEF TimersEnd
  <2>2. CASE InProgress
    BY <1>1, <2>1, <2>2 DEF InProgress
  <2>3. CASE Waited
    <3>1. timers' \subseteq timers /\ <<"connect", call>> \notin timers'
      BY <2>3, DeleteIs DEF Waited
    <3> QED BY <2>1, <3>1
  <2>4. CASE ~InProgress /\ ~Waited
    <3>1. timers' = timers /\ pc # "waited"
      <4>1. CASE NotConnected /\ outcome' = outcome
        <5>1. CASE link[call] = "refused" /\ ~is_timeout /\ ~connect_timeout
          <6>1. outcome'[call] = "peer_closed"
            BY <1>1, <4>1, <5>1 DEF NotConnected, Ends, Returns, TypeOK
          <6> QED BY <1>1, <4>1, <6>1
        <5>2. CASE ~(link[call] = "refused" /\ ~is_timeout /\ ~connect_timeout)
          BY <4>1, <5>2 DEF NotConnected, timerVars
        <5> QED BY <5>1, <5>2
      <4> QED BY <2>4, <4>1 DEF AtOnce, OtherError, Connected, Output, Resend, Fills, ReadWaits,
                                ReadFails, timerVars
    <3> QED BY <1>1, <2>1, <3>1
  <2> QED BY <2>2, <2>3, <2>4
<1>5. /\ link' \in [Calls -> {"none", "trying", "refused", "up", "down"}]
      /\ \A k \in Calls : k # call => link'[k] = link[k]
      /\ pc \in {"resend", "read", "reread"} => link' = link
  BY <1>1 DEF InProgress, AtOnce, OtherError, Waited, Connected, Output, Resend, Fills, ReadWaits,
              ReadFails, NotConnected, TypeOK, Ends, Returns
<1>6. /\ request' \in [Calls -> {"no", "part", "room", "sent", "executed"}]
      /\ \A k \in Calls : k # call => request'[k] = request[k]
      /\ request[call] = "executed" => request'[call] = "executed"
      /\ request'[call] = "executed" => request[call] = "executed"
      /\ pc' \in Unsent => pc \in Unsent /\ request'[call] = request[call]
  <2>1. CASE Output
    <3>1. request[call] = "no" /\ pc' \notin Unsent
      BY <2>1 DEF Output, CallInv, Unsent
    <3> QED BY <1>1, <2>1, <3>1 DEF Output, TypeOK
  <2>2. CASE Resend
    <3>1. pc' \notin Unsent
      BY <2>2 DEF Resend, Unsent
    <3> QED BY <1>1, <2>2, <3>1 DEF Resend, TypeOK
  <2>3. CASE ~Output /\ ~Resend
    <3>1. request' = request
      BY <2>3 DEF InProgress, AtOnce, OtherError, Waited, Connected, Fills, ReadWaits, ReadFails,
                  NotConnected, serverVars
    <3>2. pc' \in Unsent => pc \in Unsent
      BY <2>3 DEF InProgress, AtOnce, OtherError, Waited, Connected, Fills, ReadWaits, ReadFails,
                  NotConnected, Unsent
    <3> QED BY <3>1, <3>2 DEF TypeOK
  <2> QED BY <2>1, <2>2, <2>3
<1>7. /\ pc' \in Waits \cup {"connect", "waited", "reconnect", "connected", "resend", "read",
                              "reread", "err_deal"}
      /\ cut \subseteq cut'
      /\ pc' = "err_deal" => is_timeout \/ link'[call] = "down" \/ call \in cut'
      /\ \A k \in Calls : k # call => (k \in cut' => k \in cut)
  <2>1. CASE ReadFails
    <3>1. link' = link /\ pc' = "err_deal"
      BY <2>1 DEF ReadFails
    <3>2. over_time => is_timeout
      BY DEF CallInv
    <3> QED BY <2>1, <3>1, <3>2 DEF ReadFails
  <2>2. CASE NotConnected /\ outcome' = outcome
    <3>1. CASE link[call] = "refused" /\ ~is_timeout /\ ~connect_timeout
      <4>1. outcome'[call] = "peer_closed"
        BY <1>1, <2>2, <3>1 DEF NotConnected, Ends, Returns, TypeOK
      <4> QED BY <1>1, <2>2, <4>1
    <3>2. CASE ~(link[call] = "refused" /\ ~is_timeout /\ ~connect_timeout)
      BY <2>2, <3>2 DEF NotConnected
    <3> QED BY <3>1, <3>2
  <2>3. CASE Output \/ Resend
    <3>1. cut' = cut /\ pc' \in {"err_deal", "read", "sending"} /\ (pc' = "err_deal" => over_time)
      BY <2>3 DEF Output, Resend
    <3>2. over_time => is_timeout
      BY DEF CallInv
    <3> QED BY <3>1, <3>2 DEF Waits
  <2>4. CASE InProgress \/ AtOnce \/ OtherError \/ Waited \/ Connected \/ Fills \/ ReadWaits
    BY <2>4 DEF InProgress, AtOnce, OtherError, Waited, Connected, Fills, ReadWaits, Waits
  <2> QED BY <2>1, <2>2, <2>3, <2>4
<1>8. TypeOK'
  <2>1. call \in 1..call
    BY <1>1, CallsAssumption DEF Calls
  <2>2. timers' \subseteq {"call", "connect"} \X (1..call)
    BY <1>4, <2>1 DEF TypeOK
  <2> QED BY <1>2, <1>3, <1>5, <1>6, <1>7, <2>2 DEF TypeOK
<1>9. ServerInv'
  BY <1>1, <1>2, <1>6 DEF ServerInv
<1>10. CallInv'
  <2>1. ASSUME NEW k \in Calls
        PROVE  /\ k > call \/ (k = call /\ pc' \in Unsent) => request'[k] = "no"
               /\ k > call \/ (k = call /\ pc' \notin {"idle", "undefined"}) => outcome[k] = "none"
               /\ outcome[k] \in {"ok", "error"} => reply[k] = outcome[k]
               /\ outcome[k] = "connect_sys_err" => request'[k] = "no"
               /\ outcome[k] = "peer_closed" => request'[k] = "no" \/ link'[k] = "down" \/ k \in cut'
    <3>1. CASE k = call
      <4>1. ~(k > call)
        BY <3>1, CallsAssumption DEF Calls
      <4> QED BY <1>1, <1>6, <3>1, <4>1 DEF CallInv
    <3>2. CASE k # call
      BY <1>5, <1>6, <1>7, <3>2 DEF CallInv
    <3> QED BY <3>1, <3>2
  <2>2. is_timeout \/ <<"call", call>> \in due => <<"call", call>> \notin timers'
    BY <1>4 DEF CallInv
  <2> QED BY <1>1, <1>2, <1>7, <2>1, <2>2 DEF CallInv
<1>11. TimersEnd'
  <2> SUFFICES ASSUME NEW k \in Calls
               PROVE  /\ <<"call", k>> \in timers' /\ outcome[k] # "none" =>
                           ~asserts /\ outcome[k] = "peer_closed" /\ (link'[k] = "down" \/ k \in cut')
                      /\ <<"connect", k>> \in timers' =>
                           k = call /\ pc' \in {"connecting", "waited", "undefined"}
    BY <1>2 DEF TimersEnd
  <2>1. CASE k = call
    BY <1>1, <1>4, <2>1
  <2>2. CASE k # call
    BY <1>4, <1>5, <1>7, <2>2 DEF TimersEnd
  <2> QED BY <2>1, <2>2
<1> QED BY <1>8, <1>9, <1>10, <1>11

(* The call ends.                                                            *)
LEMMA ReturnStep ==
  ASSUME ClientInv,
         Refused \/ GetReply \/ ErrDeal \/ (NotConnected /\ outcome' # outcome)
  PROVE  ClientInv'
<1> USE DEF ClientInv
<1>1. /\ call \in Calls /\ outcome[call] = "none"
      /\ pc \in {"connect", "reconnect", "read", "reread", "err_deal"}
  <2>1. pc \in {"connect", "reconnect", "read", "reread", "err_deal"}
    BY DEF Refused, GetReply, ErrDeal, NotConnected
  <2> QED BY <2>1 DEF CallInv
<1>2. /\ UNCHANGED <<asserts, call, t_msg_req_nu, is_timeout, taken, due, loop, active>>
      /\ UNCHANGED <<request, executed, reply, cut>>
  BY DEF Refused, GetReply, ErrDeal, NotConnected, codeVars, loopVars, serverVars
<1>3. CASE NotConnected /\ outcome' # outcome
  <2>1. /\ Ends("peer_closed") /\ UNCHANGED <<blocking, link, over_time>>
        /\ connect_timeout' = FALSE /\ pc = "reconnect"
    BY <1>3 DEF NotConnected
  <2>2. request[call] = "no"
    BY <1>1, <2>1 DEF CallInv, Unsent
  <2> QED
    <3>1. timers' \subseteq timers /\ <<"call", call>> \notin timers'
      BY <2>1, DeleteIs DEF Ends
    <3>2. outcome' = [outcome EXCEPT ![call] = "peer_closed"] /\ pc' = "idle"
      BY <2>1 DEF Ends, Returns
    <3>3. TypeOK'
      <4>1. timers' \subseteq {"call", "connect"} \X (1..call)
        BY <3>1 DEF TypeOK
      <4> QED BY <1>1, <1>2, <2>1, <3>2, <4>1 DEF TypeOK, Waits
    <3>4. ServerInv'
      BY <1>2 DEF ServerInv
    <3>5. CallInv'
      BY <1>1, <1>2, <2>1, <2>2, <3>1, <3>2 DEF CallInv, Unsent, TypeOK
    <3>6. TimersEnd'
      BY <1>1, <1>2, <2>1, <3>1, <3>2 DEF TimersEnd, TypeOK
    <3> QED BY <3>3, <3>4, <3>5, <3>6
<1>4. CASE Refused
  <2>1. PICK result \in {"peer_closed", "connect_sys_err"} : Ends(result)
    BY <1>4 DEF Refused
  <2>2. /\ pc = "connect" /\ UNCHANGED <<blocking, connect_timeout, over_time>>
        /\ link' \in [Calls -> {"none", "trying", "refused", "up", "down"}]
        /\ \A k \in Calls : k # call => link'[k] = link[k]
    BY <1>1, <1>4 DEF Refused, codeVars, TypeOK
  <2>3. request[call] = "no"
    BY <1>1, <2>2 DEF CallInv, Unsent
  <2>4. timers' \subseteq timers /\ <<"call", call>> \notin timers'
    BY <2>1, DeleteIs DEF Ends
  <2>5. outcome' = [outcome EXCEPT ![call] = result] /\ pc' = "idle"
    BY <2>1 DEF Ends, Returns
  <2>6. TypeOK'
    <3>1. timers' \subseteq {"call", "connect"} \X (1..call)
      BY <2>4 DEF TypeOK
    <3> QED BY <1>1, <1>2, <2>2, <2>5, <3>1 DEF TypeOK, Waits
  <2>7. ServerInv'
    BY <1>2 DEF ServerInv
  <2>8. CallInv'
    BY <1>1, <1>2, <2>2, <2>3, <2>4, <2>5 DEF CallInv, Unsent, TypeOK
  <2>9. TimersEnd'
    BY <1>1, <1>2, <2>2, <2>4, <2>5 DEF TimersEnd, TypeOK
  <2> QED BY <2>6, <2>7, <2>8, <2>9
<1>5. CASE GetReply
  <2>1. PICK result \in {Told, "failed_deserialize"} : Ends(result)
    BY <1>5 DEF GetReply
  <2>2. /\ pc \in {"read", "reread"} /\ UNCHANGED <<blocking, connect_timeout, over_time, link>>
        /\ reply[call] # "no"
    BY <1>5 DEF GetReply, Arrived, codeVars
  <2>3. Told = reply[call] /\ Told \in {"ok", "error", "unserialized"}
    BY <1>1, <2>2 DEF Told, TypeOK
  <2>4. timers' \subseteq timers /\ <<"call", call>> \notin timers'
    BY <2>1, DeleteIs DEF Ends
  <2>5. outcome' = [outcome EXCEPT ![call] = result] /\ pc' = "idle"
    BY <2>1 DEF Ends, Returns
  <2>6. TypeOK'
    <3>1. timers' \subseteq {"call", "connect"} \X (1..call)
      BY <2>4 DEF TypeOK
    <3> QED BY <1>1, <1>2, <2>1, <2>2, <2>3, <2>5, <3>1 DEF TypeOK, Waits
  <2>7. ServerInv'
    BY <1>2 DEF ServerInv
  <2>8. CallInv'
    BY <1>1, <1>2, <2>1, <2>2, <2>3, <2>4, <2>5 DEF CallInv, Unsent, TypeOK
  <2>9. TimersEnd'
    BY <1>1, <1>2, <2>2, <2>4, <2>5 DEF TimersEnd, TypeOK
  <2> QED BY <2>6, <2>7, <2>8, <2>9
<1>6. CASE ErrDeal
  <2>1. /\ pc = "err_deal" /\ UNCHANGED <<blocking, connect_timeout, link, timers>>
        /\ over_time' = (over_time /\ ~is_timeout)
    BY <1>6 DEF ErrDeal, codeVars, timerVars
  <2>2. over_time' = FALSE
    BY <2>1 DEF CallInv, TypeOK
  <2>3. CASE asserts
    <3>1. pc' = "aborted" /\ outcome' = outcome
      BY <1>6, <2>3 DEF ErrDeal
    <3>2. TypeOK'
      BY <1>2, <2>1, <2>2, <3>1 DEF TypeOK
    <3>3. ServerInv'
      BY <1>2 DEF ServerInv
    <3>4. CallInv'
      BY <1>1, <1>2, <2>1, <2>2, <3>1 DEF CallInv, Unsent
    <3>5. TimersEnd'
      BY <1>2, <2>1, <3>1 DEF TimersEnd
    <3> QED BY <3>2, <3>3, <3>4, <3>5
  <2>4. CASE ~asserts
    <3>1. PICK result \in {"timeout", "peer_closed"} :
             Returns(result) /\ (result = "timeout" <=> is_timeout)
      BY <1>6, <2>4 DEF ErrDeal
    <3>2. outcome' = [outcome EXCEPT ![call] = result] /\ pc' = "idle"
      BY <3>1 DEF Returns
    <3>3. /\ is_timeout => <<"call", call>> \notin timers
          /\ result = "peer_closed" => link[call] = "down" \/ call \in cut
      BY <2>1, <3>1 DEF CallInv
    <3>4. TypeOK'
      BY <1>1, <1>2, <2>1, <2>2, <3>2 DEF TypeOK, Waits
    <3>5. ServerInv'
      BY <1>2 DEF ServerInv
    <3>6. CallInv'
      BY <1>1, <1>2, <2>1, <2>2, <3>2, <3>3 DEF CallInv, Unsent, TypeOK
    <3>7. TimersEnd'
      BY <1>1, <1>2, <2>1, <2>4, <3>1, <3>2, <3>3 DEF TimersEnd, TypeOK
    <3> QED BY <3>4, <3>5, <3>6, <3>7
  <2> QED BY <2>3, <2>4
<1> QED BY <1>3, <1>4, <1>5, <1>6

LEMMA NumbersTyped ==
  ASSUME TypeOK, t_msg_req_nu' \in genMsgNumber
  PROVE  /\ t_msg_req_nu' \in Numbers
         /\ t_msg_req_nu \notin {<<>>, AllMax} => t_msg_req_nu' = Incremented(t_msg_req_nu)
<1>1. CASE t_msg_req_nu \in {<<>>, AllMax}
  BY <1>1 DEF genMsgNumber
<1>2. CASE t_msg_req_nu \notin {<<>>, AllMax}
  <2>1. t_msg_req_nu \in Numbers
    BY <1>2 DEF TypeOK
  <2> QED BY <1>2, <2>1, IncrementedIsNumber DEF genMsgNumber
<1> QED BY <1>1, <1>2

LEMMA CallStep == ASSUME ClientInv, Call PROVE ClientInv'
<1> USE DEF ClientInv
<1>1. /\ call < MaxCalls /\ call' = call + 1 /\ pc' = "connect" /\ pc = "idle"
      /\ is_timeout' = FALSE /\ over_time' = FALSE /\ blocking' = FALSE /\ taken' = FALSE
      /\ timers' = timers \cup {<<"call", call'>>}
      /\ t_msg_req_nu' \in Numbers
      /\ UNCHANGED <<asserts, connect_timeout, due, loop, active>>
      /\ UNCHANGED <<link, request, executed, reply, outcome, cut>>
  BY NumbersTyped DEF Call, serverVars, loopVars
<1>2. call' \in Calls /\ call' \in 0..MaxCalls /\ call' > call /\ call \in Nat /\ call' \in Nat
  BY <1>1, CallsAssumption DEF Calls, TypeOK
<1>3. /\ timers' \subseteq {"call", "connect"} \X (1..call')
      /\ due \subseteq {"call", "connect"} \X (1..call')
      /\ <<"call", call'>> \notin due
  <2>1. 1..call \subseteq 1..call' /\ call' \in 1..call' /\ call' \notin 1..call
    BY <1>1, <1>2
  <2> QED BY <1>1, <2>1 DEF TypeOK
<1>4. TypeOK'
  BY <1>1, <1>2, <1>3 DEF TypeOK
<1>5. ServerInv'
  BY <1>1 DEF ServerInv
<1>6. \A k \in Calls : k \in Nat /\ (k > call' \/ k = call' => k > call)
  BY <1>1, <1>2, CallsAssumption DEF Calls
<1>8. CallInv'
  BY <1>1, <1>2, <1>3, <1>6 DEF CallInv
<1>9. TimersEnd'
  <2>1. outcome[call'] = "none"
    BY <1>2 DEF CallInv
  <2>2. \A k \in Calls : <<"connect", k>> \notin timers'
    BY <1>1 DEF TimersEnd
  <2> QED BY <1>1, <2>1, <2>2 DEF TimersEnd
<1> QED BY <1>4, <1>5, <1>8, <1>9

LEMMA ClientStep == ClientInv /\ [Next]_vars => ClientInv'
<1> SUFFICES ASSUME ClientInv, [Next]_vars PROVE ClientInv'
  OBVIOUS
<1>1. CASE UNCHANGED vars
  BY <1>1
     DEF vars, codeVars, timerVars, loopVars, serverVars, ClientInv, TypeOK, ServerInv, CallInv,
         TimersEnd
<1> QED
  BY <1>1, NetworkStep, LoopStep, ProceedStep, ReturnStep, CallStep
     DEF Next, Coroutine, Network

(* What the coroutine knows of its call, and the server of what was sent,    *)
(* whatever the loop resumes it for.                                         *)
THEOREM ClientInvariant == Safety => []ClientInv
BY ClientInit, ClientStep, PTL DEF Safety

(* What CallMethod() tells its caller is true, for any number of calls and   *)
(* whatever the network, the server and the timers do, but for a peer that   *)
(* is taken to have closed since read() was resumed for nothing.             *)
THEOREM CallerIsToldTruth == Safety => []OutcomeHonest
<1>1. ClientInv => OutcomeHonest
  <2> SUFFICES ASSUME ClientInv, NEW k \in Calls
               PROVE  /\ executed[k] <= 1
                      /\ outcome[k] = "ok" => executed[k] = 1
                      /\ outcome[k] \in {"error", "connect_sys_err"} => executed[k] = 0
                      /\ outcome[k] = "peer_closed" /\ link[k] # "down" /\ k \notin cut =>
                           executed[k] = 0
    BY DEF OutcomeHonest
  <2>1. /\ request[k] # "executed" => executed[k] = 0 /\ reply[k] = "no"
        /\ executed[k] <= 1
        /\ reply[k] = "ok" => executed[k] = 1
        /\ reply[k] = "error" => executed[k] = 0
    BY DEF ClientInv, ServerInv
  <2>2. /\ outcome[k] \in {"ok", "error"} => reply[k] = outcome[k]
        /\ outcome[k] = "connect_sys_err" => request[k] = "no"
        /\ outcome[k] = "peer_closed" => request[k] = "no" \/ link[k] = "down" \/ k \in cut
    BY DEF ClientInv, CallInv
  <2> QED BY <2>1, <2>2
<1> QED BY <1>1, ClientInvariant, PTL

(* Only the exit for a peer that closes, or is taken to have closed, leaves  *)
(* the timer event of a call pending, in a build without assertions, and     *)
(* none of a connect() outlives it there.                                    *)
THEOREM TimersOutlived == Safety => []TimersEnd
<1>1. ClientInv => TimersEnd
  BY DEF ClientInv
<1> QED BY <1>1, ClientInvariant, PTL

(* genMsgNumber() counts, whatever the length and the radix of the numbers:  *)
(* no two calls of a thread between two wraps have the same number.          *)
THEOREM CallsAreNumbered == Safety => NumbersCount
<1>1. TypeOK /\ [Next]_vars =>
        [t_msg_req_nu \notin {<<>>, AllMax} =>
           Value(t_msg_req_nu') = Value(t_msg_req_nu) + 1]_t_msg_req_nu
  <2> SUFFICES ASSUME TypeOK, [Next]_vars, t_msg_req_nu' # t_msg_req_nu,
                      t_msg_req_nu \notin {<<>>, AllMax}
               PROVE  Value(t_msg_req_nu') = Value(t_msg_req_nu) + 1
    OBVIOUS
  <2>1. Call \/ UNCHANGED t_msg_req_nu
    BY DEF Next, Coroutine, Loop, Network, vars, codeVars, InProgress, AtOnce, Refused,
           OtherError, Waited, Connected, NotConnected, Output, Resend, GetReply, Fills, ReadWaits,
           ReadFails, ErrDeal, FdEvent, OnTimer, RunTimer, RunActive, Answers, Drains, Executes,
           Closes
  <2>2. t_msg_req_nu' = Incremented(t_msg_req_nu)
    BY <2>1, NumbersTyped DEF Call
  <2>3. t_msg_req_nu \in Numbers
    BY DEF TypeOK
  <2> QED BY <2>2, <2>3, IncrementedCounts
<1>2. ClientInv => TypeOK
  BY DEF ClientInv
<1> QED BY <1>1, <1>2, ClientInvariant, PTL DEF Safety, NumbersCount
=============================================================================
