-------------------------------- MODULE Client --------------------------------
(* A coroutine that makes RPC calls: PbRpcChannel::CallMethod() with the     *)
(* TcpClient it makes for each call, sendAndRecvPb(), NetSocket::connect(),  *)
(* send() and read(). It gives its thread up in three waits, "connecting",   *)
(* "sending" and "reading", and between calls; only then does the loop of    *)
(* the thread poll, run the timers that are due, which resume the coroutine  *)
(* themselves, and resume the coroutines of the descriptors that are ready.  *)
(* One poll may do both, and resume it twice. A socket of resetFd() blocks:  *)
(* on it no call gives the thread up. The network and the server may answer, *)
(* refuse, close or fall silent.                                             *)
EXTENDS Integers, Sequences

CONSTANTS MaxCalls,     \* calls are 1..MaxCalls
          Radix,        \* the digits of a message number: 10
          Len_          \* their count: 20

ASSUME CallsAssumption == MaxCalls \in Nat
ASSUME RadixAssumption == Radix \in Nat \ {0} /\ Len_ \in Nat \ {0}

VARIABLES asserts,      \* the build checks assertions (no NDEBUG)
          call,         \* the current or last call
          pc,           \* where the coroutine is
          t_msg_req_nu, \* the thread's last message number, digit by digit
          is_timeout,      \* that of sendAndRecvPb()
          connect_timeout, \* that of connect()
          over_time,    \* m_is_over_time of the call's connection
          blocking,     \* the call's socket is one of resetFd()
          taken,        \* the reply has been read and filled the buffer exactly
          timers,       \* the pending timer events <<"call" or "connect", call>>
          due,          \* those that onTimer() has collected and not run yet
          loop,         \* the loop is at "poll", or has run onTimer(): "timer"
          active,       \* the coroutine is in m_active_tasks
          link,         \* call -> "none", "trying", "refused", "up" or "down"
          request,      \* call -> "no", "part" of it is written, "room" for the
                        \* rest, "sent" or "executed"
          executed,     \* call -> how often the server has executed it
          reply,        \* call -> what the server sent: "no", "ok", "error" or "unserialized"
          outcome,      \* call -> what CallMethod() tells its caller
          cut,          \* history: calls whose read() was resumed for nothing
          lost          \* history: calls whose timer event the deletion of another erased

codeVars == <<t_msg_req_nu, is_timeout, connect_timeout, over_time, blocking, taken>>
timerVars == <<timers, lost>>
loopVars == <<due, loop, active>>
serverVars == <<request, executed, reply>>
vars == <<asserts, call, pc, codeVars, timerVars, loopVars, link, serverVars, outcome, cut>>

Calls == 1..MaxCalls
Events == {"call", "connect"} \X Calls
Waits == {"idle", "connecting", "sending", "reading"}
Numbers == [1..Len_ -> 0..Radix - 1]
AllMax == [i \in 1..Len_ |-> Radix - 1]

Init == /\ asserts \in BOOLEAN
        /\ call = 0
        /\ pc = "idle"
        /\ t_msg_req_nu = <<>>
        /\ is_timeout = FALSE /\ connect_timeout = FALSE
        /\ over_time = FALSE
        /\ blocking = FALSE
        /\ taken = FALSE
        /\ timers = {} /\ due = {}
        /\ loop = "poll"
        /\ active = FALSE
        /\ link = [k \in Calls |-> "none"]
        /\ request = [k \in Calls |-> "no"]
        /\ executed = [k \in Calls |-> 0]
        /\ reply = [k \in Calls |-> "no"]
        /\ outcome = [k \in Calls |-> "none"]
        /\ cut = {} /\ lost = {}

-----------------------------------------------------------------------------
\* The last digit that is not 9.
ToIncrement(nu) == CHOOSE i \in 1..Len_ : /\ nu[i] # Radix - 1
                                          /\ \A j \in i + 1..Len_ : nu[j] = Radix - 1

\* For mutants: the digits behind it stay.
IncrementedOne(nu) == [nu EXCEPT ![ToIncrement(nu)] = @ + 1]

Incremented(nu) == [j \in 1..Len_ |-> IF j < ToIncrement(nu) THEN nu[j]
                                      ELSE IF j = ToIncrement(nu) THEN nu[j] + 1 ELSE 0]

\* genMsgNumber(): counted up, from a random start at first and after the last.
genMsgNumber == IF t_msg_req_nu \in {<<>>, AllMax} THEN Numbers ELSE {Incremented(t_msg_req_nu)}

\* CallMethod(), the TcpClient, and the timer of sendAndRecvPb().
Call == /\ pc = "idle" /\ call < MaxCalls
        /\ call' = call + 1
        /\ t_msg_req_nu' \in genMsgNumber
        /\ is_timeout' = FALSE
        /\ over_time' = FALSE
        /\ blocking' = FALSE
        /\ taken' = FALSE
        /\ timers' = timers \cup {<<"call", call'>>}
        /\ pc' = "connect"
        /\ UNCHANGED <<asserts, connect_timeout, lost, loopVars, link, serverVars, outcome, cut>>

\* For mutants: the event stays.
LeftNot(e) == {timers}

\* What delTimerEvent() leaves: of an event that is not pending any more it
\* erases the one behind, if there is one.
Left(e) == IF e \in timers THEN {timers \ {e}}
           ELSE {timers} \cup {timers \ {f} : f \in timers}

Delete(e) == \E left \in Left(e) :
               /\ timers' = left
               /\ lost' = lost \cup {k \in Calls : <<"call", k>> \in timers \ (left \cup {e})}

Returns(result) == /\ outcome' = [outcome EXCEPT ![call] = result]
                   /\ pc' = "idle"

\* A return from sendAndRecvPb() that deletes its timer event.
Ends(result) == Returns(result) /\ Delete(<<"call", call>>)

-----------------------------------------------------------------------------
\* NetSocket::connect(): the first connect(2) is on its way.
InProgress == /\ pc = "connect" /\ ~blocking
              /\ link' = [link EXCEPT ![call] = "trying"]
              /\ timers' = timers \cup {<<"connect", call>>}
              /\ pc' = "connecting"
              /\ UNCHANGED <<asserts, call, codeVars, lost, loopVars, serverVars, outcome, cut>>

\* Or it succeeds at once; a socket that blocks holds the thread until it does.
AtOnce == /\ pc = "connect"
          /\ link' = [link EXCEPT ![call] = "up"]
          /\ pc' = "connected"
          /\ UNCHANGED <<asserts, call, codeVars, timerVars, loopVars, serverVars, outcome, cut>>

\* ECONNREFUSED or EAFNOSUPPORT: the call ends.
Refused == /\ pc = "connect"
           /\ \/ link' = [link EXCEPT ![call] = "refused"] /\ Ends("peer_closed")
              \/ link' = link /\ Ends("connect_sys_err")
           /\ UNCHANGED <<asserts, call, codeVars, loopVars, serverVars, cut>>

\* Any other error: resetFd() and another try, as often as it takes, without
\* giving the thread up.
OtherError == /\ pc = "connect"
              /\ blocking' = TRUE
              /\ UNCHANGED <<asserts, call, pc, t_msg_req_nu, is_timeout, connect_timeout,
                             over_time, taken, timerVars, loopVars, link, serverVars, outcome, cut>>

\* The wait of connect() is over, and its timer event deleted.
Waited == /\ pc = "waited"
          /\ Delete(<<"connect", call>>)
          /\ pc' = "reconnect"
          /\ UNCHANGED <<asserts, call, codeVars, loopVars, link, serverVars, outcome, cut>>

\* The second connect(2) finds the connection, or one that the peer has closed.
Connected == /\ pc = "reconnect"
             /\ link[call] \in {"up", "down"}
             /\ pc' = "connected"
             /\ connect_timeout' = FALSE
             /\ UNCHANGED <<asserts, call, t_msg_req_nu, is_timeout, over_time, blocking, taken,
                            timerVars, loopVars, link, serverVars, outcome, cut>>

\* It does not: the peer refused or reset it, or the coroutine was resumed
\* before either. The timer of connect() hides what it says in ETIMEDOUT.
NotConnected == /\ pc = "reconnect"
                /\ link[call] # "up"
                /\ IF link[call] = "refused" /\ ~is_timeout /\ ~connect_timeout
                   THEN /\ Ends("peer_closed")
                        /\ UNCHANGED <<blocking, link>>
                   ELSE /\ pc' = IF is_timeout THEN "err_deal" ELSE "connect"
                        /\ blocking' = TRUE
                        /\ link' = [link EXCEPT ![call] = "none"]
                        /\ UNCHANGED <<timerVars, outcome>>
                /\ connect_timeout' = FALSE
                /\ UNCHANGED <<asserts, call, t_msg_req_nu, is_timeout, over_time, taken, loopVars,
                               serverVars, cut>>

-----------------------------------------------------------------------------
\* setUpClient() and output(), which a call that is over time skips. send()
\* writes the request, a part of it and waits, or takes an error for the whole.
Output == /\ pc = "connected"
          /\ \/ over_time /\ pc' = "err_deal" /\ request' = request
             \/ /\ ~over_time /\ pc' = "read"
                /\ request' \in {request, [request EXCEPT ![call] = "sent"]}
             \/ /\ ~over_time /\ ~blocking /\ pc' = "sending"
                /\ request' = [request EXCEPT ![call] = "part"]
          /\ UNCHANGED <<asserts, call, codeVars, timerVars, loopVars, link, executed, reply,
                         outcome, cut>>

\* Its wait is over: the rest goes where there is room; where there is none,
\* the error is taken for the whole again.
Resend == /\ pc = "resend"
          /\ request' = IF request[call] = "room" THEN [request EXCEPT ![call] = "sent"]
                        ELSE request
          /\ pc' = IF over_time THEN "err_deal" ELSE "read"
          /\ UNCHANGED <<asserts, call, codeVars, timerVars, loopVars, link, executed, reply,
                         outcome, cut>>

\* For mutants: the reply's err_code is not looked at.
ToldSuccess == "ok"

Told == reply[call]

Arrived == reply[call] # "no" /\ ~taken

\* input() and execute(): read() finds the reply, CallMethod() passes it on,
\* or cannot parse it.
GetReply == /\ pc \in {"read", "reread"} /\ ~over_time
            /\ Arrived
            /\ \E result \in {Told, "failed_deserialize"} : Ends(result)
            /\ UNCHANGED <<asserts, call, codeVars, loopVars, link, serverVars, cut>>

\* A reply that fills the buffer exactly: input() reads on.
Fills == /\ pc \in {"read", "reread"} /\ ~over_time
         /\ Arrived
         /\ taken' = TRUE
         /\ pc' = "read"
         /\ UNCHANGED <<asserts, call, t_msg_req_nu, is_timeout, connect_timeout, over_time,
                        blocking, timerVars, loopVars, link, serverVars, outcome, cut>>

\* The first ::read() of read() finds nothing; a socket that blocks holds the
\* thread until it does.
ReadWaits == /\ pc = "read" /\ ~blocking
             /\ ~Arrived /\ link[call] # "down"
             /\ pc' = "reading"
             /\ UNCHANGED <<asserts, call, codeVars, timerVars, loopVars, link, serverVars, outcome,
                            cut>>

\* input() gives up for the timer, or clearClient() for a peer that has closed;
\* a second ::read() that finds nothing, too, is taken for that.
ReadFails == /\ \/ pc = "reread" /\ over_time /\ cut' = cut
                \/ pc = "reread" /\ ~over_time /\ ~Arrived
                     /\ cut' = IF link[call] = "down" THEN cut ELSE cut \cup {call}
                \/ pc = "read" /\ ~Arrived /\ link[call] = "down" /\ cut' = cut
             /\ pc' = "err_deal"
             /\ UNCHANGED <<asserts, call, codeVars, timerVars, loopVars, link, serverVars,
                            outcome>>

\* err_deal: delEvent() of a descriptor that no wait has registered any more.
\* Without assertions it fails, and the call ends.
ErrDeal == /\ pc = "err_deal"
           /\ IF asserts THEN pc' = "aborted" /\ outcome' = outcome
              ELSE Returns(IF is_timeout THEN "timeout" ELSE "peer_closed")
           /\ over_time' = (over_time /\ ~is_timeout)
           /\ UNCHANGED <<asserts, call, t_msg_req_nu, is_timeout, connect_timeout, blocking,
                          taken, timerVars, loopVars, link, serverVars, cut>>

-----------------------------------------------------------------------------
(* The loop of the thread, while the coroutine has given it up.              *)

Ready == \/ pc = "connecting" /\ link[call] \in {"refused", "up", "down"}
         \/ pc = "sending" /\ (request[call] = "room" \/ link[call] = "down")
         \/ pc = "reading" /\ (Arrived \/ link[call] = "down")

\* epoll_wait() reports the descriptor.
FdEvent == /\ loop = "poll" /\ Ready /\ ~active
           /\ active' = TRUE
           /\ UNCHANGED <<asserts, call, pc, codeVars, timerVars, due, loop, link, serverVars,
                          outcome, cut>>

\* It reports the timerfd, perhaps with the descriptor: onTimer() collects.
OnTimer == /\ pc \in Waits /\ loop = "poll"
           /\ due' \in SUBSET timers \ {{}}
           /\ timers' = timers \ due'
           /\ loop' = "timer"
           /\ UNCHANGED <<asserts, call, pc, codeVars, lost, active, link, serverVars, outcome, cut>>

\* resume(): the coroutine goes on behind its wait; between calls, where ever
\* its caller waits.
After(wait) == CASE wait = "connecting" -> "waited"
                 [] wait = "sending" -> "resend"
                 [] wait = "reading" -> "reread"
                 [] OTHER -> wait

\* For mutants: the timer only sets its flags.
TimerToNot(wait) == wait

TimerTo(wait) == After(wait)

\* onTimer() runs the task of an event. That of a call, or of a connect(), which
\* is over uses locals that are gone.
RunTimer(e) == /\ pc \in Waits /\ e \in due
               /\ due' = due \ {e}
               /\ \/ /\ e = <<"call", call>> /\ pc # "idle"
                     /\ is_timeout' = TRUE /\ over_time' = TRUE
                     /\ pc' = TimerTo(pc)
                     /\ UNCHANGED connect_timeout
                  \/ /\ e = <<"connect", call>> /\ pc = "connecting"
                     /\ connect_timeout' = TRUE
                     /\ pc' = TimerTo(pc)
                     /\ UNCHANGED <<is_timeout, over_time>>
                  \/ /\ ~(e = <<"call", call>> /\ pc # "idle")
                     /\ ~(e = <<"connect", call>> /\ pc = "connecting")
                     /\ pc' = "undefined"
                     /\ UNCHANGED <<is_timeout, over_time, connect_timeout>>
               /\ UNCHANGED <<asserts, call, t_msg_req_nu, blocking, taken, timerVars, loop,
                              active, link, serverVars, outcome, cut>>

\* The loop resumes its active task, whatever it waits for by now, and polls again.
RunActive == /\ pc \in Waits /\ due = {}
             /\ active \/ loop = "timer"
             /\ pc' = IF active THEN After(pc) ELSE pc
             /\ active' = FALSE
             /\ loop' = "poll"
             /\ UNCHANGED <<asserts, call, codeVars, timerVars, due, link, serverVars, outcome, cut>>

-----------------------------------------------------------------------------
(* The network and the server.                                               *)

Answers(k) == /\ link[k] = "trying"
              /\ link' \in {[link EXCEPT ![k] = l] : l \in {"up", "refused"}}
              /\ UNCHANGED <<asserts, call, pc, codeVars, timerVars, loopVars, serverVars, outcome,
                             cut>>

Drains(k) == /\ request[k] = "part" /\ link[k] = "up"
             /\ request' = [request EXCEPT ![k] = "room"]
             /\ UNCHANGED <<asserts, call, pc, codeVars, timerVars, loopVars, link, executed, reply,
                            outcome, cut>>

\* dispatch() executes the call and replies, unless the reply is lost, or
\* replies that it can not. ERROR_FAILED_SERIALIZE, "unserialized", is sent for
\* a request that it cannot parse and for a response that it cannot serialize.
Executes(k) == /\ request[k] = "sent" /\ link[k] = "up"
               /\ request' = [request EXCEPT ![k] = "executed"]
               /\ \/ /\ executed' = [executed EXCEPT ![k] = @ + 1]
                     /\ reply' \in {[reply EXCEPT ![k] = r] : r \in {"no", "ok", "unserialized"}}
                  \/ /\ executed' = executed
                     /\ reply' \in {[reply EXCEPT ![k] = r] : r \in {"error", "unserialized"}}
               /\ UNCHANGED <<asserts, call, pc, codeVars, timerVars, loopVars, link, outcome, cut>>

Closes(k) == /\ link[k] = "up"
             /\ link' = [link EXCEPT ![k] = "down"]
             /\ UNCHANGED <<asserts, call, pc, codeVars, timerVars, loopVars, serverVars, outcome,
                            cut>>

-----------------------------------------------------------------------------
Coroutine == Call \/ InProgress \/ AtOnce \/ Refused \/ OtherError \/ Waited \/ Connected
               \/ NotConnected \/ Output \/ Resend \/ GetReply \/ Fills \/ ReadWaits
               \/ ReadFails \/ ErrDeal

Loop == FdEvent \/ OnTimer \/ RunActive \/ \E e \in Events : RunTimer(e)

Network == \E k \in Calls : Answers(k) \/ Drains(k) \/ Executes(k) \/ Closes(k)

Next == pc \notin {"aborted", "undefined"} /\ (Coroutine \/ Loop \/ Network)

\* A connect(2) or a write() on a socket that blocks is the network's.
Held == blocking /\ (pc = "connect" \/ (pc = "connected" /\ link[call] = "up"))

\* The thread goes on otherwise; the network need do nothing.
Safety == Init /\ [][Next]_vars
Spec == Safety /\ WF_vars(~Held /\ (Coroutine \/ Loop))

-----------------------------------------------------------------------------
\* What CallMethod() tells its caller is true: after success the server has
\* executed the call, once; after an error reply, or an error that names the
\* connecting, it has not and will not. ERROR_PEER_CLOSED with a peer that has
\* not closed means that it refused, or that read() was resumed for nothing.
OutcomeHonest ==
  \A k \in Calls :
    /\ executed[k] <= 1
    /\ outcome[k] = "ok" => executed[k] = 1
    /\ outcome[k] \in {"error", "connect_sys_err"} => executed[k] = 0
    /\ outcome[k] = "peer_closed" /\ link[k] # "down" /\ k \notin cut => executed[k] = 0

\* A timer event that outlives its call, or its connect(), would use locals that
\* are gone: only the exit for a peer that closes, or is taken to have closed,
\* leaves one pending, in a build without assertions.
TimersEnd ==
  \A k \in Calls :
    /\ <<"call", k>> \in timers /\ outcome[k] # "none" =>
         ~asserts /\ outcome[k] = "peer_closed" /\ (link[k] = "down" \/ k \in cut)
    /\ <<"connect", k>> \in timers => k = call /\ pc \in {"connecting", "waited", "undefined"}

\* error_code.h: ERROR_PEER_CLOSED says that the peer is closed. (The code does not
\* keep this where a timer and its descriptor come out of one epoll_wait; README.)
PeerClosedTrue ==
  \A k \in Calls : outcome[k] = "peer_closed" => link[k] \in {"refused", "down"}

Value(nu) ==
  LET V[i \in 0..Len_] == IF i = 0 THEN 0 ELSE V[i - 1] * Radix + nu[i] IN V[Len_]

\* genMsgNumber() counts, digit by digit: a number is one more than that of the
\* thread's call before, unless that was the last.
NumbersCount ==
  [][t_msg_req_nu \notin {<<>>, AllMax} =>
       Value(t_msg_req_nu') = Value(t_msg_req_nu) + 1]_t_msg_req_nu

\* What every step preserves and the properties above follow from.
TypeOK ==
  /\ asserts \in BOOLEAN /\ is_timeout \in BOOLEAN /\ connect_timeout \in BOOLEAN
  /\ over_time \in BOOLEAN /\ blocking \in BOOLEAN /\ taken \in BOOLEAN
  /\ call \in 0..MaxCalls
  /\ pc \in Waits \cup {"connect", "waited", "reconnect", "connected", "resend", "read",
                        "reread", "err_deal", "aborted", "undefined"}
  /\ timers \subseteq {"call", "connect"} \X (1..call)
  /\ due \subseteq {"call", "connect"} \X (1..call)
  /\ t_msg_req_nu \in Numbers \cup {<<>>}
  /\ loop \in {"poll", "timer"} /\ active \in BOOLEAN
  /\ link \in [Calls -> {"none", "trying", "refused", "up", "down"}]
  /\ request \in [Calls -> {"no", "part", "room", "sent", "executed"}]
  /\ executed \in [Calls -> Nat]
  /\ reply \in [Calls -> {"no", "ok", "error", "unserialized"}]
  /\ outcome \in [Calls -> {"none", "ok", "error", "unserialized", "failed_deserialize",
                            "timeout", "peer_closed", "connect_sys_err"}]

\* The server executes only what was sent, and answers only what it was asked.
ServerInv ==
  \A k \in Calls :
    /\ request[k] # "executed" => executed[k] = 0 /\ reply[k] = "no"
    /\ executed[k] <= 1
    /\ reply[k] = "ok" => executed[k] = 1
    /\ reply[k] = "error" => executed[k] = 0

Unsent == {"connect", "connecting", "waited", "reconnect", "connected"}

\* What the coroutine has done so far, and what it knows.
CallInv ==
  /\ pc \notin {"idle", "undefined"} => call \in Calls
  /\ over_time => is_timeout
  /\ is_timeout \/ <<"call", call>> \in due => <<"call", call>> \notin timers
  /\ pc = "err_deal" => is_timeout \/ link[call] = "down" \/ call \in cut
  /\ \A k \in Calls :
       /\ k > call \/ (k = call /\ pc \in Unsent) => request[k] = "no"
       /\ k > call \/ (k = call /\ pc \notin {"idle", "undefined"}) => outcome[k] = "none"
       /\ outcome[k] \in {"ok", "error"} => reply[k] = outcome[k]
       /\ outcome[k] = "connect_sys_err" => request[k] = "no"
       /\ outcome[k] = "peer_closed" => request[k] = "no" \/ link[k] = "down" \/ k \in cut

ClientInv == TypeOK /\ ServerInv /\ CallInv /\ TimersEnd

\* The timer of a call ends it, wherever the server falls silent and whether the
\* socket blocks or not, unless the deletion of another event has erased it or
\* the program ends. (The code does not keep this for a socket of resetFd(); README.)
CallTimesOut ==
  \A k \in Calls :
    (call = k) ~> (outcome[k] # "none" \/ pc \in {"aborted", "undefined"} \/ k \in lost)

\* It does for a call that needs no second socket.
CallEnds ==
  \A k \in Calls :
    (call = k) ~> (\/ outcome[k] # "none" \/ pc \in {"aborted", "undefined"}
                   \/ k \in lost
                   \/ call = k /\ blocking)
=============================================================================
