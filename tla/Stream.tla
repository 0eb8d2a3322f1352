-------------------------------- MODULE Stream --------------------------------
(* A server's connection as a stream: MainServerLoopCorFunc() of             *)
(* TcpConnection reads, decodes, dispatches and writes, while the network    *)
(* cuts what the peer sends, and what is sent to it, anywhere. The peer      *)
(* sends the messages of a script and then closes.                           *)
EXTENDS Dispatch

CONSTANTS Junk,         \* what may be read behind the end of a vector
          PbScripts,    \* what a peer may send: the whole text, its messages and
          HttpScripts,  \* where they end, which are requests, where lines end
          LineCuts,     \* whether a read may end right behind a request line
          Parts,        \* the lengths that a short write may have
          MaxCuts       \* how often the network delivers less than it could

ASSUME BytesAssumption == Blank \in Nat /\ Junk \subseteq Nat
ASSUME LineCutsAssumption == LineCuts \in BOOLEAN
ASSUME PartsAssumption == Parts \subseteq Nat \ {0}

\* Where message i of script s begins, its text, and how many of the first i
\* are requests.
Begin(s, i) == IF i = 1 THEN 0 ELSE s.ends[i - 1]
TextOf(s, i) == SubSeq(s.text, Begin(s, i) + 1, s.ends[i])
Asked(s, i) == Cardinality({j \in s.valid : j <= i})

\* The messages make up the text.
IsScript(s) ==
  /\ s.text \in Seq(Nat) /\ s.ends \in Seq(1..Len(s.text))
  /\ \A i, j \in DOMAIN s.ends : i < j => s.ends[i] < s.ends[j]
  /\ Begin(s, Len(s.ends) + 1) = Len(s.text)
  /\ DOMAIN s.messages = DOMAIN s.ends
  /\ s.valid \subseteq DOMAIN s.ends
  /\ s.requests \in Seq({s.messages[i] : i \in s.valid})
  /\ Len(s.requests) = Cardinality(s.valid)
  /\ \A i \in s.valid : s.requests[Asked(s, i)] = s.messages[i]

\* No part of a packet looks like a packet.
NoPacketIn(text) ==
  \A i \in 2..Len(text) - 2 :
    LET j == i + text[i + 1] * Radix + text[i + 2] - 1 IN
    text[i] = PB_START /\ j \in i..Len(text) - 1 => text[j] # PB_END

\* Of packets as encode() writes them those with a number are requests.
IsPbScript(s) ==
  /\ IsScript(s)
  /\ \A i \in DOMAIN s.ends :
       /\ s.messages[i] \in [msg_req : Seq(Nat), service_full_name : Seq(Nat), err_code : Nat,
                             err_info : Seq(Nat), pb_data : Seq(Nat)]
       /\ TextOf(s, i) = encodePbData(s.messages[i])
       /\ NoPacketIn(TextOf(s, i))
       /\ i \in s.valid <=> s.messages[i].msg_req # <<>>

\* Each message is a request that decode() takes as a whole when it is alone.
IsHttpScript(s) ==
  /\ IsScript(s)
  /\ s.valid = DOMAIN s.ends
  /\ \A i \in DOMAIN s.ends :
       /\ parseHttp(TextOf(s, i)) = [taken |-> Len(TextOf(s, i)), succ |-> TRUE,
                                     data |-> s.messages[i]]
       /\ Begin(s, i) + find(TextOf(s, i), g_CRLF) + 1 \in s.lines

ASSUME ScriptsAssumption == /\ \A s \in PbScripts : IsPbScript(s)
                            /\ \A s \in HttpScripts : IsHttpScript(s)

VARIABLES proto,        \* the codec's protocol
          script,       \* what the peer sends
          pos,          \* how much of it has been read
          cuts,         \* how often a read got less than it could
          in, out,      \* m_read_buffer, m_write_buffer
          pc,           \* where the coroutine is
          closed,       \* the state is Closed
          dispatched,   \* the requests dispatched
          got,          \* what the peer has received
          sending,      \* of the bytes given to send(), those not written
          short         \* a write has not taken all it was given

sendVars == <<got, sending, short>>
vars == <<proto, script, pos, cuts, in, out, pc, closed, dispatched, sendVars>>

Rest == Len(script.text) - pos

Init == /\ \/ proto = "pb" /\ script \in PbScripts
           \/ proto = "http" /\ script \in HttpScripts
        /\ pos = 0
        /\ cuts = 0
        /\ in = NewBuffer(InitSize)
        /\ out = NewBuffer(InitSize)
        /\ pc = "first"
        /\ closed = FALSE
        /\ dispatched = <<>>
        /\ got = <<>>
        /\ sending = 0
        /\ short = FALSE

-----------------------------------------------------------------------------
\* input(): one read, of all that fits or of less, which is then all there is.
Read == /\ pc \in {"first", "more"}
        /\ \E n \in 1..Rest :
             LET count == writeAble(WithRoom(in))
                 cut == n < count /\ n < Rest
             IN
             /\ n <= count
             /\ cut => cuts < MaxCuts
             /\ cuts' = IF cut THEN cuts + 1 ELSE cuts
             /\ pos' = pos + n
             /\ in' = Received(in, SubSeq(script.text, pos + 1, pos + n))
             /\ pc' = IF n = count THEN "more" ELSE "execute"
             /\ proto = "http" /\ n < count /\ pos + n \in script.lines => LineCuts
        /\ UNCHANGED <<proto, script, out, closed, dispatched, sendVars>>

\* input(): the peer has closed, clearClient().
ReadNothing == /\ pc \in {"first", "more"}
               /\ Rest = 0
               /\ in' = WithRoom(in)
               /\ closed' = TRUE
               /\ pc' = "execute"
               /\ UNCHANGED <<proto, script, pos, cuts, out, dispatched, sendVars>>

-----------------------------------------------------------------------------
\* What decode() makes of the buffer, whatever it finds behind its end.
Decoded == IF proto = "pb" THEN {decodePb(in, junk) : junk \in Junk} ELSE {decodeHttp(in)}

Answered(m) == IF proto = "pb" THEN encodePb(out, dispatchPb(m)) ELSE encodeHttp(out, dispatchHttp(m))

\* For mutants: one request is executed for each read.
ExecuteOne == /\ pc = "execute"
               /\ readAble(in) > 0
               /\ \E d \in Decoded :
                    /\ d.succ
                    /\ in' = d.buf
                    /\ dispatched' = Append(dispatched, d.data)
                    /\ out' = Answered(d.data)
               /\ pc' = "output"
               /\ UNCHANGED <<proto, script, pos, cuts, closed, sendVars>>

\* execute(): decode and dispatch one request.
Execute == /\ pc = "execute"
            /\ readAble(in) > 0
            /\ \E d \in Decoded :
                 /\ d.succ
                 /\ in' = d.buf
                 /\ dispatched' = Append(dispatched, d.data)
                 /\ out' = Answered(d.data)
            /\ UNCHANGED <<proto, script, pos, cuts, pc, closed, sendVars>>

\* execute(): nothing left, or nothing that can be decoded.
ExecuteEnds == /\ pc = "execute"
               /\ \/ readAble(in) = 0 /\ in' = in
                  \/ /\ readAble(in) > 0
                     /\ \E d \in Decoded :
                          /\ ~d.succ
                          /\ in' = d.buf
               /\ pc' = "output"
               /\ UNCHANGED <<proto, script, pos, cuts, out, closed, dispatched, sendVars>>

-----------------------------------------------------------------------------
\* NetSocket::send(): one write of what is left of the bytes. A short one waits
\* and goes on with the rest, whose length is what send() returns; a failed one
\* counts as complete. At most one write is short or fails.
send(left, bytes) ==
  \/ /\ got' = got \o bytes
     /\ out' = recycleRead(out, left)
     /\ sending' = 0 /\ short' = short
  \/ /\ ~short
     /\ got' = got
     /\ out' = recycleRead(out, left)
     /\ sending' = 0 /\ short' = TRUE
  \/ \E n \in Parts :
     /\ n < left /\ ~short
     /\ got' = got \o SubSeq(bytes, 1, n)
     /\ out' = out
     /\ sending' = left - n /\ short' = TRUE

\* output()
Send == /\ pc = "output" /\ ~closed
        /\ readAble(out) > 0
        /\ LET left == IF sending = 0 THEN readAble(out) ELSE sending
           IN send(left, After(getBufferString(out), readAble(out) - left))
        /\ UNCHANGED <<proto, script, pos, cuts, in, pc, closed, dispatched>>

\* The end of output(), and the test of m_stop.
OutputEnds == /\ pc = "output"
              /\ readAble(out) = 0 \/ closed
              /\ pc' = IF closed THEN "ended" ELSE "first"
              /\ UNCHANGED <<proto, script, pos, cuts, in, out, closed, dispatched, sendVars>>

Ended == pc = "ended" /\ UNCHANGED vars

Next == Read \/ ReadNothing \/ Execute \/ ExecuteEnds \/ Send \/ OutputEnds \/ Ended

Spec == Init /\ [][Next]_vars

-----------------------------------------------------------------------------
Indices(b) == 0 <= b.m_read_index /\ b.m_read_index <= b.m_write_index
                /\ b.m_write_index <= Len(b.m_buffer)

\* The indices of both buffers (TcpBuffer) stay in order and in the vector,
\* and no more is being sent than is there.
TypeOK == /\ pos \in 0..Len(script.text)
          /\ pc \in {"first", "more", "execute", "output", "ended"}
          /\ Indices(in) /\ Indices(out)
          /\ closed \in BOOLEAN /\ short \in BOOLEAN
          /\ sending \in 0..readAble(out)

InQueue == INSTANCE ByteQueue WITH bytes <- getBufferString(in)
OutQueue == INSTANCE ByteQueue WITH bytes <- getBufferString(out)

\* What is put into a TcpBuffer comes out in that order, each byte once,
\* however it grows and moves: both buffers implement ByteQueue.
BuffersAreQueues == InQueue!Spec /\ OutQueue!Spec

\* However the network cuts the stream, but right behind an HTTP request line,
\* decode() gives the peer's requests to the dispatcher, none changed, none
\* twice, none left out or overtaken.
DispatchedInOrder ==
  IsPrefix(dispatched, script.requests)

ReplyText(m) == IF proto = "http" THEN HttpText(dispatchHttp(m))
                ELSE IF m.service_full_name = <<>> THEN <<>>
                     ELSE encodePbData(dispatchPb(m))

\* As long as every write took all that it was given, the peer has received
\* the replies to its requests in their order, as encode() wrote them.
RepliesInOrder ==
  ~short => IsPrefix(got, FlattenSeq([i \in DOMAIN dispatched |-> ReplyText(dispatched[i])]))

\* Each message of the script is a request.
AllValid == script.valid = DOMAIN script.ends

\* When the connection waits for a new request or has ended, each request that
\* has arrived completely has been dispatched: execute() takes all that input()
\* has read, also when the peer has closed (with the same exception).
QuietMeansDone ==
  pc \in {"first", "ended"} /\ AllValid =>
    Len(dispatched) = Cardinality({i \in DOMAIN script.ends : script.ends[i] <= pos})
=============================================================================
