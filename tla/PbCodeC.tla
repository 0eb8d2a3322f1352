------------------------------- MODULE PbCodeC -------------------------------
(* PbCodeC (net/pb/pb_codec.cc): frames of the RPC protocol. A byte is a     *)
(* cell, a 32-bit length two cells (IntLen), so that a length can be cut by  *)
(* the end of what has arrived. A message is a record of strings of cells.   *)
EXTENDS TcpBuffer, FiniteSetsExt

CONSTANT Radix                          \* of the digits of a length

ASSUME RadixAssumption == Radix \in Nat /\ Radix > 2

PB_START == 2
PB_END == 3
IntLen == 2

Int32(n) == <<n \div Radix, n % Radix>>

-----------------------------------------------------------------------------
PackLen(m) == 2 + 6 * IntLen + Len(m.pb_data) + Len(m.service_full_name)
                + Len(m.msg_req) + Len(m.err_info)

encodePbData(m) ==
  <<PB_START>> \o Int32(PackLen(m))
    \o Int32(Len(m.msg_req)) \o m.msg_req
    \o Int32(Len(m.service_full_name)) \o m.service_full_name
    \o Int32(m.err_code) \o Int32(Len(m.err_info)) \o m.err_info
    \o m.pb_data \o Int32(1) \o <<PB_END>>

\* encode(): nothing is written for a message without a service name.
encodePb(b, m) == IF m.service_full_name = <<>> THEN b ELSE writeToBuffer(b, encodePbData(m))

-----------------------------------------------------------------------------
\* What decode() reads at index i of the vector: behind its end, whatever is there.
At(v, i, junk) == IF i \in 0..Len(v) - 1 THEN v[i + 1] ELSE junk

IntAt(v, i, junk) == At(v, i, junk) * Radix + At(v, i + 1, junk)

Text(v, i, n, junk) == [k \in 1..n |-> At(v, i + k - 1, junk)]

EndIndex(v, i, junk) == i + IntAt(v, i + 1, junk) - 1

\* For mutants: the end of the packet is not looked at.
FrameStartsUnended(b, junk) ==
  {i \in b.m_read_index..b.m_write_index - 2 :
     /\ b.m_buffer[i + 1] = PB_START
     /\ EndIndex(b.m_buffer, i, junk) < b.m_write_index}

\* Where a packet starts that ends before the write index.
FrameStarts(b, junk) ==
  {i \in b.m_read_index..b.m_write_index - 2 :
     LET j == EndIndex(b.m_buffer, i, junk) IN
     /\ b.m_buffer[i + 1] = PB_START
     /\ j < b.m_write_index
     /\ At(b.m_buffer, j, junk) = PB_END}

\* The fields of the packet at start, as far as they lie in it.
Fields(v, start, end, junk) ==
  LET N(i) == IntAt(v, i, junk)
      msg_len == start + 1 + IntLen
      service_len == msg_len + IntLen + N(msg_len)
      service == service_len + IntLen
      err_code == service + N(service_len)
      info_len == err_code + IntLen
      data == info_len + IntLen + N(info_len)
      pk_len == N(start + 1)
  IN [succ |-> /\ msg_len < end /\ N(msg_len) # 0
               /\ service < end /\ N(service_len) <= pk_len
               /\ info_len < end
               /\ data < end,
      data |-> [msg_req |-> Text(v, msg_len + IntLen, N(msg_len), junk),
                service_full_name |-> Text(v, service, N(service_len), junk),
                err_code |-> N(err_code),
                err_info |-> Text(v, info_len + IntLen, N(info_len), junk),
                pb_data |-> Text(v, data, pk_len - N(service_len) - N(msg_len) - N(info_len)
                                            - 2 - 6 * IntLen, junk)]]

\* decode(): the buffer it leaves, whether it succeeded, and the message.
decodePb(b, junk) ==
  LET starts == FrameStarts(b, junk) IN
  IF starts = {} THEN [buf |-> b, succ |-> FALSE]
  ELSE LET start == Min(starts)
           end == EndIndex(b.m_buffer, start, junk)
           fields == Fields(b.m_buffer, start, end, junk)
           left == recycleRead(b, end + 1 - start)
       IN IF fields.succ THEN [buf |-> left, succ |-> TRUE, data |-> fields.data]
          ELSE [buf |-> left, succ |-> FALSE]
=============================================================================
