------------------------------ MODULE TcpBuffer ------------------------------
(* TcpBuffer (net/tcp/tcp_buffer.cc): a vector of bytes and two indices. The *)
(* operations return the buffer they leave behind.                           *)
EXTENDS Integers, Sequences

CONSTANTS Blank,        \* the byte a new vector is filled with
          InitSize      \* the size that TcpConnection gives its buffers

ASSUME InitSizeAssumption == InitSize \in Nat \ {0}

-----------------------------------------------------------------------------
readAble(b) == b.m_write_index - b.m_read_index

writeAble(b) == Len(b.m_buffer) - b.m_write_index

\* The unread bytes.
getBufferString(b) == SubSeq(b.m_buffer, b.m_read_index + 1, b.m_write_index)

\* A vector of n bytes that begins with those of s.
Vector(s, n) == s \o [i \in 1..n - Len(s) |-> Blank]

NewBuffer(n) == [m_buffer |-> Vector(<<>>, n), m_read_index |-> 0, m_write_index |-> 0]

\* Only growing sizes are passed: all unread bytes are kept.
resizeBuffer(b, n) ==
  [m_buffer |-> Vector(getBufferString(b), n), m_read_index |-> 0, m_write_index |-> readAble(b)]

\* The bytes of s in the vector from the write index on (and no further than
\* the vector: beyond it the code writes into other memory).
Copied(b, s) == SubSeq(SubSeq(b.m_buffer, 1, b.m_write_index) \o s
                         \o SubSeq(b.m_buffer, b.m_write_index + Len(s) + 1, Len(b.m_buffer)),
                       1, Len(b.m_buffer))

\* For mutants: the new size does not count what is to be written.
GrownForUnread(b, s) == IF Len(s) > writeAble(b)
                        THEN resizeBuffer(b, (3 * b.m_write_index) \div 2 + 1) ELSE b

GrownFor(b, s) == IF Len(s) > writeAble(b)
                  THEN resizeBuffer(b, (3 * (b.m_write_index + Len(s))) \div 2) ELSE b

\* For mutants: writes over what has not been read.
writeToBufferOver(b, s) ==
  LET g == GrownFor(b, s) IN
  [g EXCEPT !.m_buffer = Copied([g EXCEPT !.m_write_index = g.m_read_index], s),
            !.m_write_index = @ + Len(s)]

writeToBuffer(b, s) ==
  LET g == GrownFor(b, s) IN
  [g EXCEPT !.m_buffer = Copied(g, s), !.m_write_index = @ + Len(s)]

\* For mutants: the unread bytes are not moved with the indices.
adjustBufferInPlace(b) ==
  IF b.m_read_index > Len(b.m_buffer) \div 3
  THEN [b EXCEPT !.m_read_index = 0, !.m_write_index = readAble(b)] ELSE b

adjustBuffer(b) ==
  IF b.m_read_index > Len(b.m_buffer) \div 3
  THEN [m_buffer |-> Vector(getBufferString(b), Len(b.m_buffer)),
        m_read_index |-> 0, m_write_index |-> readAble(b)]
  ELSE b

recycleRead(b, n) ==
  IF b.m_read_index + n > Len(b.m_buffer) THEN b
  ELSE adjustBuffer([b EXCEPT !.m_read_index = @ + n])

recycleWrite(b, n) ==
  IF b.m_write_index + n > Len(b.m_buffer) THEN b
  ELSE adjustBuffer([b EXCEPT !.m_write_index = @ + n])

\* TcpConnection::input(): room for a read, and the read itself.
WithRoom(b) == IF writeAble(b) = 0 THEN resizeBuffer(b, 2 * Len(b.m_buffer)) ELSE b

Received(b, s) ==
  LET r == WithRoom(b) IN recycleWrite([r EXCEPT !.m_buffer = Copied(r, s)], Len(s))

=============================================================================
