----------------------------- MODULE StreamProofs -----------------------------
(***************************************************************************)
(* A connection between its peer's bytes and its replies, for every script *)
(* of messages, every way in which the network cuts it, whatever lies      *)
(* behind the end of a vector, and any services and servlets; of what is   *)
(* dispatched, for every way but right behind an HTTP request line.        *)
(*                                                                         *)
(* Of both TcpBuffers: the indices stay in order (StreamTypes), and what   *)
(* every operation leaves between them is what a queue would hold.  Of the *)
(* replies: what has been received, what waits in m_write_buffer and what  *)
(* send() still has in hand are the encoded replies (RepliesSent).  Of the *)
(* requests: what has been dispatched and what is left to read belong to   *)
(* the same place in the script, of which only a part of one message may   *)
(* be left when the coroutine stops decoding (AllDispatched).  That place  *)
(* moves by one message whenever decode() succeeds, because the first      *)
(* frame it finds is the message there, complete (PacketTaken, WholeFound) *)
(* and because it finds none in a part of one (PacketPart, PartNotFound).  *)
(*                                                                         *)
(* The last holds unless a read ends right behind a request line, which    *)
(* decode() takes for a request (LineCuts): WholeLines says so.            *)
(***************************************************************************)
EXTENDS Stream, FiniteSetTheorems, SequenceTheorems, TLAPS

(***************************************************************************)
(* Sets of numbers, and sequences.                                         *)
(***************************************************************************)
LEMMA LeastExists ==
    ASSUME NEW S \in SUBSET Nat, S # {}
    PROVE  \E m \in S : \A j \in S : m <= j
<1> DEFINE R == OpToRel(<, Nat)
<1>1. PICK m \in S : \A j \in S : <<j, m>> \notin R
  <2>1. IsWellFoundedOn(R, Nat)
    BY NatLessThanWellFounded
  <2> HIDE DEF R
  <2> QED BY <2>1, WFMin
<1>2. \A j \in S : ~ (j < m)
  BY <1>1 DEF OpToRel
<1> QED BY <1>2

LEMMA MinIsLeast ==
    ASSUME NEW S \in SUBSET Nat, S # {}
    PROVE  Min(S) \in S /\ \A j \in S : Min(S) <= j
BY LeastExists DEF Min

LEMMA MaxIsGreatest ==
    ASSUME NEW n \in Nat, NEW S \in SUBSET (1 .. n), S # {}
    PROVE  Max(S) \in S /\ \A j \in S : Max(S) >= j
<1> DEFINE T == {m \in 0 .. n : n - m \in S}
<1>1. PICK k \in T : \A j \in T : k <= j
  <2>1. PICK i \in S : TRUE
    OBVIOUS
  <2>2. i \in Int /\ n - i \in 0 .. n /\ n - (n - i) = i
    OBVIOUS
  <2>3. n - i \in T
    BY <2>2
  <2>4. T \in SUBSET Nat
    OBVIOUS
  <2> HIDE DEF T
  <2> QED BY <2>3, <2>4, LeastExists
<1>2. n - k \in S
  OBVIOUS
<1>3. ASSUME NEW j \in S PROVE n - k >= j
  <2>1. n - j \in 0 .. n /\ n - (n - j) = j
    OBVIOUS
  <2>2. n - j \in T
    BY <2>1
  <2> QED BY <1>1, <2>2
<1> QED BY <1>2, <1>3 DEF Max

LEMMA Part ==
    ASSUME NEW S, NEW s \in Seq(S), NEW m \in 1 .. Len(s) + 1, NEW n \in m - 1 .. Len(s)
    PROVE  /\ SubSeq(s, m, n) \in Seq(S)
           /\ Len(SubSeq(s, m, n)) = n - m + 1
           /\ \A i \in 1 .. n - m + 1 : SubSeq(s, m, n)[i] = s[m + i - 1]
<1>1. m \in Int /\ n \in Int /\ n - m + 1 = IF m <= n THEN n - m + 1 ELSE 0
  OBVIOUS
<1>2. \A i \in m .. n : s[i] \in S
  OBVIOUS
<1> QED BY <1>1, <1>2, SubSeqProperties

\* A function on 1 .. n is a sequence.
LEMMA Listed ==
    ASSUME NEW S, NEW n \in Nat, NEW f \in [1 .. n -> S]
    PROVE  f \in Seq(S) /\ Len(f) = n
OBVIOUS

LEMMA ElementIn == ASSUME NEW S, NEW s \in Seq(S), NEW i \in DOMAIN s PROVE s[i] \in S
OBVIOUS

-----------------------------------------------------------------------------
(***************************************************************************)
(* A TcpBuffer is the bytes that have not been read.                       *)
(***************************************************************************)
Buffer(b) ==
    /\ b \in [m_buffer : Seq(Nat), m_read_index : Nat, m_write_index : Nat]
    /\ Indices(b)
    /\ Len(b.m_buffer) > 0

LEMMA Unread ==
    ASSUME NEW b, Buffer(b)
    PROVE  /\ readAble(b) \in Nat /\ writeAble(b) \in Nat
           /\ getBufferString(b) \in Seq(Nat)
           /\ Len(getBufferString(b)) = readAble(b)
           /\ \A i \in 1 .. readAble(b) :
                  getBufferString(b)[i] = b.m_buffer[b.m_read_index + i]
<1> DEFINE v == b.m_buffer  r == b.m_read_index  w == b.m_write_index
<1>1. /\ v \in Seq(Nat) /\ r \in Nat /\ w \in Nat /\ Len(v) \in Nat
      /\ r <= w /\ w <= Len(v)
  BY DEF Buffer, Indices
<1> HIDE DEF v, r, w
<1>2. r + 1 \in 1 .. Len(v) + 1 /\ w \in r + 1 - 1 .. Len(v)
  BY <1>1
<1>3. /\ SubSeq(v, r + 1, w) \in Seq(Nat)
      /\ Len(SubSeq(v, r + 1, w)) = w - (r + 1) + 1
      /\ \A i \in 1 .. w - (r + 1) + 1 : SubSeq(v, r + 1, w)[i] = v[r + 1 + i - 1]
  BY <1>1, <1>2, Part
<1>4. w - (r + 1) + 1 = w - r /\ \A i \in 1 .. w - r : r + 1 + i - 1 = r + i
  BY <1>1
<1>5. /\ w - r \in Nat /\ Len(v) - w \in Nat
      /\ Len(SubSeq(v, r + 1, w)) = w - r
      /\ \A i \in 1 .. w - r : SubSeq(v, r + 1, w)[i] = v[r + i]
  BY <1>1, <1>3, <1>4
<1> QED BY <1>3, <1>5 DEF readAble, writeAble, getBufferString, v, r, w

LEMMA VectorOf ==
    ASSUME NEW s \in Seq(Nat), NEW n \in Nat, Len(s) <= n
    PROVE  /\ Vector(s, n) \in Seq(Nat) /\ Len(Vector(s, n)) = n
           /\ \A i \in 1 .. Len(s) : Vector(s, n)[i] = s[i]
<1> DEFINE t == [i \in 1 .. n - Len(s) |-> Blank]
<1>1. t \in Seq(Nat) /\ Len(t) = n - Len(s)
  <2>1. n - Len(s) \in Nat
    OBVIOUS
  <2>2. t \in [1 .. n - Len(s) -> Nat]
    BY BytesAssumption
  <2> HIDE DEF t
  <2> QED BY <2>1, <2>2, Listed
<1> HIDE DEF t
<1>2. s \o t \in Seq(Nat) /\ Len(s \o t) = n /\ \A i \in 1 .. Len(s) : (s \o t)[i] = s[i]
  BY <1>1, ConcatProperties
<1> QED BY <1>2 DEF Vector, t

LEMMA NewIsEmpty ==
    ASSUME NEW n \in Nat \ {0}
    PROVE  Buffer(NewBuffer(n)) /\ getBufferString(NewBuffer(n)) = <<>> /\ readAble(NewBuffer(n)) = 0
<1>1. <<>> \in Seq(Nat) /\ Len(<<>>) = 0 /\ n \in Nat /\ 0 <= n
  OBVIOUS
<1>2. Vector(<<>>, n) \in Seq(Nat) /\ Len(Vector(<<>>, n)) = n
  BY <1>1, VectorOf
<1>3. Buffer(NewBuffer(n)) /\ readAble(NewBuffer(n)) = 0
  BY <1>2 DEF Buffer, Indices, NewBuffer, readAble
<1>4. getBufferString(NewBuffer(n)) = <<>>
  <2>1. getBufferString(NewBuffer(n)) \in Seq(Nat) /\ Len(getBufferString(NewBuffer(n))) = 0
    BY <1>3, Unread
  <2> QED BY <2>1
<1> QED BY <1>3, <1>4

\* A vector that begins with the bytes s, with both indices moved there.
LEMMA Moved ==
    ASSUME NEW s \in Seq(Nat), NEW n \in Nat \ {0}, Len(s) <= n, NEW b,
           b = [m_buffer |-> Vector(s, n), m_read_index |-> 0, m_write_index |-> Len(s)]
    PROVE  Buffer(b) /\ getBufferString(b) = s /\ Len(b.m_buffer) = n /\ b.m_write_index = Len(s)
<1>1. /\ Vector(s, n) \in Seq(Nat) /\ Len(Vector(s, n)) = n
      /\ \A i \in 1 .. Len(s) : Vector(s, n)[i] = s[i]
  BY VectorOf
<1>2. Buffer(b) /\ readAble(b) = Len(s) /\ Len(b.m_buffer) = n /\ b.m_write_index = Len(s)
  BY <1>1 DEF Buffer, Indices, readAble
<1>3. /\ getBufferString(b) \in Seq(Nat) /\ Len(getBufferString(b)) = Len(s)
      /\ \A i \in 1 .. Len(s) : getBufferString(b)[i] = b.m_buffer[b.m_read_index + i]
  BY <1>2, Unread
<1>4. \A i \in 1 .. Len(s) : getBufferString(b)[i] = s[i]
  BY <1>1, <1>3
<1> QED BY <1>2, <1>3, <1>4, SeqEqual

LEMMA Resized ==
    ASSUME NEW b, Buffer(b), NEW n \in Nat \ {0}, readAble(b) <= n
    PROVE  /\ Buffer(resizeBuffer(b, n))
           /\ getBufferString(resizeBuffer(b, n)) = getBufferString(b)
           /\ Len(resizeBuffer(b, n).m_buffer) = n
           /\ resizeBuffer(b, n).m_write_index = readAble(b)
<1>1. getBufferString(b) \in Seq(Nat) /\ Len(getBufferString(b)) = readAble(b)
  BY Unread
<1> QED BY <1>1, Moved DEF resizeBuffer

LEMMA Adjusted ==
    ASSUME NEW b, Buffer(b)
    PROVE  Buffer(adjustBuffer(b)) /\ getBufferString(adjustBuffer(b)) = getBufferString(b)
<1>1. getBufferString(b) \in Seq(Nat) /\ Len(getBufferString(b)) = readAble(b)
  BY Unread
<1>2. Len(b.m_buffer) \in Nat \ {0} /\ readAble(b) <= Len(b.m_buffer)
  BY DEF Buffer, Indices, readAble
<1> QED BY <1>1, <1>2, Moved DEF adjustBuffer

LEMMA ReadRecycled ==
    ASSUME NEW b, Buffer(b), NEW n \in 0 .. readAble(b)
    PROVE  /\ Buffer(recycleRead(b, n))
           /\ getBufferString(recycleRead(b, n)) = SubSeq(getBufferString(b), n + 1, readAble(b))
<1> DEFINE c == [b EXCEPT !.m_read_index = @ + n]
           u == getBufferString(b)
           l == readAble(b)
<1>1. l \in Nat /\ n \in Nat /\ u \in Seq(Nat) /\ Len(u) = l
      /\ \A i \in 1 .. l : u[i] = b.m_buffer[b.m_read_index + i]
  BY Unread
<1>2. /\ c.m_buffer = b.m_buffer /\ c.m_read_index = b.m_read_index + n
      /\ c.m_write_index = b.m_write_index
      /\ c \in [m_buffer : Seq(Nat), m_read_index : Nat, m_write_index : Nat]
  <2>1. b.m_read_index + n \in Nat
    BY <1>1 DEF Buffer
  <2>2. b.m_buffer \in Seq(Nat) /\ b.m_write_index \in Nat
    BY DEF Buffer
  <2> QED BY <2>1, <2>2 DEF Buffer
<1>3. Buffer(c) /\ readAble(c) = l - n
  <2>1. b.m_read_index + n <= b.m_write_index
    BY <1>1 DEF Buffer, Indices, readAble
  <2> HIDE DEF c
  <2> QED BY <1>2, <2>1 DEF Buffer, Indices, readAble
<1>4. recycleRead(b, n) = adjustBuffer(c)
  <2>1. b.m_read_index + n <= Len(b.m_buffer)
    BY <1>2, <1>3 DEF Buffer, Indices
  <2>2. ~(b.m_read_index + n > Len(b.m_buffer))
    BY <2>1, <1>1 DEF Buffer
  <2> QED BY <2>2 DEF recycleRead
<1>5. getBufferString(c) = SubSeq(u, n + 1, l)
  <2> HIDE DEF c, u
  <2>1. /\ getBufferString(c) \in Seq(Nat) /\ Len(getBufferString(c)) = l - n
        /\ \A i \in 1 .. l - n : getBufferString(c)[i] = c.m_buffer[c.m_read_index + i]
    BY <1>3, Unread
  <2>2. n + 1 \in 1 .. Len(u) + 1 /\ l \in n + 1 - 1 .. Len(u)
    BY <1>1
  <2>3. /\ SubSeq(u, n + 1, l) \in Seq(Nat)
        /\ Len(SubSeq(u, n + 1, l)) = l - (n + 1) + 1
        /\ \A i \in 1 .. l - (n + 1) + 1 : SubSeq(u, n + 1, l)[i] = u[n + 1 + i - 1]
    BY <1>1, <2>2, Part
  <2>4. ASSUME NEW i \in 1 .. l - n PROVE getBufferString(c)[i] = SubSeq(u, n + 1, l)[i]
    <3>1. /\ n + i \in 1 .. l /\ n + 1 + i - 1 = n + i /\ l - (n + 1) + 1 = l - n
          /\ c.m_read_index + i = b.m_read_index + (n + i)
      <4>1. b.m_read_index \in Nat /\ i \in Nat
        BY <1>1 DEF Buffer
      <4>0. l \in Nat /\ n \in Nat /\ i \in 1 .. l - n
        BY <1>1
      <4>2. n + i \in 1 .. l /\ n + 1 + i - 1 = n + i /\ l - (n + 1) + 1 = l - n
        BY <4>0
      <4>3. c.m_read_index = b.m_read_index + n
        BY <1>2
      <4>4. c.m_read_index + i = b.m_read_index + (n + i)
        BY <1>1, <4>1, <4>3
      <4> QED BY <4>2, <4>4
    <3>2. u[n + i] = b.m_buffer[b.m_read_index + (n + i)]
      BY <1>1, <3>1
    <3> QED BY <1>2, <2>1, <2>3, <3>1, <3>2
  <2>5. l - (n + 1) + 1 = l - n
    BY <1>1
  <2> QED BY <2>1, <2>3, <2>4, <2>5, SeqEqual
<1>6. Buffer(adjustBuffer(c)) /\ getBufferString(adjustBuffer(c)) = getBufferString(c)
  BY <1>3, Adjusted
<1> QED BY <1>4, <1>5, <1>6

\* The bytes of s, written behind the unread ones.
LEMMA CopiedIn ==
    ASSUME NEW b, Buffer(b), NEW s \in Seq(Nat), Len(s) <= writeAble(b)
    PROVE  /\ Copied(b, s) \in Seq(Nat) /\ Len(Copied(b, s)) = Len(b.m_buffer)
           /\ \A i \in 1 .. b.m_write_index : Copied(b, s)[i] = b.m_buffer[i]
           /\ \A i \in 1 .. Len(s) : Copied(b, s)[b.m_write_index + i] = s[i]
<1> DEFINE v == b.m_buffer  w == b.m_write_index  n == Len(s)
           x == SubSeq(v, 1, w)  z == SubSeq(v, w + n + 1, Len(v))
           y == x \o s  t == y \o z
<1>1. v \in Seq(Nat) /\ w \in Nat /\ n \in Nat /\ Len(v) \in Nat /\ w + n <= Len(v)
  BY DEF Buffer, Indices, writeAble
<1>2. x \in Seq(Nat) /\ Len(x) = w /\ \A i \in 1 .. w : x[i] = v[i]
  <2> HIDE DEF v, w
  <2>1. 1 \in 1 .. Len(v) + 1 /\ w \in 1 - 1 .. Len(v) /\ w - 1 + 1 = w
    BY <1>1
  <2>2. \A i \in 1 .. w : 1 + i - 1 = i
    BY <1>1
  <2> QED BY <1>1, <2>1, <2>2, Part
<1>3. z \in Seq(Nat) /\ Len(z) = Len(v) - (w + n)
  <2> HIDE DEF v, w, n
  <2> DEFINE m == w + n + 1
  <2>1. m \in 1 .. Len(v) + 1 /\ Len(v) \in m - 1 .. Len(v)
        /\ Len(v) - m + 1 = Len(v) - (w + n)
    BY <1>1
  <2> HIDE DEF m
  <2>2. SubSeq(v, m, Len(v)) \in Seq(Nat) /\ Len(SubSeq(v, m, Len(v))) = Len(v) - (w + n)
    BY <1>1, <2>1, Part
  <2> QED BY <2>2 DEF m
<1> HIDE DEF x, z
<1>4. y \in Seq(Nat) /\ Len(y) = w + n
      /\ \A i \in 1 .. w + n : y[i] = IF i <= w THEN x[i] ELSE s[i - w]
  <2>1. /\ y \in Seq(Nat) /\ Len(y) = Len(x) + n
        /\ \A i \in 1 .. Len(x) + n : y[i] = IF i <= Len(x) THEN x[i] ELSE s[i - Len(x)]
    BY <1>2, ConcatProperties
  <2> QED BY <1>2, <2>1
<1> HIDE DEF y
<1>5. t \in Seq(Nat) /\ Len(t) = Len(v) /\ \A i \in 1 .. w + n : t[i] = y[i]
  <2> HIDE DEF v, w, n
  <2>1. t \in Seq(Nat) /\ Len(t) = Len(y) + Len(z)
        /\ \A i \in 1 .. Len(y) + Len(z) : t[i] = IF i <= Len(y) THEN y[i] ELSE z[i - Len(y)]
    BY <1>3, <1>4, ConcatProperties
  <2>2. w + n + (Len(v) - (w + n)) = Len(v)
    BY <1>1
  <2>3. \A i \in 1 .. w + n : i \in 1 .. Len(v)
    BY <1>1
  <2> QED BY <1>3, <1>4, <2>1, <2>2, <2>3
<1> HIDE DEF t
<1>6. Copied(b, s) = t
  BY <1>5, SubSeqFull DEF Copied, t, x, y, z
<1>7. \A i \in 1 .. w : t[i] = v[i]
  <2> HIDE DEF v, w, n
  <2> TAKE i \in 1 .. w
  <2>1. i \in 1 .. w + n /\ i <= w
    BY <1>1
  <2> QED BY <1>2, <1>4, <1>5, <2>1
<1>8. \A i \in 1 .. n : t[w + i] = s[i]
  <2> HIDE DEF v, w, n
  <2> TAKE i \in 1 .. n
  <2>1. w + i \in 1 .. w + n /\ ~(w + i <= w) /\ (w + i) - w = i
    BY <1>1
  <2>2. t[w + i] = y[w + i]
    BY <1>5, <2>1
  <2>3. y[w + i] = s[(w + i) - w]
    BY <1>4, <2>1
  <2> QED BY <2>1, <2>2, <2>3
<1> QED BY <1>5, <1>6, <1>7, <1>8

LEMMA WrittenBehind ==
    ASSUME NEW b, Buffer(b), NEW s \in Seq(Nat), Len(s) <= writeAble(b),
           NEW c, c \in [m_buffer : Seq(Nat), m_read_index : Nat, m_write_index : Nat],
           c.m_buffer = Copied(b, s), c.m_read_index = b.m_read_index,
           c.m_write_index = b.m_write_index + Len(s)
    PROVE  Buffer(c) /\ getBufferString(c) = getBufferString(b) \o s
<1> DEFINE u == getBufferString(b)  l == readAble(b)  w == b.m_write_index
           r == b.m_read_index  n == Len(s)
<1>1. /\ Copied(b, s) \in Seq(Nat) /\ Len(Copied(b, s)) = Len(b.m_buffer)
      /\ \A i \in 1 .. w : Copied(b, s)[i] = b.m_buffer[i]
      /\ \A i \in 1 .. n : Copied(b, s)[w + i] = s[i]
  BY CopiedIn
<1>2. r \in Nat /\ w \in Nat /\ n \in Nat /\ r <= w /\ w + n <= Len(b.m_buffer) /\ l = w - r
  BY DEF Buffer, Indices, writeAble, readAble
<1>3. Buffer(c) /\ readAble(c) = l + n
  BY <1>1, <1>2 DEF Buffer, Indices, readAble
<1>4. /\ u \in Seq(Nat) /\ Len(u) = l /\ l \in Nat
      /\ \A i \in 1 .. l : u[i] = b.m_buffer[r + i]
  BY Unread
<1>5. /\ getBufferString(c) \in Seq(Nat) /\ Len(getBufferString(c)) = l + n
      /\ \A i \in 1 .. l + n : getBufferString(c)[i] = Copied(b, s)[r + i]
  BY <1>3, Unread
<1> HIDE DEF u, l, w, r, n
<1>6. /\ u \o s \in Seq(Nat) /\ Len(u \o s) = l + n
      /\ \A i \in 1 .. l + n : (u \o s)[i] = IF i <= l THEN u[i] ELSE s[i - l]
  BY <1>4, ConcatProperties DEF n
<1>7. ASSUME NEW i \in 1 .. l + n PROVE getBufferString(c)[i] = (u \o s)[i]
  <2>1. CASE i <= l
    <3>1. i \in 1 .. l /\ r + i \in 1 .. w
      BY <1>2, <1>4, <2>1
    <3> QED BY <1>1, <1>4, <1>5, <1>6, <2>1, <3>1
  <2>2. CASE ~(i <= l)
    <3>1. i - l \in 1 .. n /\ r + i = w + (i - l)
      BY <1>2, <1>4, <2>2, SMTT(40)
    <3> QED BY <1>1, <1>5, <1>6, <2>2, <3>1
  <2> QED BY <2>1, <2>2
<1>8. getBufferString(c) = u \o s
  BY <1>5, <1>6, <1>7, SeqEqual
<1> QED BY <1>3, <1>8 DEF u

LEMMA RoomMade ==
    ASSUME NEW b, Buffer(b)
    PROVE  Buffer(WithRoom(b)) /\ getBufferString(WithRoom(b)) = getBufferString(b)
<1>1. 2 * Len(b.m_buffer) \in Nat \ {0} /\ readAble(b) <= 2 * Len(b.m_buffer)
  <2>1. Len(b.m_buffer) \in Nat /\ b.m_write_index \in Nat /\ b.m_read_index \in Nat
    BY DEF Buffer
  <2> QED BY <2>1 DEF Buffer, Indices, readAble
<1>2. CASE writeAble(b) = 0
  BY <1>1, <1>2, Resized DEF WithRoom
<1>3. CASE writeAble(b) # 0
  BY <1>3 DEF WithRoom
<1> QED BY <1>2, <1>3

LEMMA ReceivedBehind ==
    ASSUME NEW b, Buffer(b), NEW s \in Seq(Nat), Len(s) <= writeAble(WithRoom(b))
    PROVE  Buffer(Received(b, s)) /\ getBufferString(Received(b, s)) = getBufferString(b) \o s
<1> DEFINE r == WithRoom(b)
           f == [r EXCEPT !.m_buffer = Copied(r, s)]
           c == [f EXCEPT !.m_write_index = @ + Len(s)]
<1>1. Buffer(r) /\ getBufferString(r) = getBufferString(b)
  BY RoomMade
<1> HIDE DEF r
<1>2. Copied(r, s) \in Seq(Nat) /\ Len(Copied(r, s)) = Len(r.m_buffer)
  BY <1>1, CopiedIn DEF r
<1>3. /\ f \in [m_buffer : Seq(Nat), m_read_index : Nat, m_write_index : Nat]
      /\ f.m_buffer = Copied(r, s) /\ f.m_read_index = r.m_read_index
      /\ f.m_write_index = r.m_write_index
  BY <1>1, <1>2 DEF Buffer
<1> HIDE DEF f
<1>4. r.m_write_index + Len(s) \in Nat /\ r.m_write_index + Len(s) <= Len(r.m_buffer)
  BY <1>1 DEF Buffer, Indices, writeAble, r
<1>5. /\ c \in [m_buffer : Seq(Nat), m_read_index : Nat, m_write_index : Nat]
      /\ c.m_buffer = Copied(r, s) /\ c.m_read_index = r.m_read_index
      /\ c.m_write_index = r.m_write_index + Len(s)
  BY <1>3, <1>4
<1> HIDE DEF c
<1>6. Buffer(c) /\ getBufferString(c) = getBufferString(b) \o s
  BY <1>1, <1>5, WrittenBehind DEF r
<1>7. Received(b, s) = adjustBuffer(c)
  <2>1. ~(f.m_write_index + Len(s) > Len(f.m_buffer))
    <3>1. Len(r.m_buffer) \in Nat
      BY <1>1 DEF Buffer
    <3> QED BY <1>2, <1>3, <1>4, <3>1
  <2> QED BY <2>1 DEF Received, recycleWrite, r, f, c
<1> QED BY <1>6, <1>7, Adjusted

LEMMA Grown ==
    ASSUME NEW b, Buffer(b), NEW s \in Seq(Nat)
    PROVE  /\ Buffer(GrownFor(b, s)) /\ getBufferString(GrownFor(b, s)) = getBufferString(b)
           /\ Len(s) <= writeAble(GrownFor(b, s))
<1> DEFINE n == (3 * (b.m_write_index + Len(s))) \div 2
<1>1. /\ Len(s) \in Nat /\ b.m_write_index \in Nat /\ b.m_read_index \in Nat
      /\ Len(b.m_buffer) \in Nat /\ b.m_read_index <= b.m_write_index
      /\ b.m_write_index <= Len(b.m_buffer)
  BY DEF Buffer, Indices
<1>2. CASE Len(s) > writeAble(b)
  <2>1. Len(s) > 0
    BY <1>1, <1>2 DEF writeAble
  <2>2. n \in Nat \ {0} /\ b.m_write_index + Len(s) <= n
    BY <1>1, <2>1
  <2> HIDE DEF n
  <2>3. readAble(b) <= n /\ readAble(b) + Len(s) <= n /\ readAble(b) \in Nat
    BY <1>1, <2>2 DEF readAble
  <2>4. /\ Buffer(resizeBuffer(b, n))
        /\ getBufferString(resizeBuffer(b, n)) = getBufferString(b)
        /\ Len(resizeBuffer(b, n).m_buffer) = n
        /\ resizeBuffer(b, n).m_write_index = readAble(b)
    BY <2>2, <2>3, Resized
  <2>5. Len(s) <= writeAble(resizeBuffer(b, n))
    BY <1>1, <2>2, <2>3, <2>4 DEF writeAble
  <2>6. GrownFor(b, s) = resizeBuffer(b, n)
    BY <1>2 DEF GrownFor, n
  <2> QED BY <2>4, <2>5, <2>6
<1>3. CASE ~(Len(s) > writeAble(b))
  BY <1>1, <1>3 DEF GrownFor, writeAble
<1> QED BY <1>2, <1>3

LEMMA WrittenTo ==
    ASSUME NEW b, Buffer(b), NEW s \in Seq(Nat)
    PROVE  /\ Buffer(writeToBuffer(b, s))
           /\ getBufferString(writeToBuffer(b, s)) = getBufferString(b) \o s
<1> DEFINE g == GrownFor(b, s)
           c == [g EXCEPT !.m_buffer = Copied(g, s), !.m_write_index = @ + Len(s)]
<1>1. /\ Buffer(g) /\ getBufferString(g) = getBufferString(b) /\ Len(s) <= writeAble(g)
  BY Grown
<1> HIDE DEF g
<1>2. Copied(g, s) \in Seq(Nat) /\ g.m_write_index + Len(s) \in Nat
  <2>1. g.m_write_index \in Nat /\ Len(s) \in Nat
    BY <1>1 DEF Buffer
  <2> QED BY <1>1, <2>1, CopiedIn
<1>3. /\ c \in [m_buffer : Seq(Nat), m_read_index : Nat, m_write_index : Nat]
      /\ c.m_buffer = Copied(g, s) /\ c.m_read_index = g.m_read_index
      /\ c.m_write_index = g.m_write_index + Len(s)
  BY <1>1, <1>2 DEF Buffer
<1>4. writeToBuffer(b, s) = c
  BY DEF writeToBuffer, g
<1> HIDE DEF c
<1>5. Buffer(c) /\ getBufferString(c) = getBufferString(g) \o s
  BY <1>1, <1>3, WrittenBehind
<1> QED BY <1>1, <1>4, <1>5

-----------------------------------------------------------------------------
(***************************************************************************)
(* Strings of tokens, and what is cut out of them.                         *)
(***************************************************************************)
LEMMA UpTo ==
    ASSUME NEW n \in Nat, NEW P \in SUBSET (0 .. n), 0 \in P,
           \A m \in P : m < n => m + 1 \in P
    PROVE  P = 0 .. n
<1> DEFINE T == (0 .. n) \ P
<1> SUFFICES ASSUME T # {} PROVE FALSE
  OBVIOUS
<1>1. T \in SUBSET Nat
  OBVIOUS
<1>2. PICK k \in T : \A j \in T : k <= j
  <2> HIDE DEF T
  <2> QED BY <1>1, LeastExists
<1>3. k \in 1 .. n
  OBVIOUS
<1>4. k - 1 \in 0 .. n /\ ~(k <= k - 1) /\ k - 1 < n /\ k - 1 + 1 = k
  BY <1>3
<1>5. k - 1 \in P
  BY <1>2, <1>4
<1> QED BY <1>4, <1>5

LEMMA Piece ==
    ASSUME NEW S, NEW s \in Seq(S), NEW m \in Nat \ {0}, NEW n \in Int, n <= Len(s)
    PROVE  SubSeq(s, m, n) \in Seq(S) /\ Len(SubSeq(s, m, n)) = IF m <= n THEN n - m + 1 ELSE 0
<1>1. \A i \in m .. n : s[i] \in S
  OBVIOUS
<1> QED BY <1>1, SubSeqProperties

LEMMA LeastOf ==
    ASSUME NEW n \in Nat, NEW S \in SUBSET (1 .. n)
    PROVE  /\ Least(S) \in 0 .. n
           /\ Least(S) = 0 <=> S = {}
           /\ S # {} => Least(S) \in S /\ \A j \in S : Least(S) <= j
<1>1. CASE S = {}
  BY <1>1 DEF Least
<1>2. CASE S # {}
  <2>1. S \in SUBSET Nat
    OBVIOUS
  <2>2. Min(S) \in S /\ \A j \in S : Min(S) <= j
    BY <1>2, <2>1, MinIsLeast
  <2>3. Least(S) = Min(S)
    BY <1>2 DEF Least
  <2>4. Least(S) \in 1 .. n
    BY <2>2, <2>3
  <2> QED BY <1>2, <2>2, <2>3, <2>4
<1> QED BY <1>1, <1>2

LEMMA AfterIs ==
    ASSUME NEW S, NEW s \in Seq(S), NEW i \in Nat
    PROVE  /\ After(s, i) \in Seq(S)
           /\ Len(After(s, i)) = IF i <= Len(s) THEN Len(s) - i ELSE 0
<1>1. i + 1 \in Nat \ {0} /\ Len(s) \in Nat
  OBVIOUS
<1>2. /\ SubSeq(s, i + 1, Len(s)) \in Seq(S)
      /\ Len(SubSeq(s, i + 1, Len(s))) = IF i + 1 <= Len(s) THEN Len(s) - (i + 1) + 1 ELSE 0
  BY <1>1, Piece
<1> QED BY <1>1, <1>2 DEF After

LEMMA FirstOf ==
    ASSUME NEW s \in Seq(Nat), NEW t \in Seq(Nat)
    PROVE  find_first_of(s, t) \in 0 .. Len(s) /\ (find_first_of(s, t) # 0 => Len(t) > 0)
<1> DEFINE S == {i \in DOMAIN s : \E j \in DOMAIN t : s[i] = t[j]}
<1>1. S \in SUBSET (1 .. Len(s)) /\ Len(s) \in Nat
  OBVIOUS
<1>2. S # {} => Len(t) > 0
  OBVIOUS
<1> HIDE DEF S
<1>3. Least(S) \in 0 .. Len(s) /\ (Least(S) = 0 <=> S = {})
  BY <1>1, LeastOf
<1>4. find_first_of(s, t) = Least(S)
  BY DEF find_first_of, S
<1> QED BY <1>2, <1>3, <1>4

LEMMA LastOfIn ==
    ASSUME NEW s \in Seq(Nat), NEW t \in Seq(Nat)
    PROVE  find_last_of(s, t) \in 0 .. Len(s)
<1> DEFINE S == {i \in DOMAIN s : \E j \in DOMAIN t : s[i] = t[j]}
<1>1. S \in SUBSET (1 .. Len(s)) /\ Len(s) \in Nat
  OBVIOUS
<1> HIDE DEF S
<1>2. S # {} => Max(S) \in S
  BY <1>1, MaxIsGreatest
<1>3. find_last_of(s, t) = IF S = {} THEN 0 ELSE Max(S)
  BY DEF find_last_of, S
<1>4. S = {} => find_last_of(s, t) \in 0 .. Len(s)
  BY <1>1, <1>3
<1>5. S # {} => find_last_of(s, t) \in 0 .. Len(s)
  <2> SUFFICES ASSUME S # {} PROVE find_last_of(s, t) \in 0 .. Len(s)
    OBVIOUS
  <2>1. Max(S) \in 1 .. Len(s)
    BY <1>1, <1>2
  <2> QED BY <1>3, <2>1
<1> QED BY <1>4, <1>5

\* Where t is found in s for the first time.
LEMMA FoundAt ==
    ASSUME NEW s \in Seq(Nat), NEW t \in Seq(Nat), t # <<>>
    PROVE  /\ find(s, t) \in 0 .. Len(s)
           /\ find(s, t) # 0 => /\ find(s, t) + Len(t) - 1 <= Len(s)
                                /\ SubSeq(s, find(s, t), find(s, t) + Len(t) - 1) = t
           /\ \A i \in 1 .. Len(s) - Len(t) + 1 :
                  SubSeq(s, i, i + Len(t) - 1) = t => find(s, t) # 0 /\ find(s, t) <= i
<1> DEFINE S == {i \in 1 .. Len(s) - Len(t) + 1 : SubSeq(s, i, i + Len(t) - 1) = t}
<1>1. Len(s) \in Nat /\ Len(t) \in Nat \ {0}
  OBVIOUS
<1>2. S \in SUBSET (1 .. Len(s))
  BY <1>1
<1>3. \A i \in S : i + Len(t) - 1 <= Len(s) /\ SubSeq(s, i, i + Len(t) - 1) = t
  BY <1>1
<1>4. \A i \in 1 .. Len(s) - Len(t) + 1 : SubSeq(s, i, i + Len(t) - 1) = t => i \in S
  OBVIOUS
<1>5. find(s, t) = Least(S)
  BY DEF find
<1> HIDE DEF S
<1>6. /\ Least(S) \in 0 .. Len(s)
      /\ Least(S) = 0 <=> S = {}
      /\ S # {} => Least(S) \in S /\ \A j \in S : Least(S) <= j
  BY <1>1, <1>2, LeastOf
<1>7. ASSUME NEW i \in S PROVE Least(S) # 0 /\ Least(S) <= i
  BY <1>6
<1> QED BY <1>3, <1>4, <1>5, <1>6, <1>7

\* What Pieces() builds up, from the end of the string on.
LEMMA PiecesAreStrings ==
    ASSUME NEW tmp \in Seq(Nat), NEW split_str \in Seq(Nat), tmp # <<>>
    PROVE  Pieces(tmp, split_str) \in Seq(Seq(Nat))
<1> DEFINE N == Len(tmp) + Len(split_str)
           T == Seq(Seq(Nat))
           at(k) == find_first_of(After(tmp, k - 1), split_str)
           piece(k) == SubSeq(tmp, k, k + at(k) - 2)
           next(k) == k + at(k) + Len(split_str) - 1
           Step(g, k) == IF at(k) = 0 THEN <<>>
                         ELSE (IF piece(k) = <<>> THEN <<>> ELSE <<piece(k)>>) \o g[next(k)]
           Answer == CHOOSE g : g = [k \in 1 .. N |-> Step(g, k)]
<1>1. N \in Nat \ {0} /\ Len(tmp) \in Nat /\ Len(split_str) \in Nat
  OBVIOUS
<1>2. ASSUME NEW k \in 1 .. N, at(k) # 0
      PROVE  next(k) \in k + 1 .. N /\ piece(k) \in Seq(Nat)
  <2>1. k - 1 \in Nat
    OBVIOUS
  <2>2. After(tmp, k - 1) \in Seq(Nat)
        /\ Len(After(tmp, k - 1)) = IF k - 1 <= Len(tmp) THEN Len(tmp) - (k - 1) ELSE 0
    BY <2>1, AfterIs
  <2>3. at(k) \in 0 .. Len(After(tmp, k - 1)) /\ Len(split_str) > 0
    BY <1>2, <2>2, FirstOf
  <2> HIDE DEF at
  <2>4. k - 1 <= Len(tmp) /\ at(k) \in 1 .. Len(tmp) - (k - 1)
    BY <1>1, <1>2, <2>1, <2>2, <2>3
  <2>5. next(k) \in k + 1 .. N
    BY <1>1, <2>3, <2>4
  <2>6. k \in Nat \ {0} /\ k + at(k) - 2 \in Int /\ k + at(k) - 2 <= Len(tmp)
    BY <1>1, <2>4
  <2> QED BY <2>5, <2>6, Piece
<1>3. ASSUME NEW k \in 1 .. N, NEW g, at(k) # 0 => g[next(k)] \in T
      PROVE  Step(g, k) \in T
  <2>1. CASE at(k) = 0
    BY <2>1
  <2>2. CASE at(k) # 0
    <3>1. piece(k) \in Seq(Nat)
      BY <1>2, <2>2
    <3> HIDE DEF piece, at, next
    <3>2. (IF piece(k) = <<>> THEN <<>> ELSE <<piece(k)>>) \in T
      BY <3>1
    <3> QED BY <1>3, <2>2, <3>2
  <2> QED BY <2>1, <2>2
<1>4. ASSUME NEW k \in 1 .. N, NEW g, NEW h, at(k) # 0 => g[next(k)] = h[next(k)]
      PROVE  Step(g, k) = Step(h, k)
  <2> HIDE DEF piece, at, next
  <2> QED BY <1>4
<1> HIDE DEF Step, T
<1>5. PICK f : f = [k \in 1 .. N |-> Step(f, k)]
  <2> DEFINE Has(m, g) == /\ g \in [N - m + 1 .. N -> T]
                          /\ \A k \in N - m + 1 .. N : g[k] = Step(g, k)
             P == {m \in 0 .. N : \E g : Has(m, g)}
  <2>1. 0 \in P
    <3>1. N - 0 + 1 .. N = {} /\ 0 \in 0 .. N
      BY <1>1
    <3>2. Has(0, [k \in N - 0 + 1 .. N |-> 0])
      BY <3>1
    <3> HIDE DEF Has
    <3> QED BY <3>1, <3>2
  <2>2. ASSUME NEW m \in P, m < N PROVE m + 1 \in P
    <3>1. m \in 0 .. N /\ N - m \in 1 .. N /\ m + 1 \in 0 .. N /\ N - (m + 1) + 1 = N - m
      BY <1>1, <2>2
    <3>2. PICK g : Has(m, g)
      OBVIOUS
    <3> DEFINE j == N - m
               h == [k \in j .. N |-> IF k = j THEN Step(g, j) ELSE g[k]]
    <3>3. at(j) # 0 => next(j) \in j + 1 .. N
      BY <1>2, <3>1
    <3> HIDE DEF N, at, next, j
    <3>4. j \in 1 .. N /\ N - m + 1 = j + 1 /\ N - (m + 1) + 1 = j /\ N \in Nat
      BY <1>1, <3>1 DEF j
    <3>5. \A k \in j + 1 .. N : h[k] = g[k] /\ g[k] \in T /\ g[k] = Step(g, k)
      BY <3>2, <3>4
    <3>6. h[j] = Step(g, j) /\ Step(g, j) \in T
      <4>1. at(j) # 0 => g[next(j)] \in T
        BY <3>3, <3>5
      <4> QED BY <1>3, <3>4, <4>1
    <3>7. \A k \in j .. N : k = j \/ k \in j + 1 .. N
      BY <3>4
    <3>8. h \in [j .. N -> T]
      BY <3>5, <3>6, <3>7
    <3>9. ASSUME NEW k \in j .. N PROVE h[k] = Step(h, k)
      <4>1. k \in 1 .. N /\ (at(k) # 0 => next(k) \in k + 1 .. N)
        BY <1>2, <3>4 DEF at, next, N
      <4>2. at(k) # 0 => next(k) \in j + 1 .. N
        BY <3>4, <4>1
      <4>3. at(k) # 0 => g[next(k)] = h[next(k)]
        BY <3>5, <4>2
      <4>4. Step(g, k) = Step(h, k)
        BY <1>4, <4>1, <4>3
      <4> QED BY <3>5, <3>6, <3>7, <4>4
    <3> HIDE DEF h
    <3>10. Has(m + 1, h)
      BY <3>4, <3>8, <3>9
    <3> HIDE DEF Has
    <3> QED BY <3>1, <3>10
  <2> HIDE DEF Has
  <2>3. P \in SUBSET (0 .. N)
    OBVIOUS
  <2> HIDE DEF P
  <2>4. P = 0 .. N
    BY <1>1, <2>1, <2>2, <2>3, UpTo
  <2>5. N \in P
    BY <1>1, <2>4
  <2>6. PICK g : Has(N, g)
    BY <2>5 DEF P
  <2>7. N - N + 1 = 1
    BY <1>1
  <2>8. g = [k \in 1 .. N |-> Step(g, k)]
    BY <2>6, <2>7 DEF Has
  <2> QED BY <2>8
<1>6. Answer = [k \in 1 .. N |-> Step(Answer, k)]
  BY <1>5
<1>7. Pieces(tmp, split_str) = Answer[1]
  BY DEF Pieces, Answer, Step, N, at, piece, next
<1> HIDE DEF Answer
<1>8. Answer[1] \in T
  <2> DEFINE P == {m \in 0 .. N : \A k \in N - m + 1 .. N : Answer[k] \in T}
  <2>1. 0 \in P
    BY <1>1
  <2>2. ASSUME NEW m \in P, m < N PROVE m + 1 \in P
    <3>1. m \in 0 .. N /\ N - m \in 1 .. N /\ m + 1 \in 0 .. N /\ N - (m + 1) + 1 = N - m
      BY <1>1, <2>2
    <3>2. at(N - m) # 0 => next(N - m) \in N - m + 1 .. N
      BY <1>2, <3>1
    <3>3. \A k \in N - m + 1 .. N : Answer[k] \in T
      OBVIOUS
    <3>4. Step(Answer, N - m) \in T
      BY <1>3, <3>1, <3>2, <3>3
    <3>5. Answer[N - m] \in T
      BY <1>6, <3>1, <3>4
    <3> HIDE DEF N
    <3>6. \A k \in N - (m + 1) + 1 .. N : k = N - m \/ k \in N - m + 1 .. N
      BY <3>1
    <3> QED BY <3>1, <3>3, <3>5, <3>6
  <2>3. P \in SUBSET (0 .. N)
    OBVIOUS
  <2> HIDE DEF P
  <2>4. P = 0 .. N
    BY <1>1, <2>1, <2>2, <2>3, UpTo
  <2>5. N \in P /\ N - N + 1 = 1 /\ 1 \in 1 .. N
    BY <1>1, <2>4
  <2> QED BY <2>5 DEF P
<1> QED BY <1>7, <1>8 DEF T

Strings == Seq(Nat)
Pairs == UNION {[D -> Strings] : D \in SUBSET Strings}

LEMMA PairsAre ==
    ASSUME NEW p \in Pairs
    PROVE  /\ DOMAIN p \subseteq Strings
           /\ \A key \in DOMAIN p : p[key] \in Strings
           /\ \A key : ValueOf(p, key) \in Strings
<1>1. PICK D \in SUBSET Strings : p \in [D -> Strings]
  BY DEF Pairs
<1>2. DOMAIN p = D /\ \A key \in D : p[key] \in Strings
  BY <1>1
<1>3. <<>> \in Strings
  BY DEF Strings
<1> QED BY <1>2, <1>3 DEF ValueOf

LEMMA PutIsPairs ==
    ASSUME NEW p \in Pairs, NEW key \in Strings, NEW value \in Strings
    PROVE  /\ PutPair(p, key, value) \in Pairs
           /\ DOMAIN PutPair(p, key, value) = DOMAIN p \cup {key}
<1>1. DOMAIN p \subseteq Strings /\ \A k \in DOMAIN p : p[k] \in Strings
  BY PairsAre
<1>2. PutPair(p, key, value) \in [DOMAIN p \cup {key} -> Strings]
  BY <1>1 DEF PutPair
<1> QED BY <1>1, <1>2 DEF Pairs

LEMMA NoPairsArePairs == NoPairs \in Pairs
<1>1. NoPairs \in [{} -> Strings]
  BY DEF NoPairs
<1> QED BY <1>1 DEF Pairs

LEMMA KeysAndValues ==
    ASSUME NEW vec \in Seq(Strings), NEW joiner \in Strings, joiner # <<>>
    PROVE  KeyValues(vec, joiner) \in Pairs
<1> USE DEF Strings
<1> DEFINE Cut(piece) == find_first_of(piece, joiner)
           Key(piece) == SubSeq(piece, 1, Cut(piece) - 1)
           ValueIn(piece) == After(piece, Cut(piece) + Len(joiner) - 1)
           pairs == {i \in DOMAIN vec : Cut(vec[i]) > 1}
           Named(key) == {i \in pairs : Key(vec[i]) = key}
           LastOf(key) == Max(Named(key))
           D == {Key(vec[i]) : i \in pairs}
<1>1. ASSUME NEW i \in DOMAIN vec
      PROVE  Key(vec[i]) \in Strings /\ ValueIn(vec[i]) \in Strings
  <2>1. vec[i] \in Seq(Nat)
    OBVIOUS
  <2>2. Cut(vec[i]) \in 0 .. Len(vec[i])
    BY <2>1, FirstOf
  <2> HIDE DEF Cut
  <2>3. Len(vec[i]) \in Nat /\ Len(joiner) \in Nat \ {0}
    BY <2>1
  <2>4. Cut(vec[i]) - 1 \in Int /\ Cut(vec[i]) - 1 <= Len(vec[i])
        /\ Cut(vec[i]) + Len(joiner) - 1 \in Nat
    BY <2>2, <2>3
  <2>5. 1 \in Nat \ {0}
    OBVIOUS
  <2>6. SubSeq(vec[i], 1, Cut(vec[i]) - 1) \in Seq(Nat)
    BY <2>1, <2>4, <2>5, Piece
  <2>7. After(vec[i], Cut(vec[i]) + Len(joiner) - 1) \in Seq(Nat)
    BY <2>1, <2>4, AfterIs
  <2> QED BY <2>6, <2>7
<1>2. pairs \subseteq DOMAIN vec /\ DOMAIN vec = 1 .. Len(vec) /\ Len(vec) \in Nat
  OBVIOUS
<1> HIDE DEF Cut, Key, ValueIn, pairs
<1>3. D \in SUBSET Strings
  BY <1>1, <1>2
<1>4. ASSUME NEW key \in D PROVE ValueIn(vec[LastOf(key)]) \in Strings
  <2>1. Named(key) # {} /\ Named(key) \in SUBSET (1 .. Len(vec))
    BY <1>2
  <2>2. LastOf(key) \in Named(key)
    <3> HIDE DEF Named
    <3> QED BY <1>2, <2>1, MaxIsGreatest
  <2> QED BY <1>1, <1>2, <2>2
<1> DEFINE kv == [key \in D |-> ValueIn(vec[LastOf(key)])]
<1>5. kv \in [D -> Strings]
  BY <1>4
<1>6. KeyValues(vec, joiner) = kv
  BY DEF KeyValues, Cut, Key, ValueIn, pairs
<1> HIDE DEF kv, D
<1> QED BY <1>3, <1>5, <1>6 DEF Pairs

LEMMA SplitIntoPairs ==
    ASSUME NEW str \in Strings, NEW split_str \in Strings, NEW joiner \in Strings, joiner # <<>>
    PROVE  SplitStrToMap(str, split_str, joiner) \in Pairs
<1> USE DEF Strings
<1>1. SplitStrToVector(str, split_str) \in Seq(Seq(Nat))
  <2>1. CASE str = <<>>
    BY <2>1 DEF SplitStrToVector
  <2>2. CASE str # <<>>
    <3> DEFINE tmp == IF Ends(str, split_str) THEN str ELSE str \o split_str
    <3>1. tmp \in Seq(Nat) /\ tmp # <<>>
      <4>1. str \o split_str \in Seq(Nat) /\ Len(str \o split_str) = Len(str) + Len(split_str)
        BY ConcatProperties
      <4>2. Len(str) \in Nat \ {0} /\ Len(split_str) \in Nat
        BY <2>2
      <4>3. str \o split_str # <<>>
        BY <4>1, <4>2
      <4> QED BY <2>2, <4>1, <4>3
    <3> HIDE DEF tmp
    <3>2. Pieces(tmp, split_str) \in Seq(Seq(Nat))
      BY <3>1, PiecesAreStrings
    <3> QED BY <2>2, <3>2 DEF SplitStrToVector, tmp
  <2> QED BY <2>1, <2>2
<1> QED BY <1>1, KeysAndValues DEF SplitStrToMap

-----------------------------------------------------------------------------
(***************************************************************************)
(* HTTP: requests, and what is taken for them.                             *)
(***************************************************************************)
HttpRequests ==
    [method : Strings, version : Strings, path : Strings, query : Pairs,
     header : Pairs, body : Strings]

LEMMA CRLF == /\ g_CRLF \in Seq(Nat) /\ Len(g_CRLF) = 2 /\ g_CRLF # <<>>
              /\ g_CRLF \o g_CRLF \in Seq(Nat) /\ Len(g_CRLF \o g_CRLF) = 4
              /\ g_CRLF \o g_CRLF # <<>>
<1>1. g_CRLF \in Seq(Nat) /\ Len(g_CRLF) = 2 /\ g_CRLF # <<>>
  BY DEF g_CRLF, CR, LF
<1> HIDE DEF g_CRLF
<1>2. g_CRLF \o g_CRLF \in Seq(Nat) /\ Len(g_CRLF \o g_CRLF) = Len(g_CRLF) + Len(g_CRLF)
  BY <1>1, ConcatProperties
<1>3. Len(g_CRLF \o g_CRLF) = 4
  BY <1>1, <1>2
<1>4. g_CRLF \o g_CRLF # <<>>
  BY <1>2, <1>3
<1> QED BY <1>1, <1>2, <1>3, <1>4

LEMMA LocalUrl ==
    ASSUME NEW url \in Strings, NEW scheme \in Nat
    PROVE  Local(url, scheme) \in Strings
<1> USE DEF Strings
<1> DEFINE host == After(url, scheme + 2)
           root == find_first_of(host, <<SLASH>>)
<1>1. host \in Seq(Nat)
  BY AfterIs
<1> HIDE DEF host
<1>2. <<SLASH>> \in Seq(Nat) /\ <<>> \in Seq(Nat)
  BY DEF SLASH
<1>3. root \in 0 .. Len(host)
  BY <1>1, <1>2, FirstOf
<1>4. root \in Nat
  BY <1>1, <1>3
<1>5. After(host, root) \in Seq(Nat)
  BY <1>1, <1>4, AfterIs
<1>6. \/ Local(url, scheme) = url
      \/ Local(url, scheme) = <<>>
      \/ Local(url, scheme) = After(host, root)
  BY DEF Local, host
<1> QED BY <1>2, <1>5, <1>6

LEMMA PartsOfUrl ==
    ASSUME NEW local \in Strings
    PROVE  UrlParts(local).path \in Strings /\ UrlParts(local).query \in Pairs
<1> USE DEF Strings
<1> DEFINE mark == find_first_of(local, <<MARK>>)
<1>1. <<MARK>> \in Seq(Nat) /\ <<AMP>> \in Seq(Nat) /\ <<EQ>> \in Seq(Nat) /\ <<EQ>> # <<>>
  BY DEF MARK, AMP, EQ
<1>0. local \in Seq(Nat)
  OBVIOUS
<1>2. mark \in 0 .. Len(local) /\ Len(local) \in Nat
  <2>1. mark \in 0 .. Len(local)
    BY <1>0, <1>1, FirstOf
  <2>2. Len(local) \in Nat
    BY <1>0
  <2> QED BY <2>1, <2>2
<1> HIDE DEF mark
<1>3. mark \in Nat /\ mark - 1 \in Int /\ mark - 1 <= Len(local) /\ 1 \in Nat \ {0}
  BY <1>2
<1>4. SubSeq(local, 1, mark - 1) \in Seq(Nat) /\ After(local, mark) \in Seq(Nat)
  <2>1. SubSeq(local, 1, mark - 1) \in Seq(Nat)
    BY <1>0, <1>3, Piece
  <2>2. After(local, mark) \in Seq(Nat)
    BY <1>0, <1>3, AfterIs
  <2> QED BY <2>1, <2>2
<1>5. SplitStrToMap(After(local, mark), <<AMP>>, <<EQ>>) \in Pairs
  BY <1>1, <1>4, SplitIntoPairs
<1> QED BY <1>4, <1>5, NoPairsArePairs DEF UrlParts, PathAndQuery, mark

LEMMA LineParts ==
    ASSUME NEW tmp \in Strings
    PROVE  /\ parseHttpRequestLine(tmp).ok \in BOOLEAN
           /\ parseHttpRequestLine(tmp).method \in Strings
           /\ parseHttpRequestLine(tmp).version \in Strings
           /\ parseHttpRequestLine(tmp).path \in Strings
           /\ parseHttpRequestLine(tmp).query \in Pairs
<1> USE DEF Strings
<1> DEFINE s1 == find_first_of(tmp, <<SP>>)
           s2 == find_last_of(tmp, <<SP>>)
           url == SubSeq(tmp, s1 + 1, s2 - 1)
           scheme == find(url, <<COLON, SLASH, SLASH>>)
<1>1. <<SP>> \in Seq(Nat) /\ <<COLON, SLASH, SLASH>> \in Seq(Nat) /\ <<COLON, SLASH, SLASH>> # <<>>
  BY DEF SP, COLON, SLASH
<1>0. tmp \in Seq(Nat) /\ Len(tmp) \in Nat
  OBVIOUS
<1>2. s1 \in 0 .. Len(tmp) /\ s2 \in 0 .. Len(tmp)
  <2>1. s1 \in 0 .. Len(tmp)
    BY <1>0, <1>1, FirstOf
  <2>2. s2 \in 0 .. Len(tmp)
    BY <1>0, <1>1, LastOfIn
  <2> QED BY <2>1, <2>2
<1> HIDE DEF s1, s2
<1>3. /\ s1 - 1 \in Int /\ s1 - 1 <= Len(tmp) /\ s1 + 1 \in Nat \ {0}
      /\ s2 - 1 \in Int /\ s2 - 1 <= Len(tmp) /\ s2 \in Nat /\ 1 \in Nat \ {0}
  BY <1>0, <1>2
<1>4. SubSeq(tmp, 1, s1 - 1) \in Seq(Nat) /\ url \in Seq(Nat) /\ After(tmp, s2) \in Seq(Nat)
  <2>1. SubSeq(tmp, 1, s1 - 1) \in Seq(Nat)
    BY <1>0, <1>3, Piece
  <2>2. SubSeq(tmp, s1 + 1, s2 - 1) \in Seq(Nat)
    BY <1>0, <1>3, Piece
  <2>3. After(tmp, s2) \in Seq(Nat)
    BY <1>0, <1>3, AfterIs
  <2> QED BY <2>1, <2>2, <2>3
<1> HIDE DEF url
<1>5. scheme \in Nat
  <2>1. scheme \in 0 .. Len(url)
    BY <1>1, <1>4, FoundAt
  <2>2. Len(url) \in Nat
    BY <1>4
  <2> HIDE DEF scheme
  <2> QED BY <2>1, <2>2
<1> HIDE DEF scheme
<1>6. Local(url, scheme) \in Strings
  BY <1>4, <1>5, LocalUrl
<1>7. /\ UrlParts(Local(url, scheme)).path \in Strings
      /\ UrlParts(Local(url, scheme)).query \in Pairs
  BY <1>6, PartsOfUrl
<1>8. /\ parseHttpRequestLine(tmp).ok \in BOOLEAN
      /\ parseHttpRequestLine(tmp).method = SubSeq(tmp, 1, s1 - 1)
      /\ parseHttpRequestLine(tmp).version = After(tmp, s2)
      /\ parseHttpRequestLine(tmp).path = UrlParts(Local(url, scheme)).path
      /\ parseHttpRequestLine(tmp).query = UrlParts(Local(url, scheme)).query
  BY DEF parseHttpRequestLine, s1, s2, url, scheme
<1> QED BY <1>4, <1>7, <1>8

LEMMA HeaderPairs ==
    ASSUME NEW str \in Strings
    PROVE  parseHttpRequestHeader(str) \in Pairs
<1>1. g_CRLF \in Strings /\ <<COLON>> \in Strings /\ <<COLON>> # <<>>
  BY CRLF DEF COLON, Strings
<1> QED BY <1>1, SplitIntoPairs, NoPairsArePairs DEF parseHttpRequestHeader

LEMMA atoiIsNat == ASSUME NEW s \in Strings PROVE atoi(s) \in Nat
<1> DEFINE digits == {i \in DOMAIN s : s[i] >= 500 /\ \A k \in 1 .. i - 1 : s[k] = SP}
<1>1. s \in Seq(Nat) /\ digits \in SUBSET Nat /\ \A i \in digits : s[i] \in Nat /\ s[i] >= 500
  BY DEF Strings
<1>2. atoi(s) = IF digits = {} THEN 0 ELSE s[Min(digits)] - 500
  BY DEF atoi
<1> HIDE DEF digits
<1>3. digits # {} => Min(digits) \in digits
  BY <1>1, MinIsLeast
<1>4. digits # {} => s[Min(digits)] \in Nat /\ s[Min(digits)] >= 500
  BY <1>1, <1>3
<1>5. digits # {} => s[Min(digits)] - 500 \in Nat
  BY <1>4
<1> QED BY <1>2, <1>5

\* What decode() takes is there, and what it returns is a request.
LEMMA HttpParsed ==
    ASSUME NEW strs \in Strings
    PROVE  /\ parseHttp(strs).succ \in BOOLEAN
           /\ parseHttp(strs).taken \in 0 .. Len(strs)
           /\ parseHttp(strs).data \in HttpRequests
<1> USE DEF Strings
<1> DEFINE i == find(strs, g_CRLF)
           line == parseHttpRequestLine(SubSeq(strs, 1, i - 1))
           tmp == After(strs, i + 1)
           j == find(tmp, g_CRLF \o g_CRLF)
           header == parseHttpRequestHeader(SubSeq(tmp, 1, j - 1))
           content == After(tmp, j + 3)
           length == atoi(ValueOf(header, <<ContentLength>>))
           None == NewHttpRequest
<1>1. None \in HttpRequests
  BY NoPairsArePairs DEF NewHttpRequest, HttpRequests
<1>0. strs \in Seq(Nat) /\ Len(strs) \in Nat /\ 1 \in Nat \ {0}
  OBVIOUS
<1>2. i \in 0 .. Len(strs) /\ (i # 0 => i + 2 - 1 <= Len(strs)) /\ Len(strs) \in Nat
  BY <1>0, CRLF, FoundAt
<1> HIDE DEF i, None
<1>3. i - 1 \in Int /\ i - 1 <= Len(strs) /\ i + 1 \in Nat
  BY <1>2
<1>4. /\ SubSeq(strs, 1, i - 1) \in Seq(Nat) /\ tmp \in Seq(Nat) /\ Len(tmp) \in Nat
      /\ i # 0 => Len(tmp) = Len(strs) - (i + 1)
  <2>1. SubSeq(strs, 1, i - 1) \in Seq(Nat)
    BY <1>0, <1>3, Piece
  <2>2. tmp \in Seq(Nat) /\ Len(tmp) = IF i + 1 <= Len(strs) THEN Len(strs) - (i + 1) ELSE 0
    BY <1>0, <1>3, AfterIs
  <2> HIDE DEF tmp
  <2>3. i # 0 => Len(tmp) = Len(strs) - (i + 1)
    BY <1>2, <2>2
  <2> QED BY <2>1, <2>2, <2>3
<1> HIDE DEF tmp
<1>5. j \in 0 .. Len(tmp) /\ (j # 0 => j + 4 - 1 <= Len(tmp)) /\ Len(tmp) \in Nat
  BY <1>4, CRLF, FoundAt
<1> HIDE DEF j
<1>6. j - 1 \in Int /\ j - 1 <= Len(tmp) /\ j + 3 \in Nat
  BY <1>5
<1>7. /\ SubSeq(tmp, 1, j - 1) \in Seq(Nat) /\ content \in Seq(Nat) /\ Len(content) \in Nat
      /\ j # 0 => Len(content) = Len(tmp) - (j + 3)
  <2>1. SubSeq(tmp, 1, j - 1) \in Seq(Nat)
    BY <1>0, <1>4, <1>6, Piece
  <2>2. content \in Seq(Nat) /\ Len(content) = IF j + 3 <= Len(tmp) THEN Len(tmp) - (j + 3) ELSE 0
    BY <1>4, <1>6, AfterIs
  <2> HIDE DEF content
  <2>3. j # 0 => Len(content) = Len(tmp) - (j + 3)
    BY <1>5, <2>2
  <2> QED BY <2>1, <2>2, <2>3
<1>8. line.method \in Strings /\ line.version \in Strings /\ line.path \in Strings
      /\ line.query \in Pairs
  BY <1>4, LineParts
<1>9. header \in Pairs
  BY <1>7, HeaderPairs
<1> HIDE DEF line, header, content
<1>10. length \in Nat
  BY <1>9, PairsAre, atoiIsNat
<1> HIDE DEF length
<1>11. \/ parseHttp(strs) = NoRequest(FALSE)
       \/ parseHttp(strs) = NoRequest(TRUE)
       \/ i # 0 /\ j # 0 /\ parseHttp(strs) = Completed(line, header, content, length, i + 1 + j + 3)
  BY DEF parseHttp, WithHeader, i, line, tmp, j, header, content, length
<1>12. ASSUME NEW succ \in BOOLEAN, parseHttp(strs) = NoRequest(succ)
       PROVE  /\ parseHttp(strs).succ \in BOOLEAN /\ parseHttp(strs).taken \in 0 .. Len(strs)
              /\ parseHttp(strs).data \in HttpRequests
  BY <1>1, <1>2, <1>12 DEF NoRequest, None
<1>13. ASSUME i # 0, j # 0, Len(content) >= length,
              parseHttp(strs) = Completed(line, header, content, length, i + 1 + j + 3)
       PROVE  /\ parseHttp(strs).succ \in BOOLEAN /\ parseHttp(strs).taken \in 0 .. Len(strs)
              /\ parseHttp(strs).data \in HttpRequests
  <2> DEFINE body == IF line.method = <<POST>> THEN SubSeq(content, 1, length) ELSE <<>>
  <2>1. Len(content) \in Nat /\ ~(Len(content) < length)
    BY <1>7, <1>10, <1>13
  <2>2. body \in Seq(Nat) /\ Len(body) \in 0 .. Len(content)
    <3>1. /\ SubSeq(content, 1, length) \in Seq(Nat)
          /\ Len(SubSeq(content, 1, length)) = IF 1 <= length THEN length - 1 + 1 ELSE 0
      BY <1>7, <1>10, <1>13, Piece
    <3> QED BY <1>10, <1>13, <2>1, <3>1
  <2>3. parseHttp(strs) =
          [taken |-> i + 1 + j + 3 + Len(body), succ |-> TRUE,
           data |-> [method |-> line.method, version |-> line.version, path |-> line.path,
                     query |-> line.query, header |-> header, body |-> body]]
    <3> DEFINE head == i + 1 + j + 3
    <3> HIDE DEF head
    <3>1. parseHttp(strs) = Completed(line, header, content, length, head)
      BY <1>13 DEF head
    <3>2. parseHttp(strs) =
            [taken |-> head + Len(body), succ |-> TRUE,
             data |-> [method |-> line.method, version |-> line.version, path |-> line.path,
                       query |-> line.query, header |-> header, body |-> body]]
      BY <2>1, <3>1, Zenon DEF Completed
    <3> QED BY <3>2 DEF head
  <2> HIDE DEF body
  <2>6. i + 1 + j + 3 + Len(body) \in 0 .. Len(strs)
    <3>1. i \in Nat /\ j \in Nat
      BY <1>2, <1>5
    <3>2. Len(tmp) = Len(strs) - (i + 1) /\ Len(content) = Len(tmp) - (j + 3)
      BY <1>4, <1>7, <1>13
    <3>3. Len(body) \in Nat /\ Len(body) <= Len(content) /\ Len(content) \in Nat
      BY <1>7, <2>2
    <3> QED BY <1>2, <1>4, <3>1, <3>2, <3>3
  <2>4. parseHttp(strs).taken \in 0 .. Len(strs)
    BY <2>3, <2>6
  <2>5. parseHttp(strs).data \in HttpRequests
    BY <1>8, <1>9, <2>2, <2>3 DEF HttpRequests
  <2> QED BY <2>3, <2>4, <2>5
<1>14. ASSUME Len(content) < length PROVE
           Completed(line, header, content, length, i + 1 + j + 3) = NoRequest(FALSE)
  BY <1>14 DEF Completed
<1>15. Len(content) >= length \/ Len(content) < length
  BY <1>7, <1>10
<1> QED BY <1>11, <1>12, <1>13, <1>14, <1>15

-----------------------------------------------------------------------------
(***************************************************************************)
(* The RPC protocol: messages, and what is taken for them.                 *)
(***************************************************************************)
PbMessages ==
    [msg_req : Strings, service_full_name : Strings, err_code : Nat,
     err_info : Strings, pb_data : Strings]

LEMMA JunkIsNat == ASSUME NEW junk \in Junk PROVE junk \in Nat
BY BytesAssumption

LEMMA CellsAre ==
    ASSUME NEW v \in Seq(Nat), NEW i \in Int, NEW junk \in Nat
    PROVE  At(v, i, junk) \in Nat /\ IntAt(v, i, junk) \in Nat
<1>1. ASSUME NEW k \in Int PROVE At(v, k, junk) \in Nat
  BY DEF At
<1>2. At(v, i, junk) \in Nat /\ At(v, i + 1, junk) \in Nat
  BY <1>1
<1>3. \A m, n \in Nat : m * Radix + n \in Nat
  BY RadixAssumption
<1> QED BY <1>2, <1>3 DEF IntAt

LEMMA TextIs ==
    ASSUME NEW v \in Seq(Nat), NEW i \in Int, NEW n \in Int, NEW junk \in Nat
    PROVE  Text(v, i, n, junk) \in Strings
<1> DEFINE t == [k \in 1 .. n |-> At(v, i + k - 1, junk)]
<1>1. \A k \in 1 .. n : At(v, i + k - 1, junk) \in Nat
  BY CellsAre
<1>2. t \in [1 .. n -> Nat]
  BY <1>1
<1> HIDE DEF t
<1>3. CASE n \in Nat
  BY <1>2, <1>3, Listed DEF Text, t, Strings
<1>4. CASE n \notin Nat
  <2>1. 1 .. n = {}
    BY <1>4
  <2>2. t = <<>>
    BY <2>1 DEF t
  <2>3. <<>> \in Seq(Nat)
    OBVIOUS
  <2> QED BY <2>2, <2>3 DEF Text, t, Strings
<1> QED BY <1>3, <1>4

LEMMA FieldsAre ==
    ASSUME NEW v \in Seq(Nat), NEW start \in Int, NEW end \in Int, NEW junk \in Nat
    PROVE  Fields(v, start, end, junk).succ \in BOOLEAN
           /\ Fields(v, start, end, junk).data \in PbMessages
<1> DEFINE N(i) == IntAt(v, i, junk)
           msg_len == start + 1 + IntLen
           service_len == msg_len + IntLen + N(msg_len)
           service == service_len + IntLen
           err_code == service + N(service_len)
           info_len == err_code + IntLen
           data == info_len + IntLen + N(info_len)
           pk_len == N(start + 1)
           left == pk_len - N(service_len) - N(msg_len) - N(info_len) - 2 - 6 * IntLen
           f == Fields(v, start, end, junk)
<1>1. IntLen \in Int
  BY DEF IntLen
<1>2. \A i \in Int : N(i) \in Nat
  BY CellsAre
<1> HIDE DEF N
<1>3. msg_len \in Int
  BY <1>1
<1>4. service_len \in Int /\ service \in Int
  BY <1>1, <1>2, <1>3
<1> HIDE DEF service_len, service
<1>5. err_code \in Int /\ info_len \in Int
  <2>1. N(service_len) \in Nat
    BY <1>2, <1>4
  <2> QED BY <1>1, <1>4, <2>1
<1> HIDE DEF err_code, info_len
<1>6. data \in Int
  <2>1. N(info_len) \in Nat
    BY <1>2, <1>5
  <2> QED BY <1>1, <1>5, <2>1
<1>7. left \in Int
  <2>1. N(start + 1) \in Nat /\ N(service_len) \in Nat /\ N(msg_len) \in Nat /\ N(info_len) \in Nat
    BY <1>2, <1>3, <1>4, <1>5, SMTT(40)
  <2> QED BY <1>1, <2>1
<1>8. msg_len + IntLen \in Int /\ info_len + IntLen \in Int
  BY <1>1, <1>3, <1>5
<1> HIDE DEF msg_len, data, left
<1>9. /\ Text(v, msg_len + IntLen, N(msg_len), junk) \in Strings
      /\ Text(v, service, N(service_len), junk) \in Strings
      /\ N(err_code) \in Nat
      /\ Text(v, info_len + IntLen, N(info_len), junk) \in Strings
      /\ Text(v, data, left, junk) \in Strings
  <2>1. N(msg_len) \in Int /\ N(service_len) \in Int /\ N(info_len) \in Int /\ N(err_code) \in Nat
    BY <1>2, <1>3, <1>4, <1>5
  <2>2. Text(v, msg_len + IntLen, N(msg_len), junk) \in Strings
    BY <1>8, <2>1, TextIs
  <2>3. Text(v, service, N(service_len), junk) \in Strings
    BY <1>4, <2>1, TextIs
  <2>4. Text(v, info_len + IntLen, N(info_len), junk) \in Strings
    BY <1>8, <2>1, TextIs
  <2>5. Text(v, data, left, junk) \in Strings
    BY <1>6, <1>7, TextIs
  <2> QED BY <2>1, <2>2, <2>3, <2>4, <2>5
<1>10. f.data = [msg_req |-> Text(v, msg_len + IntLen, N(msg_len), junk),
                 service_full_name |-> Text(v, service, N(service_len), junk),
                 err_code |-> N(err_code),
                 err_info |-> Text(v, info_len + IntLen, N(info_len), junk),
                 pb_data |-> Text(v, data, left, junk)]
  BY DEF Fields, N, msg_len, service_len, service, err_code, info_len, data, left
<1>11. f.succ \in BOOLEAN
  BY DEF Fields
<1> HIDE DEF f
<1>12. f.data \in PbMessages
  BY <1>9, <1>10 DEF PbMessages
<1> QED BY <1>11, <1>12 DEF f

\* A part of the unread bytes is taken from the front, or none.
Taken(b, c) ==
    /\ Buffer(c)
    /\ \E n \in 0 .. readAble(b) :
           getBufferString(c) = SubSeq(getBufferString(b), n + 1, readAble(b))

LEMMA NoneTaken == ASSUME NEW b, Buffer(b) PROVE Taken(b, b)
<1>1. getBufferString(b) \in Seq(Nat) /\ Len(getBufferString(b)) = readAble(b) /\ readAble(b) \in Nat
  BY Unread
<1>2. getBufferString(b) = SubSeq(getBufferString(b), 0 + 1, readAble(b))
  BY <1>1, SubSeqFull
<1>3. 0 \in 0 .. readAble(b)
  BY <1>1
<1> QED BY <1>2, <1>3 DEF Taken

LEMMA SomeTaken ==
    ASSUME NEW b, Buffer(b), NEW n \in 0 .. readAble(b)
    PROVE  Taken(b, recycleRead(b, n))
BY ReadRecycled DEF Taken

\* What decodePb() reports and leaves.
LEMMA PbDecoded ==
    ASSUME NEW b, Buffer(b), NEW junk \in Junk
    PROVE  /\ Taken(b, decodePb(b, junk).buf)
           /\ decodePb(b, junk).succ \in BOOLEAN
           /\ decodePb(b, junk).succ => decodePb(b, junk).data \in PbMessages
<1> DEFINE starts == FrameStarts(b, junk)
           start == Min(starts)
           end == EndIndex(b.m_buffer, start, junk)
           fields == Fields(b.m_buffer, start, end, junk)
           left == recycleRead(b, end + 1 - start)
           d == decodePb(b, junk)
<1>1. CASE starts = {}
  <2>1. d = [buf |-> b, succ |-> FALSE]
    BY <1>1 DEF decodePb
  <2> QED BY <2>1, NoneTaken
<1>2. CASE starts # {}
  <2>0. /\ b.m_buffer \in Seq(Nat) /\ b.m_read_index \in Nat /\ b.m_write_index \in Nat
        /\ junk \in Nat
    BY JunkIsNat DEF Buffer
  <2>1. starts \in SUBSET Nat
    BY <2>0 DEF FrameStarts
  <2>2. start \in starts
    <3> HIDE DEF starts
    <3> QED BY <1>2, <2>1, MinIsLeast
  <2> HIDE DEF start
  <2>3. /\ start \in b.m_read_index .. b.m_write_index - 2
        /\ end < b.m_write_index
    BY <2>2 DEF FrameStarts
  <2>4. start \in Int /\ IntAt(b.m_buffer, start + 1, junk) \in Nat
    BY <2>0, <2>3, CellsAre
  <2>5. end \in Int /\ end + 1 - start \in Nat
    BY <2>4 DEF EndIndex
  <2> HIDE DEF end
  <2>6. end + 1 - start \in 0 .. readAble(b)
    BY <2>0, <2>3, <2>5 DEF readAble
  <2>7. fields.succ \in BOOLEAN /\ fields.data \in PbMessages
    BY <2>0, <2>4, <2>5, FieldsAre
  <2> HIDE DEF fields
  <2>8. Taken(b, left)
    BY <2>6, SomeTaken
  <2>9. d = IF fields.succ THEN [buf |-> left, succ |-> TRUE, data |-> fields.data]
            ELSE [buf |-> left, succ |-> FALSE]
    BY <1>2 DEF decodePb, start, end, fields
  <2> HIDE DEF left, d
  <2>10. CASE fields.succ
    <3>1. d.buf = left /\ d.succ = TRUE /\ d.data = fields.data
      BY <2>9, <2>10
    <3> QED BY <2>7, <2>8, <3>1 DEF d
  <2>11. CASE ~fields.succ
    <3>1. d.buf = left /\ d.succ = FALSE
      BY <2>9, <2>11
    <3> QED BY <2>8, <3>1 DEF d
  <2> QED BY <2>10, <2>11
<1> QED BY <1>1, <1>2

LEMMA HttpDecoded ==
    ASSUME NEW b, Buffer(b)
    PROVE  /\ Taken(b, decodeHttp(b).buf)
           /\ decodeHttp(b).succ \in BOOLEAN
           /\ decodeHttp(b).data \in HttpRequests
<1> DEFINE parsed == parseHttp(getBufferString(b))
<1>1. getBufferString(b) \in Strings /\ Len(getBufferString(b)) = readAble(b)
  BY Unread DEF Strings
<1>2. parsed.succ \in BOOLEAN /\ parsed.taken \in 0 .. readAble(b) /\ parsed.data \in HttpRequests
  BY <1>1, HttpParsed
<1> HIDE DEF parsed
<1>3. /\ decodeHttp(b).buf = IF parsed.succ /\ parsed.taken > 0 THEN recycleRead(b, parsed.taken) ELSE b
      /\ decodeHttp(b).succ = parsed.succ /\ decodeHttp(b).data = parsed.data
  BY DEF decodeHttp, parsed
<1> QED BY <1>2, <1>3, NoneTaken, SomeTaken

-----------------------------------------------------------------------------
(***************************************************************************)
(* Replies.                                                                *)
(***************************************************************************)
LEMMA TwoCat ==
    ASSUME NEW s \in Seq(Nat), NEW t \in Seq(Nat)
    PROVE  s \o t \in Seq(Nat) /\ Len(s \o t) = Len(s) + Len(t)
BY ConcatProperties

LEMMA DigitsOf ==
    ASSUME NEW n \in Nat
    PROVE  Int32(n) \in Seq(Nat) /\ Len(Int32(n)) = 2
<1>1. \A r \in Nat : r > 2 => n \div r \in Nat /\ n % r \in Nat
  OBVIOUS
<1>2. n \div Radix \in Nat /\ n % Radix \in Nat
  BY <1>1, RadixAssumption
<1> QED BY <1>2 DEF Int32

LEMMA DigitsBehind ==
    ASSUME NEW s \in Seq(Nat), NEW n \in Nat
    PROVE  s \o Int32(n) \in Seq(Nat) /\ Len(s \o Int32(n)) = Len(s) + 2
<1>1. Int32(n) \in Seq(Nat) /\ Len(Int32(n)) = 2
  BY DigitsOf
<1>2. s \o Int32(n) \in Seq(Nat) /\ Len(s \o Int32(n)) = Len(s) + Len(Int32(n))
  BY <1>1, TwoCat
<1> QED BY <1>1, <1>2

LEMMA EncodedPb ==
    ASSUME NEW m \in PbMessages
    PROVE  encodePbData(m) \in Seq(Nat) /\ Len(encodePbData(m)) = PackLen(m)
<1>1. /\ m.msg_req \in Seq(Nat) /\ m.service_full_name \in Seq(Nat) /\ m.err_code \in Nat
      /\ m.err_info \in Seq(Nat) /\ m.pb_data \in Seq(Nat)
  BY DEF PbMessages, Strings
<1> DEFINE a1 == Len(m.msg_req)  a2 == Len(m.service_full_name)
           a3 == Len(m.err_info)  a4 == Len(m.pb_data)
<1>2. a1 \in Nat /\ a2 \in Nat /\ a3 \in Nat /\ a4 \in Nat
  BY <1>1
<1>3. PackLen(m) = 14 + a4 + a2 + a1 + a3
  BY <1>2 DEF PackLen, IntLen
<1> HIDE DEF a1, a2, a3, a4
<1>4. PackLen(m) \in Nat
  BY <1>2, <1>3
<1>5. <<PB_START>> \in Seq(Nat) /\ Len(<<PB_START>>) = 1 /\ <<PB_END>> \in Seq(Nat)
      /\ Len(<<PB_END>>) = 1
  BY DEF PB_START, PB_END

<1> DEFINE s1 == <<PB_START>> \o Int32(PackLen(m))
           s2 == s1 \o Int32(a1)
           s3 == s2 \o m.msg_req
           s4 == s3 \o Int32(a2)
           s5 == s4 \o m.service_full_name
           s6 == s5 \o Int32(m.err_code)
           s7 == s6 \o Int32(a3)
           s8 == s7 \o m.err_info
           s9 == s8 \o m.pb_data
           s10 == s9 \o Int32(1)
           s11 == s10 \o <<PB_END>>
<1>10. s1 \in Seq(Nat) /\ Len(s1) = 3
  <2>1. PackLen(m) \in Nat /\ <<PB_START>> \in Seq(Nat)
    BY <1>4, <1>5
  <2>2. <<PB_START>> \o Int32(PackLen(m)) \in Seq(Nat) /\ Len(<<PB_START>> \o Int32(PackLen(m))) = Len(<<PB_START>>) + 2
    BY <2>1, DigitsBehind, Zenon
  <2> QED BY <1>4, <1>5, <2>2
<1> HIDE DEF s1
<1>11. s2 \in Seq(Nat) /\ Len(s2) = 5
  <2>1. a1 \in Nat /\ s1 \in Seq(Nat)
    BY <1>2, <1>10
  <2>2. s1 \o Int32(a1) \in Seq(Nat) /\ Len(s1 \o Int32(a1)) = Len(s1) + 2
    BY <2>1, DigitsBehind, Zenon
  <2> QED BY <1>2, <1>10, <2>2
<1> HIDE DEF s2
<1>12. s3 \in Seq(Nat) /\ Len(s3) = 5 + a1
  BY <1>1, <1>11, TwoCat DEF a1
<1> HIDE DEF s3
<1>13. s4 \in Seq(Nat) /\ Len(s4) = 7 + a1
  <2>1. a2 \in Nat /\ s3 \in Seq(Nat)
    BY <1>2, <1>12
  <2>2. s3 \o Int32(a2) \in Seq(Nat) /\ Len(s3 \o Int32(a2)) = Len(s3) + 2
    BY <2>1, DigitsBehind, Zenon
  <2> QED BY <1>2, <1>12, <2>2
<1> HIDE DEF s4
<1>14. s5 \in Seq(Nat) /\ Len(s5) = 7 + a1 + a2
  BY <1>1, <1>2, <1>13, TwoCat DEF a2
<1> HIDE DEF s5
<1>15. s6 \in Seq(Nat) /\ Len(s6) = 9 + a1 + a2
  <2>1. m.err_code \in Nat /\ s5 \in Seq(Nat)
    BY <1>1, <1>2, <1>14
  <2>2. s5 \o Int32(m.err_code) \in Seq(Nat) /\ Len(s5 \o Int32(m.err_code)) = Len(s5) + 2
    BY <2>1, DigitsBehind, Zenon
  <2> QED BY <1>1, <1>2, <1>14, <2>2
<1> HIDE DEF s6
<1>16. s7 \in Seq(Nat) /\ Len(s7) = 11 + a1 + a2
  <2>1. a3 \in Nat /\ s6 \in Seq(Nat)
    BY <1>2, <1>15
  <2>2. s6 \o Int32(a3) \in Seq(Nat) /\ Len(s6 \o Int32(a3)) = Len(s6) + 2
    BY <2>1, DigitsBehind, Zenon
  <2> QED BY <1>2, <1>15, <2>2
<1> HIDE DEF s7
<1>17. s8 \in Seq(Nat) /\ Len(s8) = 11 + a1 + a2 + a3
  BY <1>1, <1>2, <1>16, TwoCat DEF a3
<1> HIDE DEF s8
<1>18. s9 \in Seq(Nat) /\ Len(s9) = 11 + a1 + a2 + a3 + a4
  BY <1>1, <1>2, <1>17, TwoCat DEF a4
<1> HIDE DEF s9
<1>19. s10 \in Seq(Nat) /\ Len(s10) = 13 + a1 + a2 + a3 + a4
  <2>1. 1 \in Nat /\ s9 \in Seq(Nat)
    BY <1>2, <1>18
  <2>2. s9 \o Int32(1) \in Seq(Nat) /\ Len(s9 \o Int32(1)) = Len(s9) + 2
    BY <2>1, DigitsBehind, Zenon
  <2> QED BY <1>2, <1>18, <2>2
<1> HIDE DEF s10
<1>20. s11 \in Seq(Nat) /\ Len(s11) = 14 + a1 + a2 + a3 + a4
  BY <1>2, <1>5, <1>19, TwoCat
<1>21. encodePbData(m) = s11
  BY DEF encodePbData, s1, s2, s3, s4, s5, s6, s7, s8, s9, s10, a1, a2, a3, a4
<1> HIDE DEF s11
<1> QED BY <1>2, <1>3, <1>20, <1>21

LEMMA RepliesArePb ==
    ASSUME NEW m \in PbMessages
    PROVE  dispatchPb(m) \in PbMessages /\ dispatchPb(m).service_full_name = m.service_full_name
<1>1. /\ m.msg_req \in Strings /\ m.service_full_name \in Strings /\ m.pb_data \in Strings
  BY DEF PbMessages
<1> DEFINE name == parseServiceFullName(m.service_full_name)
           err_code == CASE ~name.ok -> ERROR_PARSE_SERVICE_NAME
                    [] name.ok /\ name.service \notin DOMAIN m_service_map ->
                         ERROR_SERVICE_NOT_FOUND
                    [] /\ name.ok /\ name.service \in DOMAIN m_service_map
                       /\ name.method \notin m_service_map[name.service] ->
                         ERROR_METHOD_NOT_FOUND
                    [] OTHER -> IF m.pb_data = BadData THEN ERROR_FAILED_SERIALIZE ELSE 0
<1> HIDE DEF name
<1>2. err_code \in Nat
  BY DEF ERROR_PARSE_SERVICE_NAME, ERROR_SERVICE_NOT_FOUND, ERROR_METHOD_NOT_FOUND,
         ERROR_FAILED_SERIALIZE
<1>3. dispatchPb(m) =
        [msg_req |-> m.msg_req, service_full_name |-> m.service_full_name, err_code |-> err_code,
         err_info |-> IF err_code = 0 THEN <<>> ELSE <<err_code>>,
         pb_data |-> IF err_code = 0 THEN CallMethod(m.pb_data) ELSE <<>>]
  BY DEF dispatchPb, name
<1> HIDE DEF err_code
<1>4. <<err_code>> \in Strings /\ <<>> \in Strings /\ CallMethod(m.pb_data) \in Strings
  BY <1>1, <1>2 DEF Strings, CallMethod
<1> QED BY <1>1, <1>2, <1>3, <1>4 DEF PbMessages

HttpResponses ==
    [version : Strings, code : Nat, info : Nat, header : Pairs, body : Strings]

LEMMA ServletBodies ==
    ASSUME NEW path \in DOMAIN m_servlets
    PROVE  m_servlets[path] \in Strings
<1> DEFINE With == {i \in DOMAIN Servlets : Servlets[i].path = path}
<1>1. /\ \E i \in DOMAIN Servlets : path = Servlets[i].path
      /\ m_servlets[path] = Servlets[Min(With)].body
  BY DEF m_servlets, Range
<1>2. With # {} /\ With \in SUBSET Nat /\ \A i \in With : i \in DOMAIN Servlets
  BY <1>1, ServletsAssumption
<1> HIDE DEF With
<1>3. Min(With) \in DOMAIN Servlets
  BY <1>2, MinIsLeast
<1>4. Servlets[Min(With)].body \in Seq(Nat)
  <2>1. \A k \in DOMAIN Servlets : Servlets[k] \in [path : Seq(Nat), body : Seq(Nat)]
    BY ServletsAssumption, ElementIn, Zenon
  <2>2. Servlets[Min(With)] \in [path : Seq(Nat), body : Seq(Nat)]
    BY <1>3, <2>1, Zenon
  <2> QED BY <2>2
<1> QED BY <1>1, <1>4 DEF Strings

LEMMA FilledIs ==
    ASSUME NEW res \in HttpResponses, NEW code \in Nat, NEW body \in Strings
    PROVE  Filled(res, code, body) \in HttpResponses
<1>1. <<ContentType>> \in Strings /\ <<content_type_text>> \in Strings
      /\ <<ContentLength>> \in Strings /\ <<Number(Len(body))>> \in Strings
  BY DEF ContentType, content_type_text, ContentLength, Number, Strings
<1>2. res.header \in Pairs
  BY DEF HttpResponses
<1> DEFINE h1 == PutPair(res.header, <<ContentType>>, <<content_type_text>>)
           h2 == PutPair(h1, <<ContentLength>>, <<Number(Len(body))>>)
<1>3. h1 \in Pairs
  BY <1>1, <1>2, PutIsPairs
<1> HIDE DEF h1
<1>4. h2 \in Pairs
  BY <1>1, <1>3, PutIsPairs
<1> HIDE DEF h2
<1>5. Filled(res, code, body) =
        [res EXCEPT !.code = code, !.info = httpCodeToString(code), !.body = body, !.header = h2]
  BY DEF Filled, h1, h2
<1>6. httpCodeToString(code) \in Nat
  BY DEF httpCodeToString
<1> QED BY <1>4, <1>5, <1>6 DEF HttpResponses

LEMMA RepliesAreHttp ==
    ASSUME NEW r \in HttpRequests
    PROVE  dispatchHttp(r) \in HttpResponses
<1>1. EmptyResponse \in HttpResponses
  <2>1. <<>> \in Strings
    BY DEF Strings
  <2> QED BY <2>1, NoPairsArePairs DEF EmptyResponse, HttpResponses
<1>2. r.version \in Strings /\ ValueOf(r.header, <<Connection>>) \in Strings
  BY PairsAre DEF HttpRequests
<1> DEFINE res == setCommParam(r, EmptyResponse)
<1>3. res \in HttpResponses
  <2>1. <<Connection>> \in Strings
    BY DEF Connection, Strings
  <2>2. EmptyResponse.header \in Pairs
    BY <1>1 DEF HttpResponses
  <2>3. PutPair(EmptyResponse.header, <<Connection>>, ValueOf(r.header, <<Connection>>)) \in Pairs
    BY <1>2, <2>1, <2>2, PutIsPairs
  <2> DEFINE e == EmptyResponse
             h == PutPair(e.header, <<Connection>>, ValueOf(r.header, <<Connection>>))
  <2>4. e \in HttpResponses /\ h \in Pairs
    BY <1>1, <2>3
  <2>5. res = [e EXCEPT !.version = r.version, !.header = h]
    BY DEF setCommParam
  <2> HIDE DEF e, h, res
  <2> QED BY <1>2, <2>4, <2>5 DEF HttpResponses
<1> HIDE DEF res
<1>4. NotFound(res) \in HttpResponses
  <2>1. HTTP_NOTFOUND \in Nat /\ <<not_found_html>> \in Strings
    BY DEF HTTP_NOTFOUND, not_found_html, Strings
  <2> QED BY <1>3, <2>1, FilledIs DEF NotFound
<1>5. r.path \in DOMAIN m_servlets => Handled(r, res) \in HttpResponses
  <2>1. HTTP_OK \in Nat
    BY DEF HTTP_OK
  <2> QED BY <1>3, <2>1, FilledIs, ServletBodies DEF Handled
<1>6. dispatchHttp(r) = IF r.path = <<>> THEN EmptyResponse
                        ELSE IF r.path \in DOMAIN m_servlets THEN Handled(r, res) ELSE NotFound(res)
  BY DEF dispatchHttp, res
<1> QED BY <1>1, <1>4, <1>5, <1>6

LEMMA ResponseText ==
    ASSUME NEW r \in HttpResponses
    PROVE  HttpText(r) \in Seq(Nat)
<1>1. /\ r.version \in Seq(Nat) /\ r.body \in Seq(Nat) /\ r.code \in Nat /\ r.info \in Nat
      /\ r.header \in Pairs
  BY DEF HttpResponses, Strings
<1> DEFINE Line(key) == IF key \in DOMAIN r.header
                        THEN key \o <<COLON>> \o r.header[key] \o g_CRLF ELSE <<>>
<1>2. \A a, b \in Seq(Nat) : a \o b \in Seq(Nat)
  BY TwoCat
<1>3. ASSUME NEW key \in Seq(Nat) PROVE Line(key) \in Seq(Nat)
  <2>1. key \in DOMAIN r.header => r.header[key] \in Seq(Nat)
    BY <1>1, PairsAre DEF Strings
  <2>2. <<COLON>> \in Seq(Nat) /\ g_CRLF \in Seq(Nat) /\ <<>> \in Seq(Nat)
    BY CRLF DEF COLON
  <2>3. CASE key \in DOMAIN r.header
    <3>1. key \o <<COLON>> \in Seq(Nat)
      BY <1>2, <2>2, Zenon
    <3>2. key \o <<COLON>> \o r.header[key] \in Seq(Nat)
      BY <1>2, <2>1, <2>3, <3>1, Zenon
    <3>3. key \o <<COLON>> \o r.header[key] \o g_CRLF \in Seq(Nat)
      BY <1>2, <2>2, <3>2, Zenon
    <3> QED BY <2>3, <3>3
  <2>4. CASE key \notin DOMAIN r.header
    BY <2>2, <2>4
  <2> QED BY <2>3, <2>4
<1> HIDE DEF Line
<1>4. toHttpString(r.header) \in Seq(Nat)
  <2>1. <<Connection>> \in Seq(Nat) /\ <<ContentLength>> \in Seq(Nat) /\ <<ContentType>> \in Seq(Nat)
    BY DEF Connection, ContentLength, ContentType
  <2>2. Line(<<Connection>>) \in Seq(Nat) /\ Line(<<ContentLength>>) \in Seq(Nat)
        /\ Line(<<ContentType>>) \in Seq(Nat)
    BY <1>3, <2>1
  <2>3. Line(<<Connection>>) \o Line(<<ContentLength>>) \in Seq(Nat)
    BY <1>2, <2>2, Zenon
  <2>4. Line(<<Connection>>) \o Line(<<ContentLength>>) \o Line(<<ContentType>>) \in Seq(Nat)
    BY <1>2, <2>2, <2>3, Zenon
  <2> QED BY <2>4 DEF toHttpString, Line
<1>5. <<SP, r.code, SP, r.info>> \in Seq(Nat) /\ g_CRLF \in Seq(Nat)
  BY <1>1, CRLF DEF SP
<1> DEFINE t1 == r.version \o <<SP, r.code, SP, r.info>>
           t2 == t1 \o g_CRLF
           t3 == t2 \o toHttpString(r.header)
           t4 == t3 \o g_CRLF
<1>6. t1 \in Seq(Nat)
  BY <1>1, <1>2, <1>5, Zenon
<1> HIDE DEF t1
<1>7. t2 \in Seq(Nat)
  BY <1>2, <1>5, <1>6, Zenon
<1> HIDE DEF t2
<1>8. t3 \in Seq(Nat)
  BY <1>2, <1>4, <1>7, Zenon
<1> HIDE DEF t3
<1>9. t4 \in Seq(Nat)
  BY <1>2, <1>5, <1>8, Zenon
<1> HIDE DEF t4
<1>10. t4 \o r.body \in Seq(Nat)
  BY <1>1, <1>2, <1>9, Zenon
<1> QED BY <1>10 DEF HttpText, t1, t2, t3, t4

-----------------------------------------------------------------------------
(***************************************************************************)
(* The connection.                                                         *)
(***************************************************************************)
Requests == IF proto = "pb" THEN PbMessages ELSE HttpRequests

\* encode() writes the reply behind what has not been sent.
LEMMA AnsweredIs ==
    ASSUME proto \in {"pb", "http"}, Buffer(out), NEW m \in Requests
    PROVE  /\ ReplyText(m) \in Seq(Nat)
           /\ Buffer(Answered(m))
           /\ getBufferString(Answered(m)) = getBufferString(out) \o ReplyText(m)
<1>1. CASE proto = "pb"
  <2>1. m \in PbMessages
    BY <1>1 DEF Requests
  <2>2. dispatchPb(m) \in PbMessages /\ dispatchPb(m).service_full_name = m.service_full_name
    BY <2>1, RepliesArePb
  <2>3. encodePbData(dispatchPb(m)) \in Seq(Nat)
    BY <2>2, EncodedPb
  <2>4. ReplyText(m) = IF m.service_full_name = <<>> THEN <<>> ELSE encodePbData(dispatchPb(m))
    BY <1>1 DEF ReplyText
  <2>5. Answered(m) = IF m.service_full_name = <<>> THEN out
                      ELSE writeToBuffer(out, encodePbData(dispatchPb(m)))
    BY <1>1, <2>2 DEF Answered, encodePb
  <2>6. CASE m.service_full_name = <<>>
    <3>1. getBufferString(out) \in Seq(Nat)
      BY Unread
    <3>2. getBufferString(out) \o <<>> = getBufferString(out) /\ <<>> \in Seq(Nat)
      BY <3>1
    <3> QED BY <2>4, <2>5, <2>6, <3>2
  <2>7. CASE m.service_full_name # <<>>
    BY <2>3, <2>4, <2>5, <2>7, WrittenTo
  <2> QED BY <2>6, <2>7
<1>2. CASE proto = "http"
  <2>1. m \in HttpRequests
    BY <1>2 DEF Requests
  <2>2. HttpText(dispatchHttp(m)) \in Seq(Nat)
    BY <2>1, RepliesAreHttp, ResponseText
  <2>3. ReplyText(m) = HttpText(dispatchHttp(m))
    BY <1>2 DEF ReplyText
  <2>4. Answered(m) = writeToBuffer(out, HttpText(dispatchHttp(m)))
    BY <1>2 DEF Answered, encodeHttp
  <2> QED BY <2>2, <2>3, <2>4, WrittenTo
<1> QED BY <1>1, <1>2

LEMMA DecodedIs ==
    ASSUME proto \in {"pb", "http"}, Buffer(in), NEW d \in Decoded
    PROVE  /\ Taken(in, d.buf) /\ d.succ \in BOOLEAN
           /\ d.succ => d.data \in Requests
<1>1. CASE proto = "pb"
  <2>1. PICK junk \in Junk : d = decodePb(in, junk)
    BY <1>1 DEF Decoded
  <2> QED BY <1>1, <2>1, PbDecoded DEF Requests
<1>2. CASE proto = "http"
  <2>1. d = decodeHttp(in)
    BY <1>2 DEF Decoded
  <2> QED BY <1>2, <2>1, HttpDecoded DEF Requests
<1> QED BY <1>1, <1>2

\* What holds of each variable in every reachable state.
StreamTypes ==
    /\ \/ proto = "pb" /\ script \in PbScripts
       \/ proto = "http" /\ script \in HttpScripts
    /\ pos \in 0 .. Len(script.text)
    /\ pc \in {"first", "more", "execute", "output", "ended"}
    /\ closed \in BOOLEAN /\ short \in BOOLEAN
    /\ Buffer(in) /\ Buffer(out)
    /\ sending \in 0 .. readAble(out)
    /\ got \in Seq(Nat)
    /\ dispatched \in Seq(Requests)

LEMMA ScriptsAre == \A s \in PbScripts \cup HttpScripts : IsScript(s)
BY ScriptsAssumption DEF IsPbScript, IsHttpScript

LEMMA ScriptIs == StreamTypes => script.text \in Seq(Nat) /\ Len(script.text) \in Nat
<1>1. StreamTypes => script \in PbScripts \cup HttpScripts
  BY DEF StreamTypes
<1>2. ASSUME NEW s \in PbScripts \cup HttpScripts PROVE s.text \in Seq(Nat) /\ Len(s.text) \in Nat
  <2>1. s.text \in Seq(Nat)
    BY ScriptsAre DEF IsScript
  <2> QED BY <2>1, LenProperties
<1> QED BY <1>1, <1>2

\* Each action's effect on the bytes in the buffers.
LEMMA ReadIs ==
    ASSUME StreamTypes, Read
    PROVE  \E n \in 1 .. Rest :
             /\ pos' = pos + n
             /\ SubSeq(script.text, pos + 1, pos + n) \in Seq(Nat)
             /\ Len(SubSeq(script.text, pos + 1, pos + n)) = n
             /\ Buffer(in')
             /\ getBufferString(in') =
                    getBufferString(in) \o SubSeq(script.text, pos + 1, pos + n)
             /\ pc' \in {"more", "execute"}
             /\ proto = "http" /\ pc' = "execute" /\ ~LineCuts => pos + n \notin script.lines
             /\ UNCHANGED <<proto, script, out, closed, dispatched, sendVars>>
<1>1. PICK n \in 1 .. Rest :
        /\ n <= writeAble(WithRoom(in)) /\ pos' = pos + n
        /\ in' = Received(in, SubSeq(script.text, pos + 1, pos + n))
        /\ pc' = IF n = writeAble(WithRoom(in)) THEN "more" ELSE "execute"
        /\ proto = "http" /\ n < writeAble(WithRoom(in)) /\ pos + n \in script.lines => LineCuts
  BY DEF Read
<1>2. /\ script.text \in Seq(Nat) /\ Len(script.text) \in Nat /\ pos \in 0 .. Len(script.text)
      /\ Buffer(in) /\ UNCHANGED <<proto, script, out, closed, dispatched, sendVars>>
  BY ScriptIs DEF StreamTypes, Read
<1> DEFINE s == SubSeq(script.text, pos + 1, pos + n)  count == writeAble(WithRoom(in))
<1> DEFINE first == pos + 1  last == pos + n
<1>3. first \in 1 .. Len(script.text) + 1 /\ last \in first - 1 .. Len(script.text)
      /\ last - first + 1 = n
  BY <1>2 DEF Rest
<1>4. s \in Seq(Nat) /\ Len(s) = n
  <2> HIDE DEF first, last
  <2>1. SubSeq(script.text, first, last) \in Seq(Nat)
        /\ Len(SubSeq(script.text, first, last)) = last - first + 1
    BY <1>2, <1>3, Part
  <2> QED BY <1>3, <2>1 DEF first, last
<1>5. count \in Nat
  BY <1>2, RoomMade, Unread
<1> HIDE DEF s
<1>6. Buffer(Received(in, s)) /\ getBufferString(Received(in, s)) = getBufferString(in) \o s
  BY <1>1, <1>2, <1>4, ReceivedBehind
<1> HIDE DEF count
<1>7. pc' \in {"more", "execute"} /\ (pc' = "execute" => n < count)
  BY <1>1, <1>5 DEF count
<1>8. proto = "http" /\ pc' = "execute" /\ ~LineCuts => pos + n \notin script.lines
  BY <1>1, <1>7 DEF count
<1> QED BY <1>1, <1>2, <1>4, <1>6, <1>7, <1>8 DEF s

LEMMA ReadNothingIs ==
    ASSUME StreamTypes, ReadNothing
    PROVE  /\ Buffer(in') /\ getBufferString(in') = getBufferString(in)
           /\ pos = Len(script.text)
           /\ closed' = TRUE /\ pc' = "execute"
           /\ UNCHANGED <<proto, script, pos, out, dispatched, sendVars>>
<1>1. Rest = 0 /\ pos \in 0 .. Len(script.text) /\ Len(script.text) \in Nat
  BY ScriptIs DEF ReadNothing, StreamTypes
<1>2. pos = Len(script.text)
  BY <1>1 DEF Rest
<1>3. Buffer(WithRoom(in)) /\ getBufferString(WithRoom(in)) = getBufferString(in)
  BY RoomMade DEF StreamTypes
<1> QED BY <1>2, <1>3 DEF ReadNothing

LEMMA ExecuteIs ==
    ASSUME StreamTypes, Execute
    PROVE  \E d \in Decoded :
             /\ d.succ /\ in' = d.buf /\ Taken(in, d.buf)
             /\ d.data \in Requests /\ dispatched' = Append(dispatched, d.data)
             /\ ReplyText(d.data) \in Seq(Nat)
             /\ Buffer(out') /\ getBufferString(out') = getBufferString(out) \o ReplyText(d.data)
             /\ readAble(in) > 0 /\ pc = "execute"
             /\ UNCHANGED <<proto, script, pos, pc, closed, sendVars>>
<1>1. PICK d \in Decoded :
        d.succ /\ in' = d.buf /\ dispatched' = Append(dispatched, d.data) /\ out' = Answered(d.data)
  BY DEF Execute
<1>2. proto \in {"pb", "http"} /\ Buffer(in) /\ Buffer(out)
  BY DEF StreamTypes
<1>3. Taken(in, d.buf) /\ d.data \in Requests
  BY <1>1, <1>2, DecodedIs
<1>4. /\ ReplyText(d.data) \in Seq(Nat) /\ Buffer(Answered(d.data))
      /\ getBufferString(Answered(d.data)) = getBufferString(out) \o ReplyText(d.data)
  BY <1>2, <1>3, AnsweredIs
<1>5. readAble(in) > 0 /\ pc = "execute" /\ UNCHANGED <<proto, script, pos, pc, closed, sendVars>>
  BY DEF Execute
<1> QED BY <1>1, <1>3, <1>4, <1>5

LEMMA ExecuteEndsIs ==
    ASSUME StreamTypes, ExecuteEnds
    PROVE  /\ \/ readAble(in) = 0 /\ in' = in
              \/ /\ readAble(in) > 0
                 /\ \E d \in Decoded : ~d.succ /\ in' = d.buf
           /\ Taken(in, in')
           /\ pc = "execute" /\ pc' = "output"
           /\ UNCHANGED <<proto, script, pos, out, closed, dispatched, sendVars>>
<1>1. proto \in {"pb", "http"} /\ Buffer(in)
  BY DEF StreamTypes
<1>2. readAble(in) = 0 /\ in' = in => Taken(in, in')
  BY <1>1, NoneTaken
<1>3. ASSUME NEW d \in Decoded, in' = d.buf PROVE Taken(in, in')
  BY <1>1, <1>3, DecodedIs
<1>4. /\ \/ readAble(in) = 0 /\ in' = in
         \/ /\ readAble(in) > 0
            /\ \E d \in Decoded : ~d.succ /\ in' = d.buf
      /\ pc = "execute" /\ pc' = "output"
      /\ UNCHANGED <<proto, script, pos, out, closed, dispatched, sendVars>>
  BY DEF ExecuteEnds
<1> QED BY <1>2, <1>3, <1>4

\* What is left of the bytes given to send().
Left == IF sending = 0 THEN readAble(out) ELSE sending

LEMMA SendIs ==
    ASSUME StreamTypes, Send
    PROVE  /\ Left \in 1 .. readAble(out)
           /\ After(getBufferString(out), readAble(out) - Left) \in Seq(Nat)
           /\ \/ /\ got' = got \o After(getBufferString(out), readAble(out) - Left)
                 /\ out' = recycleRead(out, Left) /\ sending' = 0 /\ short' = short
              \/ /\ got' = got /\ out' = recycleRead(out, Left) /\ sending' = 0 /\ short' = TRUE
              \/ \E n \in 1 .. Left :
                    /\ n < Left /\ out' = out /\ sending' = Left - n /\ short' = TRUE
                    /\ got' \in Seq(Nat)
           /\ UNCHANGED <<proto, script, pos, in, pc, closed, dispatched>>
<1> DEFINE bytes == After(getBufferString(out), readAble(out) - Left)
<1>1. Buffer(out) /\ sending \in 0 .. readAble(out) /\ got \in Seq(Nat) /\ readAble(out) > 0
  BY DEF StreamTypes, Send
<1>2. getBufferString(out) \in Seq(Nat) /\ readAble(out) \in Nat
  BY <1>1, Unread
<1>3. Left \in 1 .. readAble(out)
  BY <1>1, <1>2 DEF Left
<1>4. readAble(out) - Left \in Nat
  BY <1>2, <1>3
<1>5. bytes \in Seq(Nat)
  BY <1>2, <1>4, AfterIs
<1>6. send(Left, bytes) /\ UNCHANGED <<proto, script, pos, in, pc, closed, dispatched>>
  BY DEF Send, Left
<1> HIDE DEF bytes
<1>7. ASSUME NEW n \in Parts, n < Left, got' = got \o SubSeq(bytes, 1, n)
      PROVE  n \in 1 .. Left /\ got' \in Seq(Nat)
  <2>1. n \in Nat \ {0} /\ n \in 1 .. Left
    BY <1>3, <1>7, PartsAssumption
  <2>2. SubSeq(bytes, 1, n) \in Seq(Nat)
    <3>1. \A i \in 1 .. n : bytes[i] \in Nat \/ i > Len(bytes)
      BY <1>5
    <3>2. n <= Len(bytes)
      <4>1. Len(bytes) = Left
        <5>1. Len(bytes) = IF readAble(out) - Left <= Len(getBufferString(out))
                           THEN Len(getBufferString(out)) - (readAble(out) - Left) ELSE 0
          BY <1>2, <1>4, AfterIs DEF bytes
        <5>2. Len(getBufferString(out)) = readAble(out)
          BY <1>1, Unread
        <5> QED BY <1>2, <1>3, <5>1, <5>2
      <4> QED BY <1>3, <1>7, <2>1, <4>1
    <3>3. 1 \in Nat \ {0} /\ n \in Int
      BY <2>1
    <3> QED BY <1>5, <3>2, <3>3, Piece
  <2>3. got \o SubSeq(bytes, 1, n) \in Seq(Nat)
    BY <1>1, <2>2, TwoCat
  <2> QED BY <1>7, <2>1, <2>3
<1>8. \/ got' = got \o bytes /\ out' = recycleRead(out, Left) /\ sending' = 0 /\ short' = short
      \/ got' = got /\ out' = recycleRead(out, Left) /\ sending' = 0 /\ short' = TRUE
      \/ \E n \in 1 .. Left :
            n < Left /\ out' = out /\ sending' = Left - n /\ short' = TRUE /\ got' \in Seq(Nat)
  <2>1. CASE \E n \in Parts : /\ n < Left /\ ~short
                              /\ got' = got \o SubSeq(bytes, 1, n)
                              /\ out' = out
                              /\ sending' = Left - n /\ short' = TRUE
    BY <1>7, <2>1
  <2> QED BY <1>6, <2>1 DEF send
<1> QED BY <1>3, <1>5, <1>6, <1>8 DEF bytes

LEMMA StreamTypesInit == Init => StreamTypes
<1> SUFFICES ASSUME Init PROVE StreamTypes
  OBVIOUS
<1>1. Buffer(NewBuffer(InitSize)) /\ readAble(NewBuffer(InitSize)) = 0
  BY InitSizeAssumption, NewIsEmpty
<1>2. \/ proto = "pb" /\ script \in PbScripts
      \/ proto = "http" /\ script \in HttpScripts
  BY DEF Init
<1>3. script \in PbScripts \cup HttpScripts
  BY <1>2
<1>4. script.text \in Seq(Nat)
  BY <1>3, ScriptsAre DEF IsScript
<1>5. Len(script.text) \in Nat
  BY <1>4, LenProperties
<1>6. 0 \in 0 .. Len(script.text)
  BY <1>5
<1>7. <<>> \in Seq(Nat) /\ <<>> \in Seq(Requests)
  OBVIOUS
<1>8. /\ pos = 0 /\ in = NewBuffer(InitSize) /\ out = NewBuffer(InitSize) /\ pc = "first"
      /\ closed = FALSE /\ dispatched = <<>> /\ got = <<>> /\ sending = 0 /\ short = FALSE
  BY DEF Init
<1>9. sending \in 0 .. readAble(out)
  BY <1>1, <1>8
<1> QED BY <1>1, <1>2, <1>6, <1>7, <1>8, <1>9, Zenon DEF StreamTypes

LEMMA Shorter ==
    ASSUME NEW b, NEW c, Buffer(b), Taken(b, c)
    PROVE  /\ Buffer(c)
           /\ \E n \in 0 .. readAble(b) :
                 /\ getBufferString(c) = SubSeq(getBufferString(b), n + 1, readAble(b))
                 /\ readAble(c) = readAble(b) - n
<1>1. Buffer(c)
  BY DEF Taken
<1>2. PICK n \in 0 .. readAble(b) :
        getBufferString(c) = SubSeq(getBufferString(b), n + 1, readAble(b))
  BY DEF Taken
<1> DEFINE u == getBufferString(b)  l == readAble(b)
<1>3. u \in Seq(Nat) /\ Len(u) = l /\ l \in Nat
  BY Unread
<1> HIDE DEF u, l
<1>4. n + 1 \in Nat \ {0} /\ l \in Int /\ l <= Len(u)
  BY <1>3
<1>5. Len(SubSeq(u, n + 1, l)) = IF n + 1 <= l THEN l - (n + 1) + 1 ELSE 0
  BY <1>3, <1>4, Piece
<1>6. Len(SubSeq(u, n + 1, l)) = l - n
  BY <1>2, <1>3, <1>5 DEF l
<1>7. Len(getBufferString(c)) = readAble(c)
  BY <1>1, Unread
<1> QED BY <1>1, <1>2, <1>6, <1>7 DEF u, l

LEMMA StreamTypesStep == StreamTypes /\ [Next]_vars => StreamTypes'
<1> SUFFICES ASSUME StreamTypes, [Next]_vars PROVE StreamTypes'
  OBVIOUS
<1> DEFINE Scripted == \/ proto = "pb" /\ script \in PbScripts
                       \/ proto = "http" /\ script \in HttpScripts
<1>1. /\ Scripted
      /\ pos \in 0 .. Len(script.text)
      /\ pc \in {"first", "more", "execute", "output", "ended"}
      /\ closed \in BOOLEAN /\ short \in BOOLEAN
      /\ Buffer(in) /\ Buffer(out)
      /\ sending \in 0 .. readAble(out)
      /\ got \in Seq(Nat)
      /\ dispatched \in Seq(Requests)
  BY DEF StreamTypes
<1>2. UNCHANGED proto => Requests' = Requests
  BY DEF Requests
<1>3. UNCHANGED <<proto, script>> => Scripted'
  BY <1>1
<1> HIDE DEF Scripted
<1>4. CASE Read
  <2>1. PICK n \in 1 .. Rest :
          /\ pos' = pos + n /\ Buffer(in') /\ pc' \in {"more", "execute"}
          /\ UNCHANGED <<proto, script, out, closed, dispatched, sendVars>>
    BY <1>4, ReadIs
  <2>2. pos + n \in 0 .. Len(script.text)
    BY <1>1, ScriptIs DEF Rest
  <2> QED BY <1>1, <1>2, <1>3, <2>1, <2>2 DEF StreamTypes, Scripted, sendVars
<1>5. CASE ReadNothing
  <2>1. /\ Buffer(in') /\ closed' = TRUE /\ pc' = "execute"
        /\ UNCHANGED <<proto, script, pos, out, dispatched, sendVars>>
    BY <1>5, ReadNothingIs
  <2> QED BY <1>1, <1>2, <1>3, <2>1 DEF StreamTypes, Scripted, sendVars
<1>6. CASE Execute
  <2>1. PICK d \in Decoded :
          /\ in' = d.buf /\ Taken(in, d.buf)
          /\ d.data \in Requests /\ dispatched' = Append(dispatched, d.data)
          /\ ReplyText(d.data) \in Seq(Nat)
          /\ Buffer(out') /\ getBufferString(out') = getBufferString(out) \o ReplyText(d.data)
          /\ UNCHANGED <<proto, script, pos, pc, closed, sendVars>>
    BY <1>6, ExecuteIs
  <2>2. Buffer(in')
    BY <2>1 DEF Taken
  <2>3. dispatched' \in Seq(Requests)
    BY <1>1, <2>1, AppendProperties
  <2>4. sending \in 0 .. readAble(out')
    <3>1. /\ getBufferString(out) \in Seq(Nat) /\ Len(getBufferString(out)) = readAble(out)
          /\ Len(getBufferString(out')) = readAble(out') /\ readAble(out) \in Nat
      BY <1>1, <2>1, Unread
    <3>2. Len(getBufferString(out) \o ReplyText(d.data)) =
            Len(getBufferString(out)) + Len(ReplyText(d.data))
      BY <2>1, <3>1, TwoCat
    <3>3. Len(ReplyText(d.data)) \in Nat
      BY <2>1, LenProperties
    <3> QED BY <1>1, <2>1, <3>1, <3>2, <3>3
  <2> QED BY <1>1, <1>2, <1>3, <2>1, <2>2, <2>3, <2>4 DEF StreamTypes, Scripted, sendVars
<1>7. CASE ExecuteEnds
  <2>1. /\ Taken(in, in') /\ pc' = "output"
        /\ UNCHANGED <<proto, script, pos, out, closed, dispatched, sendVars>>
    BY <1>7, ExecuteEndsIs
  <2>2. Buffer(in')
    BY <2>1 DEF Taken
  <2> QED BY <1>1, <1>2, <1>3, <2>1, <2>2 DEF StreamTypes, Scripted, sendVars
<1>8. CASE Send
  <2>1. /\ Left \in 1 .. readAble(out)
        /\ After(getBufferString(out), readAble(out) - Left) \in Seq(Nat)
        /\ \/ /\ got' = got \o After(getBufferString(out), readAble(out) - Left)
              /\ out' = recycleRead(out, Left) /\ sending' = 0 /\ short' = short
           \/ /\ got' = got /\ out' = recycleRead(out, Left) /\ sending' = 0 /\ short' = TRUE
           \/ \E n \in 1 .. Left :
                 /\ n < Left /\ out' = out /\ sending' = Left - n /\ short' = TRUE
                 /\ got' \in Seq(Nat)
        /\ UNCHANGED <<proto, script, pos, in, pc, closed, dispatched>>
    BY <1>8, SendIs
  <2>2. readAble(out) \in Nat /\ Left \in Nat
    BY <1>1, <2>1, Unread
  <2>3. Buffer(recycleRead(out, Left)) /\ readAble(recycleRead(out, Left)) \in Nat
    <3>1. Left \in 0 .. readAble(out)
      BY <2>1, <2>2
    <3> QED BY <1>1, <3>1, ReadRecycled, Unread
  <2>4. Buffer(out') /\ sending' \in 0 .. readAble(out') /\ short' \in BOOLEAN
    <3>1. CASE out' = recycleRead(out, Left) /\ sending' = 0 /\ short' \in BOOLEAN
      BY <2>3, <3>1
    <3>2. CASE \E n \in 1 .. Left : n < Left /\ out' = out /\ sending' = Left - n /\ short' = TRUE
      BY <1>1, <2>1, <2>2, <3>2
    <3> QED BY <1>1, <2>1, <3>1, <3>2
  <2>5. got' \in Seq(Nat)
    BY <1>1, <2>1, TwoCat
  <2> QED BY <1>1, <1>2, <1>3, <2>1, <2>4, <2>5 DEF StreamTypes, Scripted
<1>9. CASE OutputEnds
  <2>1. /\ pc' \in {"ended", "first"}
        /\ UNCHANGED <<proto, script, pos, in, out, closed, dispatched, sendVars>>
    BY <1>9 DEF OutputEnds
  <2> QED BY <1>1, <1>2, <1>3, <2>1 DEF StreamTypes, Scripted, sendVars
<1>10. CASE UNCHANGED vars
  <2>1. UNCHANGED <<proto, script, pos, in, out, pc, closed, dispatched, sendVars>>
    BY <1>10 DEF vars
  <2> QED BY <1>1, <1>2, <1>3, <2>1 DEF StreamTypes, Scripted, sendVars
<1>11. CASE Ended
  BY <1>10, <1>11 DEF Ended
<1> QED BY <1>4, <1>5, <1>6, <1>7, <1>8, <1>9, <1>10, <1>11 DEF Next

LEMMA AlwaysStreamTypes == Spec => []StreamTypes
BY StreamTypesInit, StreamTypesStep, PTL DEF Spec

\* The indices of both buffers stay in order and inside the vector, whatever is
\* read, written, decoded and resized, and send() is never asked for more than
\* there is: TcpBuffer under TcpConnection's input(), execute() and output().
THEOREM StreamTypeCorrect == Spec => []TypeOK
<1>1. StreamTypes => TypeOK
  BY DEF StreamTypes, TypeOK, Buffer
<1> QED BY <1>1, AlwaysStreamTypes, PTL

-----------------------------------------------------------------------------
(***************************************************************************)
(* Both buffers are queues of bytes.                                       *)
(***************************************************************************)
LEMMA TakenIsTake ==
    ASSUME NEW u \in Seq(Nat), NEW n \in 0 .. Len(u), NEW v, v = SubSeq(u, n + 1, Len(u))
    PROVE  v = u \/ \E k \in 1 .. Len(u) : v = SubSeq(u, k + 1, Len(u))
<1>1. Len(u) \in Nat
  OBVIOUS
<1>2. CASE n = 0
  <2>1. SubSeq(u, 1, Len(u)) = u /\ n + 1 = 1
    BY <1>2, SubSeqFull
  <2> QED BY <2>1
<1>3. CASE n # 0
  <2>1. n \in 1 .. Len(u)
    BY <1>1, <1>3
  <2> QED BY <2>1
<1> QED BY <1>2, <1>3

LEMMA BehindIsPut ==
    ASSUME NEW u \in Seq(Nat), NEW s \in Seq(Nat), NEW v, v = u \o s
    PROVE  v = u \/ (Len(v) > Len(u) /\ SubSeq(v, 1, Len(u)) = u)
<1>1. /\ u \o s \in Seq(Nat) /\ Len(u \o s) = Len(u) + Len(s)
      /\ \A i \in 1 .. Len(u) : (u \o s)[i] = u[i]
  BY ConcatProperties
<1>2. Len(u) \in Nat /\ Len(s) \in Nat
  OBVIOUS
<1>3. CASE s = <<>>
  BY <1>3
<1>4. CASE s # <<>>
  <2>1. Len(s) > 0 /\ Len(v) > Len(u) /\ v \in Seq(Nat)
    BY <1>1, <1>2, <1>4
  <2> DEFINE n == Len(u)
  <2>2. 1 \in 1 .. Len(v) + 1 /\ n \in 1 - 1 .. Len(v) /\ n - 1 + 1 = n
    BY <1>2, <2>1
  <2>3. \A i \in 1 .. n : 1 + i - 1 = i
    OBVIOUS
  <2> HIDE DEF n
  <2>4. /\ SubSeq(v, 1, n) \in Seq(Nat) /\ Len(SubSeq(v, 1, n)) = n - 1 + 1
        /\ \A i \in 1 .. n - 1 + 1 : SubSeq(v, 1, n)[i] = v[1 + i - 1]
    BY <2>1, <2>2, Part
  <2>5. \A i \in 1 .. n : SubSeq(v, 1, n)[i] = u[i]
    BY <1>1, <2>2, <2>3, <2>4 DEF n
  <2>6. SubSeq(v, 1, n) = u
    BY <2>2, <2>4, <2>5, SeqEqual DEF n
  <2> QED BY <2>1, <2>6 DEF n
<1> QED BY <1>3, <1>4

LEMMA QueueSteps == StreamTypes /\ [Next]_vars =>
    [InQueue!Next]_(getBufferString(in)) /\ [OutQueue!Next]_(getBufferString(out))
<1> SUFFICES ASSUME StreamTypes, [Next]_vars
             PROVE  /\ InQueue!Next \/ getBufferString(in') = getBufferString(in)
                    /\ OutQueue!Next \/ getBufferString(out') = getBufferString(out)
  OBVIOUS
<1> DEFINE u == getBufferString(in)  o == getBufferString(out)
<1>1. /\ Buffer(in) /\ u \in Seq(Nat) /\ Len(u) = readAble(in) /\ readAble(in) \in Nat
      /\ Buffer(out) /\ o \in Seq(Nat) /\ Len(o) = readAble(out) /\ readAble(out) \in Nat
  BY Unread DEF StreamTypes
<1> DEFINE InStep == InQueue!Next \/ u' = u
           OutStep == OutQueue!Next \/ o' = o
<1>2. ASSUME NEW n \in 0 .. readAble(in), u' = SubSeq(u, n + 1, readAble(in))
      PROVE  InStep
  <2> HIDE DEF u
  <2>0. u \in Seq(Nat) /\ readAble(in) = Len(u)
    BY <1>1
  <2>2. n \in 0 .. Len(u) /\ u' = SubSeq(u, n + 1, Len(u))
    BY <1>2, <2>0
  <2>1. u' = u \/ \E k \in 1 .. Len(u) : u' = SubSeq(u, k + 1, Len(u))
    BY <2>0, <2>2, TakenIsTake, Zenon
  <2> QED BY <2>1 DEF InQueue!Next, InQueue!Take, u
<1>3. ASSUME NEW s \in Seq(Nat), u' = u \o s PROVE InStep
  <2> HIDE DEF u
  <2>1. u' = u \/ (Len(u') > Len(u) /\ SubSeq(u', 1, Len(u)) = u)
    BY <1>1, <1>3, BehindIsPut
  <2> QED BY <2>1 DEF InQueue!Next, InQueue!Put, u
<1>4. ASSUME NEW n \in 0 .. readAble(out), o' = SubSeq(o, n + 1, readAble(out))
      PROVE  OutStep
  <2> HIDE DEF o
  <2>0. o \in Seq(Nat) /\ readAble(out) = Len(o)
    BY <1>1
  <2>2. n \in 0 .. Len(o) /\ o' = SubSeq(o, n + 1, Len(o))
    BY <1>4, <2>0
  <2>1. o' = o \/ \E k \in 1 .. Len(o) : o' = SubSeq(o, k + 1, Len(o))
    BY <2>0, <2>2, TakenIsTake, Zenon
  <2> QED BY <2>1 DEF OutQueue!Next, OutQueue!Take, o
<1>5. ASSUME NEW s \in Seq(Nat), o' = o \o s PROVE OutStep
  <2> HIDE DEF o
  <2>1. o' = o \/ (Len(o') > Len(o) /\ SubSeq(o', 1, Len(o)) = o)
    BY <1>1, <1>5, BehindIsPut
  <2> QED BY <2>1 DEF OutQueue!Next, OutQueue!Put, o
<1>6. out' = out => OutStep
  OBVIOUS
<1>7. in' = in => InStep
  OBVIOUS
<1>8. Taken(in, in') => InStep
  BY <1>2 DEF Taken
<1>9. ASSUME Left \in 1 .. readAble(out), out' = recycleRead(out, Left) PROVE OutStep
  <2>1. Left \in 0 .. readAble(out)
    BY <1>1, <1>9
  <2>2. o' = SubSeq(o, Left + 1, readAble(out))
    BY <1>1, <1>9, <2>1, ReadRecycled
  <2> QED BY <1>4, <2>1, <2>2
<1> SUFFICES InStep /\ OutStep
  OBVIOUS
<1>10. CASE Read
  <2>1. PICK n \in 1 .. Rest :
          /\ SubSeq(script.text, pos + 1, pos + n) \in Seq(Nat)
          /\ getBufferString(in') = getBufferString(in) \o SubSeq(script.text, pos + 1, pos + n)
          /\ out' = out
    BY <1>10, ReadIs
  <2>2. InStep
    BY <1>3, <2>1, Zenon
  <2> QED BY <1>6, <2>1, <2>2
<1>11. CASE ReadNothing
  BY <1>6, <1>11, ReadNothingIs
<1>12. CASE Execute
  <2>1. PICK d \in Decoded :
          /\ in' = d.buf /\ Taken(in, d.buf) /\ ReplyText(d.data) \in Seq(Nat)
          /\ getBufferString(out') = getBufferString(out) \o ReplyText(d.data)
    BY <1>12, ExecuteIs
  <2>2. InStep
    BY <1>8, <2>1, Zenon
  <2>3. OutStep
    BY <1>5, <2>1, Zenon
  <2> QED BY <2>2, <2>3
<1>13. CASE ExecuteEnds
  <2>1. Taken(in, in') /\ out' = out
    BY <1>13, ExecuteEndsIs
  <2> QED BY <1>6, <1>8, <2>1
<1>14. CASE Send
  <2>1. in' = in /\ Left \in 1 .. readAble(out) /\ (out' = out \/ out' = recycleRead(out, Left))
    BY <1>14, SendIs
  <2>2. OutStep
    BY <1>6, <1>9, <2>1, Zenon
  <2> QED BY <1>7, <2>1, <2>2
<1>15. CASE OutputEnds
  BY <1>6, <1>7, <1>15 DEF OutputEnds
<1>16. CASE UNCHANGED vars
  BY <1>6, <1>7, <1>16 DEF vars
<1>17. CASE Ended
  BY <1>16, <1>17 DEF Ended
<1> QED BY <1>10, <1>11, <1>12, <1>13, <1>14, <1>15, <1>16, <1>17 DEF Next

\* What is put into a TcpBuffer comes out in that order and once, however it
\* grows and moves: m_read_buffer and m_write_buffer of a connection, under
\* everything that it does with them, implement a queue of bytes.
THEOREM StreamBuffersAreQueues == Spec => BuffersAreQueues
<1>1. Init => InQueue!Init /\ OutQueue!Init
  BY InitSizeAssumption, NewIsEmpty DEF Init, InQueue!Init, OutQueue!Init
<1>2. StreamTypes /\ [Next]_vars =>
        [InQueue!Next]_(getBufferString(in)) /\ [OutQueue!Next]_(getBufferString(out))
  BY QueueSteps
<1>3. Spec => InQueue!Spec /\ OutQueue!Spec
  BY <1>1, <1>2, AlwaysStreamTypes, PTL DEF Spec, InQueue!Spec, OutQueue!Spec
<1> QED BY <1>3 DEF BuffersAreQueues

-----------------------------------------------------------------------------
(***************************************************************************)
(* The replies, one behind the other.                                      *)
(***************************************************************************)
Strung(s, f) == f = [i \in 1 .. Len(s) |-> IF i = 1 THEN s[i] ELSE f[i-1] \o s[i]]

LEMMA StrungExists ==
    ASSUME NEW s \in Seq(Seq(Nat))
    PROVE  \E f : Strung(s, f)
<1> DEFINE N == Len(s)
           T == Seq(Nat)
           Next1(g, i) == IF i = 1 THEN s[i] ELSE g[i-1] \o s[i]
           Has(n, g) == g \in [1 .. n -> T] /\ \A i \in 1 .. n : g[i] = Next1(g, i)
           P == {n \in 0 .. N : \E g : Has(n, g)}
<1>1. N \in Nat /\ \A i \in 1 .. N : s[i] \in T
  OBVIOUS
<1>2. 0 \in P
  <2>1. Has(0, [i \in 1 .. 0 |-> 0])
    OBVIOUS
  <2> HIDE DEF Has
  <2> QED BY <1>1, <2>1
<1>3. ASSUME NEW n \in P, n < N PROVE n + 1 \in P
  <2>1. n \in 0 .. N /\ n + 1 \in 1 .. N /\ n + 1 \in 0 .. N
    BY <1>1, <1>3
  <2>2. PICK g : Has(n, g)
    OBVIOUS
  <2> DEFINE j == n + 1
             h == [i \in 1 .. j |-> IF i = j THEN Next1(g, j) ELSE g[i]]
  <2>3. \A i \in 1 .. j : i = j \/ i \in 1 .. n
    BY <2>1
  <2>4. Next1(g, j) \in T
    <3>1. s[j] \in T
      BY <1>1, <2>1
    <3>2. CASE j = 1
      BY <3>1, <3>2
    <3>3. CASE j # 1
      <4>1. j - 1 \in 1 .. n
        BY <2>1, <3>3
      <4>2. g[j - 1] \in T
        BY <2>2, <4>1
      <4>3. g[j - 1] \o s[j] \in T
        BY <3>1, <4>2, TwoCat
      <4> QED BY <3>3, <4>3
    <3> QED BY <3>2, <3>3
  <2>5. h \in [1 .. j -> T]
    <3>1. ASSUME NEW i \in 1 .. j PROVE h[i] \in T
      BY <2>2, <2>3, <2>4
    <3> QED BY <3>1
  <2>6. ASSUME NEW i \in 1 .. j PROVE h[i] = Next1(h, i)
    <3>1. i # 1 => i - 1 \in 1 .. n /\ i - 1 # j /\ i - 1 \in 1 .. j
      BY <2>1
    <3>2. i # 1 => h[i - 1] = g[i - 1]
      BY <3>1
    <3>3. Next1(h, i) = Next1(g, i)
      BY <3>2
    <3>4. h[i] = Next1(g, i)
      <4>1. CASE i = j
        BY <4>1
      <4>2. CASE i # j
        <5>1. i \in 1 .. n
          BY <2>3, <4>2
        <5> HIDE DEF Next1
        <5>2. h[i] = g[i] /\ g[i] = Next1(g, i)
          BY <2>2, <4>2, <5>1
        <5> QED BY <5>2
      <4> QED BY <4>1, <4>2
    <3> QED BY <3>3, <3>4
  <2>7. Has(j, h)
    <3> HIDE DEF h, Next1
    <3> QED BY <2>5, <2>6
  <2> HIDE DEF Has
  <2> QED BY <2>1, <2>7
<1> HIDE DEF Has
<1>4. P \in SUBSET (0 .. N)
  OBVIOUS
<1> HIDE DEF P
<1>5. P = 0 .. N
  BY <1>1, <1>2, <1>3, <1>4, UpTo
<1>6. N \in P
  BY <1>1, <1>5
<1>7. PICK g : Has(N, g)
  BY <1>6 DEF P
<1>8. g = [i \in 1 .. N |-> Next1(g, i)]
  BY <1>7 DEF Has
<1> QED BY <1>8 DEF Strung

LEMMA StrungTogether ==
    ASSUME NEW s \in Seq(Seq(Nat)), NEW f, Strung(s, f),
           NEW t \in Seq(Seq(Nat)), NEW g, Strung(t, g),
           NEW n \in Nat, n <= Len(s), n <= Len(t), \A i \in 1 .. n : s[i] = t[i]
    PROVE  \A i \in 1 .. n : f[i] = g[i] /\ f[i] \in Seq(Nat)
<1> DEFINE P == {m \in 0 .. n : \A i \in 1 .. m : f[i] = g[i] /\ f[i] \in Seq(Nat)}
<1>0. ASSUME NEW i \in 1 .. n
      PROVE  /\ f[i] = IF i = 1 THEN s[i] ELSE f[i-1] \o s[i]
             /\ g[i] = IF i = 1 THEN t[i] ELSE g[i-1] \o t[i]
             /\ s[i] = t[i] /\ s[i] \in Seq(Nat)
  <2>1. i \in 1 .. Len(s) /\ i \in 1 .. Len(t)
    OBVIOUS
  <2>2. f[i] = IF i = 1 THEN s[i] ELSE f[i-1] \o s[i]
    BY <2>1, Zenon DEF Strung
  <2>3. g[i] = IF i = 1 THEN t[i] ELSE g[i-1] \o t[i]
    BY <2>1, Zenon DEF Strung
  <2>4. s[i] \in Seq(Nat)
    BY <2>1
  <2> QED BY <2>2, <2>3, <2>4
<1>1. 0 \in P
  OBVIOUS
<1>2. ASSUME NEW m \in P, m < n PROVE m + 1 \in P
  <2>1. m + 1 \in 1 .. n /\ m + 1 \in 0 .. n /\ \A i \in 1 .. m + 1 : i = m + 1 \/ i \in 1 .. m
    BY <1>2
  <2>2. \A i \in 1 .. m : f[i] = g[i] /\ f[i] \in Seq(Nat)
    OBVIOUS
  <2>3. f[m+1] = g[m+1] /\ f[m+1] \in Seq(Nat)
    <3>1. CASE m + 1 = 1
      BY <1>0, <2>1, <3>1
    <3>2. CASE m + 1 # 1
      <4>1. m + 1 - 1 = m /\ m \in 1 .. m
        BY <2>1, <3>2
      <4>2. f[m] = g[m] /\ f[m] \in Seq(Nat)
        BY <2>2, <4>1
      <4>3. /\ f[m+1] = f[m] \o s[m+1] /\ g[m+1] = g[m] \o t[m+1]
            /\ s[m+1] = t[m+1] /\ s[m+1] \in Seq(Nat)
        <5>1. m + 1 \in 1 .. n
          BY <2>1
        <5>2. /\ f[m+1] = IF m + 1 = 1 THEN s[m+1] ELSE f[m+1-1] \o s[m+1]
              /\ g[m+1] = IF m + 1 = 1 THEN t[m+1] ELSE g[m+1-1] \o t[m+1]
              /\ s[m+1] = t[m+1] /\ s[m+1] \in Seq(Nat)
          BY <1>0, <5>1
        <5> QED BY <3>2, <4>1, <5>2
      <4>4. f[m] \o s[m+1] \in Seq(Nat)
        BY <4>2, <4>3, TwoCat
      <4> QED BY <4>2, <4>3, <4>4
    <3> QED BY <3>1, <3>2
  <2> QED BY <2>1, <2>2, <2>3
<1>3. P \in SUBSET (0 .. n)
  OBVIOUS
<1> HIDE DEF P
<1>4. P = 0 .. n
  BY <1>1, <1>2, <1>3, UpTo
<1>5. n \in P
  BY <1>4
<1> QED BY <1>5 DEF P

LEMMA Flattened ==
    ASSUME NEW s \in Seq(Seq(Nat)), s # <<>>
    PROVE  \E f : Strung(s, f) /\ FlattenSeq(s) = f[Len(s)]
<1> DEFINE g == CHOOSE f : Strung(s, f)
<1>1. Strung(s, g)
  BY StrungExists
<1>2. Len(s) # 0
  OBVIOUS
<1>3. FlattenSeq(s) = g[Len(s)]
  BY <1>2 DEF FlattenSeq, Strung
<1> QED BY <1>1, <1>3

LEMMA FlattenedBehind ==
    ASSUME NEW s \in Seq(Seq(Nat)), NEW x \in Seq(Nat)
    PROVE  FlattenSeq(s) \in Seq(Nat) /\ FlattenSeq(Append(s, x)) = FlattenSeq(s) \o x
<1> DEFINE t == Append(s, x)  n == Len(s)
<1>1. /\ t \in Seq(Seq(Nat)) /\ Len(t) = n + 1 /\ n \in Nat /\ t[n + 1] = x
      /\ \A i \in 1 .. n : t[i] = s[i]
  BY AppendProperties
<1>2. t # <<>>
  <2> HIDE DEF t, n
  <2> QED BY <1>1
<1>3. PICK g : Strung(t, g) /\ FlattenSeq(t) = g[n + 1]
  BY <1>1, <1>2, Flattened
<1>4. g[n + 1] = IF n = 0 THEN x ELSE g[n] \o x
  <2> HIDE DEF t, n
  <2>1. n + 1 \in 1 .. Len(t)
    BY <1>1
  <2>2. \A i \in 1 .. Len(t) : g[i] = IF i = 1 THEN t[i] ELSE g[i-1] \o t[i]
    BY <1>3, Zenon DEF Strung
  <2> DEFINE j == n + 1
  <2>3. j \in 1 .. Len(t)
    BY <2>1
  <2> HIDE DEF j
  <2>4. g[j] = IF j = 1 THEN t[j] ELSE g[j-1] \o t[j]
    BY <2>2, <2>3, Zenon
  <2>5. t[j] = x /\ j - 1 = n /\ (j = 1 <=> n = 0)
    BY <1>1 DEF j
  <2>6. g[j] = IF n = 0 THEN x ELSE g[n] \o x
    BY <2>4, <2>5
  <2> QED BY <2>6 DEF j
<1>5. CASE s = <<>>
  <2>1. n = 0 /\ FlattenSeq(s) = <<>>
    BY <1>5 DEF FlattenSeq
  <2>2. g[n + 1] = x
    BY <1>1, <1>4, <2>1
  <2>3. <<>> \o x = x
    OBVIOUS
  <2> QED BY <1>3, <2>1, <2>2, <2>3
<1>6. CASE s # <<>>
  <2>1. PICK f : Strung(s, f) /\ FlattenSeq(s) = f[n]
    BY <1>6, Flattened
  <2>2. n # 0 /\ n + 1 - 1 = n /\ n \in 1 .. n /\ n <= Len(s) /\ n <= Len(t)
    BY <1>1, <1>6
  <2> HIDE DEF t, n
  <2>3. f[n] = g[n] /\ f[n] \in Seq(Nat)
    <3>1. \A i \in 1 .. n : s[i] = t[i]
      BY <1>1
    <3>2. t \in Seq(Seq(Nat)) /\ n \in Nat /\ Strung(t, g) /\ Strung(s, f)
      BY <1>1, <1>3, <2>1
    <3>3. \A i \in 1 .. n : f[i] = g[i] /\ f[i] \in Seq(Nat)
      BY <2>2, <3>1, <3>2, StrungTogether, Zenon
    <3> QED BY <2>2, <3>3
  <2>4. g[n + 1] = g[n] \o x
    BY <1>1, <1>4, <2>2
  <2> QED BY <1>3, <2>1, <2>3, <2>4 DEF t
<1> QED BY <1>5, <1>6

ReplyOf(p, m) == IF p = "http" THEN HttpText(dispatchHttp(m))
                 ELSE IF m.service_full_name = <<>> THEN <<>>
                      ELSE encodePbData(dispatchPb(m))
RepliesTo(p, ms) == [i \in DOMAIN ms |-> ReplyOf(p, ms[i])]

\* As long as no write was short, what the peer has got and what is still in the
\* write buffer are together the replies.
RepliesSent ==
    ~short => /\ sending = 0
              /\ got \o getBufferString(out) = FlattenSeq(RepliesTo(proto, dispatched))

LEMMA RepliesAre ==
    ASSUME StreamTypes
    PROVE  RepliesTo(proto, dispatched) \in Seq(Seq(Nat))
<1> DEFINE s == RepliesTo(proto, dispatched)
<1>1. proto \in {"pb", "http"} /\ Buffer(out) /\ dispatched \in Seq(Requests)
  BY DEF StreamTypes
<1>2. ASSUME NEW i \in 1 .. Len(dispatched) PROVE ReplyOf(proto, dispatched[i]) \in Seq(Nat)
  <2>1. dispatched[i] \in Requests
    BY <1>1
  <2>2. ReplyText(dispatched[i]) \in Seq(Nat)
    BY <1>1, <2>1, AnsweredIs
  <2> QED BY <2>2 DEF ReplyText, ReplyOf
<1>3. DOMAIN dispatched = 1 .. Len(dispatched) /\ Len(dispatched) \in Nat
  BY <1>1
<1>4. s \in [1 .. Len(dispatched) -> Seq(Nat)]
  BY <1>2, <1>3 DEF RepliesTo
<1> HIDE DEF s
<1>5. s \in Seq(Seq(Nat))
  BY <1>3, <1>4, Listed
<1> QED BY <1>5 DEF s

LEMMA OneReplyMore ==
    ASSUME NEW p, NEW M, NEW ms \in Seq(M), NEW m \in M
    PROVE  RepliesTo(p, Append(ms, m)) = Append(RepliesTo(p, ms), ReplyOf(p, m))
<1> DEFINE n == Len(ms)  t == Append(ms, m)  R == {ReplyOf(p, x) : x \in M}
<1>1. n \in Nat /\ t \in Seq(M) /\ Len(t) = n + 1 /\ t[n + 1] = m /\ \A i \in 1 .. n : t[i] = ms[i]
  BY AppendProperties
<1>2. RepliesTo(p, ms) \in [1 .. n -> R]
  BY DEF RepliesTo
<1>3. RepliesTo(p, ms) \in Seq(R) /\ Len(RepliesTo(p, ms)) = n
  <2> HIDE DEF R, n
  <2> QED BY <1>1, <1>2, Listed
<1>4. RepliesTo(p, t) \in [1 .. n + 1 -> R]
  <2> HIDE DEF t, n
  <2>1. DOMAIN t = 1 .. n + 1 /\ \A i \in 1 .. n + 1 : t[i] \in M
    BY <1>1
  <2> QED BY <2>1 DEF RepliesTo
<1>5. RepliesTo(p, t) \in Seq(R) /\ Len(RepliesTo(p, t)) = n + 1
  <2> HIDE DEF R, n, t
  <2>1. n + 1 \in Nat
    BY <1>1
  <2> QED BY <1>4, <2>1, Listed
<1>6. ReplyOf(p, m) \in R
  OBVIOUS
<1> DEFINE u == Append(RepliesTo(p, ms), ReplyOf(p, m))
<1>7. /\ u \in Seq(R) /\ Len(u) = n + 1 /\ u[n + 1] = ReplyOf(p, m)
      /\ \A i \in 1 .. n : u[i] = RepliesTo(p, ms)[i]
  <2> HIDE DEF R, n
  <2> QED BY <1>3, <1>6, AppendProperties
<1> HIDE DEF u, t, R
<1>8. ASSUME NEW i \in 1 .. n + 1 PROVE RepliesTo(p, t)[i] = u[i]
  <2>0. RepliesTo(p, t)[i] = ReplyOf(p, t[i])
    <3>1. i \in DOMAIN t
      BY <1>1
    <3> QED BY <3>1 DEF RepliesTo
  <2>1. CASE i = n + 1
    BY <1>1, <1>7, <2>0, <2>1
  <2>2. CASE i # n + 1
    <3>1. i \in 1 .. n /\ i \in DOMAIN ms
      BY <1>1, <2>2
    <3>2. RepliesTo(p, ms)[i] = ReplyOf(p, ms[i])
      BY <3>1 DEF RepliesTo
    <3> QED BY <1>1, <1>7, <2>0, <3>1, <3>2
  <2> QED BY <2>1, <2>2
<1>9. RepliesTo(p, t) = u
  BY <1>5, <1>7, <1>8, SeqEqual
<1> QED BY <1>9 DEF t, u

LEMMA RepliesSentInit == Init => RepliesSent
<1> SUFFICES ASSUME Init PROVE sending = 0
                /\ got \o getBufferString(out) = FlattenSeq(RepliesTo(proto, dispatched))
  BY DEF RepliesSent
<1>1. sending = 0 /\ got = <<>> /\ dispatched = <<>> /\ getBufferString(out) = <<>>
  BY InitSizeAssumption, NewIsEmpty DEF Init
<1>2. RepliesTo(proto, <<>>) = <<>>
  BY DEF RepliesTo
<1>3. FlattenSeq(<<>>) = <<>>
  BY DEF FlattenSeq
<1>4. <<>> \o <<>> = <<>>
  OBVIOUS
<1> QED BY <1>1, <1>2, <1>3, <1>4

LEMMA RepliesSentStep == StreamTypes /\ RepliesSent /\ [Next]_vars => RepliesSent'
<1> SUFFICES ASSUME StreamTypes, RepliesSent, [Next]_vars, ~short'
             PROVE  /\ sending' = 0
                    /\ got' \o getBufferString(out') =
                           FlattenSeq(RepliesTo(proto', dispatched'))
  BY DEF RepliesSent
<1> DEFINE o == getBufferString(out)  replies == RepliesTo(proto, dispatched)
<1>1. /\ Buffer(out) /\ got \in Seq(Nat) /\ dispatched \in Seq(Requests)
      /\ o \in Seq(Nat) /\ Len(o) = readAble(out) /\ readAble(out) \in Nat
      /\ replies \in Seq(Seq(Nat)) /\ short \in BOOLEAN
  BY Unread, RepliesAre DEF StreamTypes
<1>2. ~short => sending = 0 /\ got \o o = FlattenSeq(replies)
  BY DEF RepliesSent
<1>3. CASE UNCHANGED <<proto, out, dispatched, sendVars>>
  BY <1>2, <1>3 DEF sendVars
<1>4. CASE Read
  BY <1>3, <1>4, ReadIs
<1>5. CASE ReadNothing
  BY <1>3, <1>5, ReadNothingIs
<1>6. CASE Execute
  <2>1. PICK d \in Decoded :
          /\ d.data \in Requests /\ dispatched' = Append(dispatched, d.data)
          /\ ReplyText(d.data) \in Seq(Nat)
          /\ getBufferString(out') = getBufferString(out) \o ReplyText(d.data)
          /\ UNCHANGED <<proto, sendVars>>
    BY <1>6, ExecuteIs
  <2> DEFINE x == ReplyText(d.data)
  <2>2. sending' = 0 /\ got \o o = FlattenSeq(replies) /\ got' = got
    BY <1>2, <2>1 DEF sendVars
  <2>3. x = ReplyOf(proto, d.data)
    BY DEF ReplyText, ReplyOf
  <2>4. RepliesTo(proto, Append(dispatched, d.data)) = Append(replies, x)
    BY <1>1, <2>1, <2>3, OneReplyMore
  <2>5. FlattenSeq(Append(replies, x)) = FlattenSeq(replies) \o x
    BY <1>1, <2>1, FlattenedBehind
  <2>6. got \o (o \o x) = (got \o o) \o x
    <3>1. got \in Seq(Nat) /\ o \in Seq(Nat) /\ x \in Seq(Nat)
      BY <1>1, <2>1
    <3> HIDE DEF o, x
    <3> QED BY <3>1, ConcatAssociative
  <2> QED BY <2>1, <2>2, <2>4, <2>5, <2>6
<1>7. CASE ExecuteEnds
  BY <1>3, <1>7, ExecuteEndsIs
<1>8. CASE Send
  <2>1. /\ Left \in 1 .. readAble(out)
        /\ \/ /\ got' = got \o After(o, readAble(out) - Left)
              /\ out' = recycleRead(out, Left) /\ sending' = 0 /\ short' = short
           \/ short' = TRUE
        /\ UNCHANGED <<proto, dispatched>>
    BY <1>8, SendIs
  <2>2. /\ sending' = 0 /\ ~short /\ Left = readAble(out)
        /\ got' = got \o After(o, readAble(out) - Left) /\ out' = recycleRead(out, Left)
    BY <1>2, <2>1 DEF Left
  <2> DEFINE l == readAble(out)
  <2>3. l - l = 0 /\ l \in 0 .. l /\ l \in Nat
    BY <1>1
  <2>4. After(o, 0) = o
    <3> HIDE DEF o
    <3>1. After(o, 0) = SubSeq(o, 1, Len(o))
      BY DEF After
    <3> QED BY <1>1, <3>1, SubSeqFull
  <2>5. getBufferString(out') = SubSeq(o, l + 1, l)
    BY <1>1, <2>2, <2>3, ReadRecycled
  <2>6. SubSeq(o, l + 1, l) = <<>>
    BY <2>3, SubSeqEmpty
  <2>7. got' = got \o o
    BY <2>2, <2>3, <2>4
  <2>8. got \o o \in Seq(Nat)
    BY <1>1, TwoCat
  <2>9. (got \o o) \o <<>> = got \o o
    BY <2>8, ConcatEmptySeq
  <2> QED BY <1>2, <2>1, <2>2, <2>5, <2>6, <2>7, <2>9
<1>9. CASE OutputEnds
  BY <1>3, <1>9 DEF OutputEnds
<1>10. CASE UNCHANGED vars
  BY <1>3, <1>10 DEF vars
<1>11. CASE Ended
  BY <1>10, <1>11 DEF Ended
<1> QED BY <1>4, <1>5, <1>6, <1>7, <1>8, <1>9, <1>10, <1>11 DEF Next

LEMMA PrefixOfCat ==
    ASSUME NEW s \in Seq(Nat), NEW t \in Seq(Nat)
    PROVE  IsPrefix(s, s \o t)
<1>1. /\ s \o t \in Seq(Nat) /\ Len(s \o t) = Len(s) + Len(t) /\ Len(s) \in Nat /\ Len(t) \in Nat
  BY TwoCat, LenProperties
<1>2. Len(s) <= Len(s \o t)
  BY <1>1
<1>3. SubSeq(s, 1, Len(s)) = s
  BY SubSeqFull
<1>4. SubSeq(s \o t, 1, Len(s)) = s
  <2>1. s \o t = s \/ SubSeq(s \o t, 1, Len(s)) = s
    BY BehindIsPut
  <2> QED BY <1>3, <2>1
<1> QED BY <1>2, <1>3, <1>4 DEF IsPrefix

\* As long as every write took all that it was given, the peer has received the
\* replies to its requests in their order: execute() encodes them behind each
\* other into m_write_buffer, and output() sends that buffer from its front.
THEOREM StreamRepliesInOrder == Spec => []RepliesInOrder
<1>1. StreamTypes /\ RepliesSent => RepliesInOrder
  <2> SUFFICES ASSUME StreamTypes, RepliesSent, ~short
               PROVE  IsPrefix(got, FlattenSeq([i \in DOMAIN dispatched |-> ReplyText(dispatched[i])]))
    BY DEF RepliesInOrder
  <2>1. got \in Seq(Nat) /\ getBufferString(out) \in Seq(Nat)
    BY Unread DEF StreamTypes
  <2>2. IsPrefix(got, FlattenSeq(RepliesTo(proto, dispatched)))
    BY <2>1, PrefixOfCat DEF RepliesSent
  <2> QED BY <2>2 DEF RepliesTo, ReplyOf, ReplyText
<1> QED BY <1>1, RepliesSentInit, RepliesSentStep, AlwaysStreamTypes, PTL DEF Spec

-----------------------------------------------------------------------------
(***************************************************************************)
(* Strings that begin alike.                                               *)
(***************************************************************************)
Begins(u, w) == Len(u) <= Len(w) /\ \A i \in 1 .. Len(u) : u[i] = w[i]

LEMMA SameCut ==
    ASSUME NEW u \in Seq(Nat), NEW w \in Seq(Nat), Begins(u, w),
           NEW m \in Nat \ {0}, NEW n \in Int, n <= Len(u)
    PROVE  SubSeq(u, m, n) = SubSeq(w, m, n)
<1>1. Len(u) \in Nat /\ Len(w) \in Nat /\ n <= Len(w)
  BY DEF Begins
<1>2. \A i \in m .. n : u[i] \in Nat /\ w[i] \in Nat /\ u[i] = w[i]
  BY <1>1 DEF Begins
<1>3. /\ SubSeq(u, m, n) \in Seq(Nat) /\ Len(SubSeq(u, m, n)) = IF m <= n THEN n - m + 1 ELSE 0
      /\ \A i \in 1 .. n - m + 1 : SubSeq(u, m, n)[i] = u[m + i - 1]
  BY <1>2, SubSeqProperties
<1>4. /\ SubSeq(w, m, n) \in Seq(Nat) /\ Len(SubSeq(w, m, n)) = IF m <= n THEN n - m + 1 ELSE 0
      /\ \A i \in 1 .. n - m + 1 : SubSeq(w, m, n)[i] = w[m + i - 1]
  BY <1>2, SubSeqProperties
<1>5. ASSUME NEW i \in 1 .. Len(SubSeq(u, m, n)) PROVE SubSeq(u, m, n)[i] = SubSeq(w, m, n)[i]
  <2>1. i \in 1 .. n - m + 1 /\ m + i - 1 \in m .. n
    BY <1>3
  <2> QED BY <1>2, <1>3, <1>4, <2>1
<1>6. Len(SubSeq(u, m, n)) = Len(SubSeq(w, m, n))
  BY <1>3, <1>4
<1> QED BY <1>3, <1>4, <1>5, <1>6, SeqEqual

LEMMA BeginsBehind ==
    ASSUME NEW u \in Seq(Nat), NEW w \in Seq(Nat), Begins(u, w), NEW c \in 0 .. Len(u)
    PROVE  /\ After(u, c) \in Seq(Nat) /\ After(w, c) \in Seq(Nat)
           /\ Begins(After(u, c), After(w, c))
           /\ Len(After(u, c)) = Len(u) - c /\ Len(After(w, c)) = Len(w) - c
<1>1. Len(u) \in Nat /\ Len(w) \in Nat /\ Len(u) <= Len(w) /\ c \in Nat /\ c <= Len(w) /\ c <= Len(u)
  BY DEF Begins
<1>2. ASSUME NEW s \in Seq(Nat), c <= Len(s)
      PROVE  /\ After(s, c) \in Seq(Nat) /\ Len(After(s, c)) = Len(s) - c
             /\ \A i \in 1 .. Len(s) - c : After(s, c)[i] = s[c + i]
  <2> DEFINE m == c + 1  n == Len(s)
  <2>1. m \in 1 .. Len(s) + 1 /\ n \in m - 1 .. Len(s) /\ n - m + 1 = Len(s) - c /\ Len(s) \in Nat
    BY <1>1, <1>2
  <2>2. \A i \in 1 .. Len(s) - c : m + i - 1 = c + i
    BY <1>1
  <2> HIDE DEF m, n
  <2>3. /\ SubSeq(s, m, n) \in Seq(Nat) /\ Len(SubSeq(s, m, n)) = n - m + 1
        /\ \A i \in 1 .. n - m + 1 : SubSeq(s, m, n)[i] = s[m + i - 1]
    BY <2>1, Part
  <2>4. After(s, c) = SubSeq(s, m, n)
    BY DEF After, m, n
  <2> QED BY <2>1, <2>2, <2>3, <2>4
<1>3. /\ After(u, c) \in Seq(Nat) /\ Len(After(u, c)) = Len(u) - c
      /\ \A i \in 1 .. Len(u) - c : After(u, c)[i] = u[c + i]
  BY <1>1, <1>2
<1>4. /\ After(w, c) \in Seq(Nat) /\ Len(After(w, c)) = Len(w) - c
      /\ \A i \in 1 .. Len(w) - c : After(w, c)[i] = w[c + i]
  BY <1>1, <1>2
<1>5. \A i \in 1 .. Len(u) - c : c + i \in 1 .. Len(u) /\ i \in 1 .. Len(w) - c
  BY <1>1
<1>6. ASSUME NEW i \in 1 .. Len(u) - c PROVE After(u, c)[i] = After(w, c)[i]
  BY <1>3, <1>4, <1>5 DEF Begins
<1>7. Len(u) - c <= Len(w) - c
  BY <1>1
<1>8. Begins(After(u, c), After(w, c))
  BY <1>3, <1>4, <1>6, <1>7 DEF Begins
<1> QED BY <1>3, <1>4, <1>8

LEMMA BeginsCat ==
    ASSUME NEW s \in Seq(Nat), NEW t \in Seq(Nat)
    PROVE  Begins(s, s \o t)
BY ConcatProperties DEF Begins

LEMMA BeginsThrough ==
    ASSUME NEW u \in Seq(Nat), NEW v \in Seq(Nat), NEW w \in Seq(Nat), Begins(u, v), Begins(v, w)
    PROVE  Begins(u, w)
<1>1. Len(u) \in Nat /\ Len(v) \in Nat /\ Len(w) \in Nat
  OBVIOUS
<1> QED BY <1>1 DEF Begins

\* Where t is found in a string it is found in each that begins with it.
LEMMA FindStable ==
    ASSUME NEW u \in Seq(Nat), NEW w \in Seq(Nat), Begins(u, w),
           NEW t \in Seq(Nat), t # <<>>, find(u, t) # 0
    PROVE  find(w, t) = find(u, t)
<1> DEFINE f == find(u, t)  g == find(w, t)  l == Len(t)
<1>1. /\ f \in 0 .. Len(u) /\ f + l - 1 <= Len(u) /\ SubSeq(u, f, f + l - 1) = t
      /\ \A i \in 1 .. Len(u) - l + 1 : SubSeq(u, i, i + l - 1) = t => f <= i
  BY FoundAt
<1>2. /\ g \in 0 .. Len(w)
      /\ g # 0 => g + l - 1 <= Len(w) /\ SubSeq(w, g, g + l - 1) = t
      /\ \A i \in 1 .. Len(w) - l + 1 : SubSeq(w, i, i + l - 1) = t => g # 0 /\ g <= i
  BY FoundAt
<1>3. Len(u) \in Nat /\ Len(w) \in Nat /\ Len(u) <= Len(w) /\ l \in Nat \ {0}
  BY DEF Begins
<1> HIDE DEF f, g, l
<1>4. f \in Nat \ {0}
  BY <1>1, <1>3 DEF f
<1>5. f + l - 1 \in Int /\ f \in 1 .. Len(w) - l + 1
  BY <1>1, <1>3, <1>4
<1>6. SubSeq(w, f, f + l - 1) = t
  BY <1>1, <1>4, <1>5, SameCut
<1>7. g # 0 /\ g <= f
  BY <1>2, <1>5, <1>6
<1>8. g \in Nat \ {0} /\ g + l - 1 \in Int /\ g + l - 1 <= Len(u)
      /\ g \in 1 .. Len(u) - l + 1
  BY <1>1, <1>2, <1>3, <1>4, <1>7
<1>9. SubSeq(u, g, g + l - 1) = t
  BY <1>2, <1>7, <1>8, SameCut
<1>10. f <= g
  BY <1>1, <1>8, <1>9
<1> QED BY <1>4, <1>7, <1>8, <1>10 DEF f, g

-----------------------------------------------------------------------------
(***************************************************************************)
(* HTTP: a request that is there, and a part of one.                       *)
(***************************************************************************)
LineEnd(s) == find(s, g_CRLF)
LineOf(s) == parseHttpRequestLine(SubSeq(s, 1, LineEnd(s) - 1))
Behind(s) == After(s, LineEnd(s) + 1)
HeadEnd(s) == find(Behind(s), g_CRLF \o g_CRLF)
HeaderOf(s) == parseHttpRequestHeader(SubSeq(Behind(s), 1, HeadEnd(s) - 1))
BodyIn(s) == After(Behind(s), HeadEnd(s) + 3)
LengthOf(s) == atoi(ValueOf(HeaderOf(s), <<ContentLength>>))
HeadLen(s) == LineEnd(s) + 1 + HeadEnd(s) + 3

LEMMA ParsedBy ==
    ASSUME NEW s
    PROVE  parseHttp(s) =
             IF LineEnd(s) = 0 THEN NoRequest(FALSE)
             ELSE IF LineEnd(s) = Len(s) - 1 THEN NoRequest(TRUE)
             ELSE IF ~LineOf(s).ok \/ HeadEnd(s) = 0 THEN NoRequest(FALSE)
             ELSE Completed(LineOf(s), HeaderOf(s), BodyIn(s), LengthOf(s), HeadLen(s))
BY DEF parseHttp, WithHeader, LineEnd, LineOf, Behind, HeadEnd, HeaderOf, BodyIn, LengthOf, HeadLen

LEMMA RequestParts ==
    ASSUME NEW s \in Seq(Nat)
    PROVE  /\ LineEnd(s) \in 0 .. Len(s) /\ (LineEnd(s) # 0 => LineEnd(s) + 1 <= Len(s))
           /\ LineEnd(s) # 0 =>
                /\ Behind(s) \in Seq(Nat) /\ Len(Behind(s)) = Len(s) - (LineEnd(s) + 1)
                /\ HeadEnd(s) \in 0 .. Len(Behind(s))
                /\ HeadEnd(s) # 0 =>
                     /\ HeadEnd(s) + 3 <= Len(Behind(s))
                     /\ BodyIn(s) \in Seq(Nat) /\ Len(BodyIn(s)) = Len(s) - HeadLen(s)
                     /\ HeadLen(s) \in 1 .. Len(s) /\ LengthOf(s) \in Nat
<1>0. Len(s) \in Nat
  OBVIOUS
<1>1. LineEnd(s) \in 0 .. Len(s) /\ (LineEnd(s) # 0 => LineEnd(s) + Len(g_CRLF) - 1 <= Len(s))
  BY CRLF, FoundAt DEF LineEnd
<1>2. LineEnd(s) # 0 => LineEnd(s) + 1 <= Len(s)
  BY <1>0, <1>1, CRLF
<1>3. ASSUME LineEnd(s) # 0
      PROVE  /\ Behind(s) \in Seq(Nat) /\ Len(Behind(s)) = Len(s) - (LineEnd(s) + 1)
             /\ HeadEnd(s) \in 0 .. Len(Behind(s))
             /\ HeadEnd(s) # 0 =>
                  /\ HeadEnd(s) + 3 <= Len(Behind(s))
                  /\ BodyIn(s) \in Seq(Nat) /\ Len(BodyIn(s)) = Len(s) - HeadLen(s)
                  /\ HeadLen(s) \in 1 .. Len(s) /\ LengthOf(s) \in Nat
  <2>1. LineEnd(s) + 1 \in Nat /\ LineEnd(s) + 1 <= Len(s)
    BY <1>0, <1>1, <1>2, <1>3
  <2>2. Behind(s) \in Seq(Nat) /\ Len(Behind(s)) = Len(s) - (LineEnd(s) + 1)
    BY <2>1, AfterIs DEF Behind
  <2>3. Len(Behind(s)) \in Nat
    BY <2>2
  <2>4. HeadEnd(s) \in 0 .. Len(Behind(s))
        /\ (HeadEnd(s) # 0 => HeadEnd(s) + Len(g_CRLF \o g_CRLF) - 1 <= Len(Behind(s)))
    BY <2>2, CRLF, FoundAt DEF HeadEnd
  <2>5. ASSUME HeadEnd(s) # 0
        PROVE  /\ HeadEnd(s) + 3 <= Len(Behind(s))
               /\ BodyIn(s) \in Seq(Nat) /\ Len(BodyIn(s)) = Len(s) - HeadLen(s)
               /\ HeadLen(s) \in 1 .. Len(s) /\ LengthOf(s) \in Nat
    <3>1. HeadEnd(s) + 3 \in Nat /\ HeadEnd(s) + 3 <= Len(Behind(s)) /\ HeadEnd(s) \in Nat
      BY <2>3, <2>4, <2>5, CRLF
    <3>2. BodyIn(s) \in Seq(Nat) /\ Len(BodyIn(s)) = Len(Behind(s)) - (HeadEnd(s) + 3)
      BY <2>2, <3>1, AfterIs DEF BodyIn
    <3>3. Len(BodyIn(s)) = Len(s) - HeadLen(s) /\ HeadLen(s) \in 1 .. Len(s)
      <4> DEFINE i == LineEnd(s)  j == HeadEnd(s)
      <4>1. i \in Nat /\ j \in Nat /\ i + 1 <= Len(s) /\ j + 3 <= Len(s) - (i + 1)
        BY <1>0, <1>1, <2>1, <2>2, <3>1
      <4>2. Len(BodyIn(s)) = Len(s) - (i + 1) - (j + 3) /\ HeadLen(s) = i + 1 + j + 3
        BY <2>2, <3>2 DEF HeadLen
      <4> HIDE DEF i, j
      <4> QED BY <1>0, <4>1, <4>2
    <3>4. SubSeq(Behind(s), 1, HeadEnd(s) - 1) \in Strings
      <4>1. 1 \in Nat \ {0} /\ HeadEnd(s) - 1 \in Int /\ HeadEnd(s) - 1 <= Len(Behind(s))
        BY <2>3, <3>1
      <4> QED BY <2>2, <4>1, Piece DEF Strings
    <3>5. LengthOf(s) \in Nat
      BY <3>4, HeaderPairs, PairsAre, atoiIsNat DEF LengthOf, HeaderOf
    <3> QED BY <3>1, <3>2, <3>3, <3>5
  <2> QED BY <2>2, <2>4, <2>5
<1> QED BY <1>1, <1>2, <1>3

\* A text that decode() takes as a whole.
Whole(s) == parseHttp(s).succ /\ parseHttp(s).taken = Len(s) /\ Len(s) > 0

LEMMA WholeIs ==
    ASSUME NEW s \in Seq(Nat), Whole(s)
    PROVE  /\ LineEnd(s) # 0 /\ LineEnd(s) # Len(s) - 1 /\ LineOf(s).ok /\ HeadEnd(s) # 0
           /\ LengthOf(s) <= Len(BodyIn(s))
           /\ IF LineOf(s).method = <<POST>> THEN Len(s) = HeadLen(s) + LengthOf(s)
              ELSE Len(s) = HeadLen(s)
<1>1. \A succ : parseHttp(s) # NoRequest(succ)
  <2>1. \A succ : NoRequest(succ).taken = 0
    BY DEF NoRequest
  <2>2. parseHttp(s).taken # 0
    BY DEF Whole
  <2> QED BY <2>1, <2>2
<1>2. /\ LineEnd(s) # 0 /\ LineEnd(s) # Len(s) - 1 /\ LineOf(s).ok /\ HeadEnd(s) # 0
      /\ parseHttp(s) = Completed(LineOf(s), HeaderOf(s), BodyIn(s), LengthOf(s), HeadLen(s))
  BY <1>1, ParsedBy, Zenon
<1>3. BodyIn(s) \in Seq(Nat) /\ Len(BodyIn(s)) \in Nat /\ LengthOf(s) \in Nat
      /\ HeadLen(s) \in Nat /\ Len(s) \in Nat
  <2>1. BodyIn(s) \in Seq(Nat) /\ LengthOf(s) \in Nat /\ HeadLen(s) \in 1 .. Len(s)
    BY <1>2, RequestParts
  <2> QED BY <2>1
<1> DEFINE body == IF LineOf(s).method = <<POST>> THEN SubSeq(BodyIn(s), 1, LengthOf(s)) ELSE <<>>
<1>4. ~(Len(BodyIn(s)) < LengthOf(s))
  <2>1. Len(BodyIn(s)) < LengthOf(s) =>
          Completed(LineOf(s), HeaderOf(s), BodyIn(s), LengthOf(s), HeadLen(s)) = NoRequest(FALSE)
    BY Zenon DEF Completed
  <2> QED BY <1>1, <1>2, <2>1
<1>5. parseHttp(s).taken = HeadLen(s) + Len(body)
  <2>1. Completed(LineOf(s), HeaderOf(s), BodyIn(s), LengthOf(s), HeadLen(s)).taken =
          HeadLen(s) + Len(body)
    BY <1>4 DEF Completed
  <2> QED BY <1>2, <2>1
<1>6. Len(SubSeq(BodyIn(s), 1, LengthOf(s))) = LengthOf(s)
  <2>1. 1 \in Nat \ {0} /\ LengthOf(s) \in Int /\ LengthOf(s) <= Len(BodyIn(s))
    BY <1>3, <1>4
  <2>2. Len(SubSeq(BodyIn(s), 1, LengthOf(s))) =
          IF 1 <= LengthOf(s) THEN LengthOf(s) - 1 + 1 ELSE 0
    BY <1>3, <2>1, Piece
  <2> QED BY <1>3, <2>2
<1>7. Len(<<>>) = 0
  OBVIOUS
<1>8. Len(s) = HeadLen(s) + Len(body)
  BY <1>5 DEF Whole
<1>9. IF LineOf(s).method = <<POST>> THEN Len(s) = HeadLen(s) + LengthOf(s)
      ELSE Len(s) = HeadLen(s)
  BY <1>3, <1>6, <1>7, <1>8
<1> QED BY <1>2, <1>3, <1>4, <1>9

\* Of two texts that begin alike the request line and the header are the same,
\* as far as the shorter one has them.
LEMMA SameLine ==
    ASSUME NEW u \in Seq(Nat), NEW w \in Seq(Nat), Begins(u, w), LineEnd(u) # 0
    PROVE  /\ LineEnd(w) = LineEnd(u) /\ LineOf(w) = LineOf(u)
           /\ Begins(Behind(u), Behind(w)) /\ Behind(w) \in Seq(Nat)
<1>1. LineEnd(w) = LineEnd(u)
  BY CRLF, FindStable DEF LineEnd
<1>2. LineEnd(u) \in 0 .. Len(u) /\ LineEnd(u) + 1 <= Len(u) /\ Len(u) \in Nat
  <2>1. LineEnd(u) \in 0 .. Len(u) /\ LineEnd(u) + 1 <= Len(u)
    BY RequestParts
  <2> QED BY <2>1
<1>3. 1 \in Nat \ {0} /\ LineEnd(u) - 1 \in Int /\ LineEnd(u) - 1 <= Len(u)
      /\ LineEnd(u) + 1 \in 0 .. Len(u)
  BY <1>2
<1>4. SubSeq(u, 1, LineEnd(u) - 1) = SubSeq(w, 1, LineEnd(u) - 1)
  BY <1>3, SameCut
<1>5. /\ Begins(After(u, LineEnd(u) + 1), After(w, LineEnd(u) + 1))
      /\ After(w, LineEnd(u) + 1) \in Seq(Nat)
  BY <1>3, BeginsBehind
<1> QED BY <1>1, <1>4, <1>5 DEF LineOf, Behind

LEMMA SameHeader ==
    ASSUME NEW u \in Seq(Nat), NEW w \in Seq(Nat), Begins(u, w), LineEnd(u) # 0, HeadEnd(u) # 0
    PROVE  /\ HeadEnd(w) = HeadEnd(u) /\ HeaderOf(w) = HeaderOf(u) /\ LengthOf(w) = LengthOf(u)
           /\ HeadLen(w) = HeadLen(u) /\ Begins(BodyIn(u), BodyIn(w)) /\ BodyIn(w) \in Seq(Nat)
<1>1. LineEnd(w) = LineEnd(u) /\ Begins(Behind(u), Behind(w)) /\ Behind(w) \in Seq(Nat)
  BY SameLine
<1>2. Behind(u) \in Seq(Nat) /\ HeadEnd(u) \in 0 .. Len(Behind(u))
      /\ HeadEnd(u) + 3 <= Len(Behind(u))
  BY RequestParts
<1>3. Len(Behind(u)) \in Nat
  BY <1>2
<1>4. HeadEnd(w) = HeadEnd(u)
  BY <1>1, <1>2, CRLF, FindStable DEF HeadEnd
<1>5. 1 \in Nat \ {0} /\ HeadEnd(u) - 1 \in Int /\ HeadEnd(u) - 1 <= Len(Behind(u))
      /\ HeadEnd(u) + 3 \in 0 .. Len(Behind(u))
  BY <1>2, <1>3
<1>6. SubSeq(Behind(u), 1, HeadEnd(u) - 1) = SubSeq(Behind(w), 1, HeadEnd(u) - 1)
  BY <1>1, <1>2, <1>5, SameCut
<1>7. /\ Begins(After(Behind(u), HeadEnd(u) + 3), After(Behind(w), HeadEnd(u) + 3))
      /\ After(Behind(w), HeadEnd(u) + 3) \in Seq(Nat)
  BY <1>1, <1>2, <1>5, BeginsBehind
<1>8. HeaderOf(w) = HeaderOf(u)
  BY <1>4, <1>6 DEF HeaderOf
<1> QED BY <1>1, <1>4, <1>7, <1>8 DEF LengthOf, HeadLen, BodyIn

\* A request is found in what begins with it.
LEMMA WholeFound ==
    ASSUME NEW u \in Seq(Nat), NEW w \in Seq(Nat), Whole(u), Begins(u, w)
    PROVE  parseHttp(w) = parseHttp(u)
<1>1. /\ LineEnd(u) # 0 /\ LineEnd(u) # Len(u) - 1 /\ LineOf(u).ok /\ HeadEnd(u) # 0
      /\ LengthOf(u) <= Len(BodyIn(u))
  BY WholeIs
<1>2. /\ LineEnd(w) = LineEnd(u) /\ LineOf(w) = LineOf(u)
      /\ HeadEnd(w) = HeadEnd(u) /\ HeaderOf(w) = HeaderOf(u) /\ LengthOf(w) = LengthOf(u)
      /\ HeadLen(w) = HeadLen(u) /\ Begins(BodyIn(u), BodyIn(w)) /\ BodyIn(w) \in Seq(Nat)
  BY <1>1, SameLine, SameHeader
<1>3. /\ BodyIn(u) \in Seq(Nat) /\ LengthOf(u) \in Nat /\ LineEnd(u) \in 0 .. Len(u)
      /\ LineEnd(u) + 1 <= Len(u)
  BY <1>1, RequestParts
<1>4. Len(u) \in Nat /\ Len(w) \in Nat /\ Len(u) <= Len(w)
      /\ Len(BodyIn(u)) \in Nat /\ Len(BodyIn(w)) \in Nat /\ Len(BodyIn(u)) <= Len(BodyIn(w))
  BY <1>2, <1>3 DEF Begins
<1>5. LineEnd(w) # Len(w) - 1
  BY <1>1, <1>2, <1>3, <1>4
<1>6. parseHttp(w) = Completed(LineOf(u), HeaderOf(u), BodyIn(w), LengthOf(u), HeadLen(u))
  BY <1>1, <1>2, <1>5, ParsedBy, Zenon
<1>7. parseHttp(u) = Completed(LineOf(u), HeaderOf(u), BodyIn(u), LengthOf(u), HeadLen(u))
  BY <1>1, ParsedBy, Zenon
<1>8. SubSeq(BodyIn(u), 1, LengthOf(u)) = SubSeq(BodyIn(w), 1, LengthOf(u))
  <2>1. 1 \in Nat \ {0} /\ LengthOf(u) \in Int
    BY <1>3
  <2> QED BY <1>1, <1>2, <1>3, <2>1, SameCut
<1>9. ~(Len(BodyIn(u)) < LengthOf(u)) /\ ~(Len(BodyIn(w)) < LengthOf(u))
  BY <1>1, <1>3, <1>4
<1>10. Completed(LineOf(u), HeaderOf(u), BodyIn(w), LengthOf(u), HeadLen(u)) =
       Completed(LineOf(u), HeaderOf(u), BodyIn(u), LengthOf(u), HeadLen(u))
  BY <1>8, <1>9, Zenon DEF Completed
<1> QED BY <1>6, <1>7, <1>10

\* Nothing is taken for a request in a part of one, unless it ends right behind
\* the request line.
LEMMA PartNotFound ==
    ASSUME NEW u \in Seq(Nat), NEW w \in Seq(Nat), Whole(w), Begins(u, w), Len(u) < Len(w),
           LineEnd(w) # Len(u) - 1
    PROVE  parseHttp(u) = NoRequest(FALSE)
<1>1. CASE LineEnd(u) = 0
  BY <1>1, ParsedBy, Zenon
<1>2. CASE LineEnd(u) # 0 /\ HeadEnd(u) = 0
  <2>1. LineEnd(w) = LineEnd(u)
    BY <1>2, SameLine
  <2> QED BY <1>2, <2>1, ParsedBy, Zenon
<1>3. CASE LineEnd(u) # 0 /\ HeadEnd(u) # 0
  <2>1. /\ LineEnd(w) = LineEnd(u) /\ LineOf(w) = LineOf(u)
        /\ HeadEnd(w) = HeadEnd(u) /\ HeaderOf(w) = HeaderOf(u) /\ LengthOf(w) = LengthOf(u)
        /\ HeadLen(w) = HeadLen(u)
    BY <1>3, SameLine, SameHeader
  <2>2. /\ LineOf(w).ok
        /\ IF LineOf(w).method = <<POST>> THEN Len(w) = HeadLen(w) + LengthOf(w)
           ELSE Len(w) = HeadLen(w)
    BY WholeIs
  <2>3. /\ BodyIn(u) \in Seq(Nat) /\ Len(BodyIn(u)) = Len(u) - HeadLen(u)
        /\ HeadLen(u) \in 1 .. Len(u) /\ LengthOf(u) \in Nat
    BY <1>3, RequestParts
  <2>4. Len(u) \in Nat /\ Len(w) \in Nat
    OBVIOUS
  <2>5. Len(BodyIn(u)) < LengthOf(u)
    BY <2>1, <2>2, <2>3, <2>4
  <2>6. parseHttp(u) = Completed(LineOf(u), HeaderOf(u), BodyIn(u), LengthOf(u), HeadLen(u))
    BY <1>3, <2>1, <2>2, ParsedBy, Zenon
  <2>7. Completed(LineOf(u), HeaderOf(u), BodyIn(u), LengthOf(u), HeadLen(u)) = NoRequest(FALSE)
    BY <2>5, Zenon DEF Completed
  <2> QED BY <2>6, <2>7
<1> QED BY <1>1, <1>2, <1>3

-----------------------------------------------------------------------------
(***************************************************************************)
(* The RPC protocol: a packet that is there, and a part of one.            *)
(***************************************************************************)
\* The number in the cells i and i + 1.
NumberAt(s, i) == s[i] * Radix + s[i + 1]

\* Behind its first l elements s holds t.
TextAt(s, l, t) == \A i \in 1 .. Len(t) : s[l + i] = t[i]

LEMMA DigitsMake ==
    ASSUME NEW n \in Nat
    PROVE  (n \div Radix) * Radix + (n % Radix) = n
<1>1. \A r \in Nat : r > 2 => r * (n \div r) + (n % r) = n
  <2> TAKE r \in Nat
  <2> HAVE r > 2
  <2> QED BY SMTT(30)
<1>2. Radix * (n \div Radix) + (n % Radix) = n
  BY <1>1, RadixAssumption
<1>3. n \div Radix \in Nat
  <2>1. \A r \in Nat : r > 2 => n \div r \in Nat
    OBVIOUS
  <2> QED BY <2>1, RadixAssumption
<1>4. \A x \in Nat : \A r \in Nat : x * r = r * x
  OBVIOUS
<1> DEFINE d == n \div Radix  r == n % Radix
<1> HIDE DEF d, r
<1>5. d * Radix = Radix * d
  BY <1>3, <1>4, RadixAssumption DEF d
<1>6. Radix * d + r = n
  BY <1>2 DEF d, r
<1>7. d * Radix + r = n
  BY <1>5, <1>6
<1> QED BY <1>7 DEF d, r

LEMMA Lookup ==
    ASSUME NEW c, NEW s, NEW t, NEW l \in Nat, NEW k \in Nat,
           \A i \in 1 .. l + k : c[i] = IF i <= l THEN s[i] ELSE t[i - l],
           NEW j \in 1 .. k
    PROVE  c[l + j] = t[j]
<1>1. l + j \in 1 .. l + k /\ ~(l + j <= l) /\ (l + j) - l = j
  OBVIOUS
<1>2. c[l + j] = IF l + j <= l THEN s[l + j] ELSE t[(l + j) - l]
  BY <1>1
<1> QED BY <1>1, <1>2

LEMMA TextBehind ==
    ASSUME NEW s \in Seq(Nat), NEW t \in Seq(Nat)
    PROVE  /\ s \o t \in Seq(Nat) /\ Len(s \o t) = Len(s) + Len(t)
           /\ Begins(s, s \o t)
           /\ TextAt(s \o t, Len(s), t)
<1>1. Len(s) \in Nat /\ Len(t) \in Nat
  OBVIOUS
<1>2. /\ s \o t \in Seq(Nat) /\ Len(s \o t) = Len(s) + Len(t)
      /\ \A i \in 1 .. Len(s) + Len(t) : (s \o t)[i] = IF i <= Len(s) THEN s[i] ELSE t[i - Len(s)]
  BY ConcatProperties
<1>3. TextAt(s \o t, Len(s), t)
  BY <1>1, <1>2, Lookup DEF TextAt
<1>4. Begins(s, s \o t)
  BY BeginsCat
<1> QED BY <1>2, <1>3, <1>4

LEMMA NumberBehind ==
    ASSUME NEW s \in Seq(Nat), NEW n \in Nat
    PROVE  /\ s \o Int32(n) \in Seq(Nat) /\ Len(s \o Int32(n)) = Len(s) + 2
           /\ Begins(s, s \o Int32(n))
           /\ NumberAt(s \o Int32(n), Len(s) + 1) = n
<1> DEFINE t == Int32(n)
<1>1. t \in Seq(Nat) /\ Len(t) = 2
  BY DigitsOf
<1>2. t[1] = n \div Radix /\ t[2] = n % Radix
  BY DEF Int32
<1> HIDE DEF t
<1>3. /\ s \o t \in Seq(Nat) /\ Len(s \o t) = Len(s) + 2 /\ Begins(s, s \o t)
      /\ (s \o t)[Len(s) + 1] = t[1] /\ (s \o t)[Len(s) + 2] = t[2]
  <2>1. /\ s \o t \in Seq(Nat) /\ Len(s \o t) = Len(s) + Len(t) /\ Begins(s, s \o t)
        /\ TextAt(s \o t, Len(s), t)
    BY <1>1, TextBehind, Zenon
  <2>2. 1 \in 1 .. Len(t) /\ 2 \in 1 .. Len(t)
    BY <1>1
  <2>3. (s \o t)[Len(s) + 1] = t[1] /\ (s \o t)[Len(s) + 2] = t[2]
    BY <2>1, <2>2, Zenon DEF TextAt
  <2> QED BY <1>1, <2>1, <2>3, Zenon
<1> DEFINE c == s \o t  l == Len(s)
<1>4. l + 1 + 1 = l + 2
  OBVIOUS
<1>5. c[l + 1] = n \div Radix /\ c[l + 2] = n % Radix
  BY <1>2, <1>3
<1> HIDE DEF c, l
<1>6. NumberAt(c, l + 1) = c[l + 1] * Radix + c[l + 1 + 1]
  BY Zenon DEF NumberAt
<1>7. NumberAt(c, l + 1) = (n \div Radix) * Radix + (n % Radix)
  BY <1>4, <1>5, <1>6
<1>8. NumberAt(c, l + 1) = n
  BY <1>7, DigitsMake
<1> QED BY <1>3, <1>8 DEF t, c, l

LEMMA SameNumber ==
    ASSUME NEW u \in Seq(Nat), NEW w \in Seq(Nat), Begins(u, w), NEW i \in 1 .. Len(u) - 1
    PROVE  NumberAt(w, i) = NumberAt(u, i)
<1>1. i \in 1 .. Len(u) /\ i + 1 \in 1 .. Len(u)
  OBVIOUS
<1> QED BY <1>1 DEF NumberAt, Begins

LEMMA SameText ==
    ASSUME NEW u \in Seq(Nat), NEW w \in Seq(Nat), Begins(u, w),
           NEW l \in Nat, NEW t \in Seq(Nat), Len(u) = l + Len(t), TextAt(u, l, t)
    PROVE  TextAt(w, l, t)
<1>1. SUFFICES ASSUME NEW i \in 1 .. Len(t) PROVE w[l + i] = t[i]
  BY DEF TextAt
<1>2. l + i \in 1 .. Len(u)
  OBVIOUS
<1>3. u[l + i] = t[i]
  BY DEF TextAt
<1> QED BY <1>2, <1>3 DEF Begins

\* Of the message m the texts have these lengths.
Lengths(m, a1, a2, a3, a4) ==
  /\ Len(m.msg_req) = a1 /\ Len(m.service_full_name) = a2
  /\ Len(m.err_info) = a3 /\ Len(m.pb_data) = a4

\* Where the fields of a packet lie in it.
Laid(e, m, a1, a2, a3, a4) ==
           /\ e \in Seq(Nat) /\ Len(e) = 14 + a1 + a2 + a3 + a4
           /\ e[1] = PB_START /\ e[14 + a1 + a2 + a3 + a4] = PB_END
           /\ NumberAt(e, 2) = 14 + a1 + a2 + a3 + a4
           /\ NumberAt(e, 4) = a1 /\ TextAt(e, 5, m.msg_req)
           /\ NumberAt(e, 6 + a1) = a2
           /\ TextAt(e, 7 + a1, m.service_full_name)
           /\ NumberAt(e, 8 + a1 + a2) = m.err_code
           /\ NumberAt(e, 10 + a1 + a2) = a3
           /\ TextAt(e, 11 + a1 + a2, m.err_info)
           /\ TextAt(e, 11 + a1 + a2 + a3, m.pb_data)
LEMMA PacketIs ==
    ASSUME NEW m \in PbMessages, NEW a1 \in Nat, NEW a2 \in Nat, NEW a3 \in Nat, NEW a4 \in Nat,
           Lengths(m, a1, a2, a3, a4)
    PROVE  Laid(encodePbData(m), m, a1, a2, a3, a4)
<1>1. /\ m.msg_req \in Seq(Nat) /\ m.service_full_name \in Seq(Nat) /\ m.err_code \in Nat
      /\ m.err_info \in Seq(Nat) /\ m.pb_data \in Seq(Nat)
  BY DEF PbMessages, Strings
<1>2. a1 \in Nat /\ a2 \in Nat /\ a3 \in Nat /\ a4 \in Nat
  OBVIOUS
<1> DEFINE size == 14 + a1 + a2 + a3 + a4
<1>3. PackLen(m) = size
  <2>1. PackLen(m) = 2 + 6 * 2 + a4 + a2 + a1 + a3
    BY DEF PackLen, IntLen, Lengths
  <2> QED BY <2>1
<1>4. size \in Nat
  BY <1>2
<1> HIDE DEF size
<1> DEFINE s0 == <<PB_START>>
           s1 == s0 \o Int32(size)
           s2 == s1 \o Int32(a1)
           s3 == s2 \o m.msg_req
           s4 == s3 \o Int32(a2)
           s5 == s4 \o m.service_full_name
           s6 == s5 \o Int32(m.err_code)
           s7 == s6 \o Int32(a3)
           s8 == s7 \o m.err_info
           s9 == s8 \o m.pb_data
           s10 == s9 \o Int32(1)
           s11 == s10 \o <<PB_END>>
<1>5. encodePbData(m) = s11
  <2>1. Len(m.msg_req) = a1 /\ Len(m.service_full_name) = a2 /\ Len(m.err_info) = a3
    BY DEF Lengths
  <2> QED BY <1>3, <2>1, Zenon DEF encodePbData
<1>10. s0 \in Seq(Nat) /\ Len(s0) = 1 /\ s0[1] = PB_START
  BY DEF PB_START
<1> HIDE DEF s0
<1>11. s1 \in Seq(Nat) /\ Len(s1) = 3 /\ Begins(s0, s1) /\ NumberAt(s1, 2) = size
  <2>1. /\ s1 \in Seq(Nat) /\ Len(s1) = Len(s0) + 2 /\ Begins(s0, s1)
        /\ NumberAt(s1, Len(s0) + 1) = size
    BY <1>4, <1>10, NumberBehind
  <2> HIDE DEF s1
  <2>2. Len(s0) + 2 = 3 /\ Len(s0) + 1 = 2
    BY <1>10
  <2> QED BY <2>1, <2>2
<1> HIDE DEF s1
<1>12. s2 \in Seq(Nat) /\ Len(s2) = 5 /\ Begins(s1, s2) /\ NumberAt(s2, 4) = a1
  <2>1. /\ s2 \in Seq(Nat) /\ Len(s2) = Len(s1) + 2 /\ Begins(s1, s2)
        /\ NumberAt(s2, Len(s1) + 1) = a1
    BY <1>2, <1>11, NumberBehind
  <2> HIDE DEF s2
  <2>2. Len(s1) + 2 = 5 /\ Len(s1) + 1 = 4
    BY <1>11
  <2> QED BY <2>1, <2>2
<1> HIDE DEF s2
<1>13. /\ s3 \in Seq(Nat) /\ Len(s3) = 5 + a1 /\ Begins(s2, s3)
       /\ TextAt(s3, 5, m.msg_req)
  <2>1. /\ s3 \in Seq(Nat) /\ Len(s3) = Len(s2) + Len(m.msg_req) /\ Begins(s2, s3)
        /\ TextAt(s3, Len(s2), m.msg_req)
    BY <1>1, <1>12, TextBehind
  <2> HIDE DEF s3
  <2>2. Len(m.msg_req) = a1 /\ Len(s2) = 5
    BY <1>12 DEF Lengths
  <2> QED BY <2>1, <2>2
<1> HIDE DEF s3
<1>14. s4 \in Seq(Nat) /\ Len(s4) = 7 + a1 /\ Begins(s3, s4) /\ NumberAt(s4, 6 + a1) = a2
  <2>1. /\ s4 \in Seq(Nat) /\ Len(s4) = Len(s3) + 2 /\ Begins(s3, s4)
        /\ NumberAt(s4, Len(s3) + 1) = a2
    BY <1>2, <1>13, NumberBehind
  <2> HIDE DEF s4
  <2>2. Len(s3) + 2 = 7 + a1 /\ Len(s3) + 1 = 6 + a1
    BY <1>2, <1>13
  <2> QED BY <2>1, <2>2
<1> HIDE DEF s4
<1>15. /\ s5 \in Seq(Nat) /\ Len(s5) = 7 + a1 + a2 /\ Begins(s4, s5)
       /\ TextAt(s5, 7 + a1, m.service_full_name)
  <2>1. /\ s5 \in Seq(Nat) /\ Len(s5) = Len(s4) + Len(m.service_full_name) /\ Begins(s4, s5)
        /\ TextAt(s5, Len(s4), m.service_full_name)
    BY <1>1, <1>14, TextBehind
  <2> HIDE DEF s5
  <2>2. Len(m.service_full_name) = a2 /\ Len(s4) = 7 + a1
    BY <1>14 DEF Lengths
  <2> QED BY <2>1, <2>2
<1> HIDE DEF s5
<1>16. /\ s6 \in Seq(Nat) /\ Len(s6) = 9 + a1 + a2 /\ Begins(s5, s6)
       /\ NumberAt(s6, 8 + a1 + a2) = m.err_code
  <2>1. /\ s6 \in Seq(Nat) /\ Len(s6) = Len(s5) + 2 /\ Begins(s5, s6)
        /\ NumberAt(s6, Len(s5) + 1) = m.err_code
    BY <1>1, <1>15, NumberBehind
  <2> HIDE DEF s6
  <2>2. Len(s5) + 2 = 9 + a1 + a2 /\ Len(s5) + 1 = 8 + a1 + a2
    BY <1>2, <1>15
  <2> QED BY <2>1, <2>2
<1> HIDE DEF s6
<1>17. /\ s7 \in Seq(Nat) /\ Len(s7) = 11 + a1 + a2 /\ Begins(s6, s7)
       /\ NumberAt(s7, 10 + a1 + a2) = a3
  <2>1. /\ s7 \in Seq(Nat) /\ Len(s7) = Len(s6) + 2 /\ Begins(s6, s7)
        /\ NumberAt(s7, Len(s6) + 1) = a3
    BY <1>2, <1>16, NumberBehind
  <2> HIDE DEF s7
  <2>2. Len(s6) + 2 = 11 + a1 + a2 /\ Len(s6) + 1 = 10 + a1 + a2
    BY <1>2, <1>16
  <2> QED BY <2>1, <2>2
<1> HIDE DEF s7
<1>18. /\ s8 \in Seq(Nat) /\ Len(s8) = 11 + a1 + a2 + a3 /\ Begins(s7, s8)
       /\ TextAt(s8, 11 + a1 + a2, m.err_info)
  <2>1. /\ s8 \in Seq(Nat) /\ Len(s8) = Len(s7) + Len(m.err_info) /\ Begins(s7, s8)
        /\ TextAt(s8, Len(s7), m.err_info)
    BY <1>1, <1>17, TextBehind
  <2> HIDE DEF s8
  <2>2. Len(m.err_info) = a3 /\ Len(s7) = 11 + a1 + a2
    BY <1>17 DEF Lengths
  <2> QED BY <2>1, <2>2
<1> HIDE DEF s8
<1>19. /\ s9 \in Seq(Nat) /\ Len(s9) = 11 + a1 + a2 + a3 + a4 /\ Begins(s8, s9)
       /\ TextAt(s9, 11 + a1 + a2 + a3, m.pb_data)
  <2>1. /\ s9 \in Seq(Nat) /\ Len(s9) = Len(s8) + Len(m.pb_data) /\ Begins(s8, s9)
        /\ TextAt(s9, Len(s8), m.pb_data)
    BY <1>1, <1>18, TextBehind
  <2> HIDE DEF s9
  <2>2. Len(m.pb_data) = a4 /\ Len(s8) = 11 + a1 + a2 + a3
    BY <1>18 DEF Lengths
  <2> QED BY <2>1, <2>2
<1> HIDE DEF s9
<1>20. s10 \in Seq(Nat) /\ Len(s10) = 13 + a1 + a2 + a3 + a4 /\ Begins(s9, s10)
  <2>1. s10 \in Seq(Nat) /\ Len(s10) = Len(s9) + 2 /\ Begins(s9, s10)
    BY <1>19, NumberBehind
  <2> HIDE DEF s10
  <2> QED BY <1>2, <1>19, <2>1
<1> HIDE DEF s10
<1>21. s11 \in Seq(Nat) /\ Len(s11) = size /\ Begins(s10, s11) /\ s11[size] = PB_END
  <2> DEFINE t == <<PB_END>>
  <2>1. t \in Seq(Nat) /\ Len(t) = 1 /\ t[1] = PB_END /\ 1 \in 1 .. Len(t)
    BY DEF PB_END
  <2> HIDE DEF t
  <2>2. /\ s10 \o t \in Seq(Nat) /\ Len(s10 \o t) = Len(s10) + Len(t) /\ Begins(s10, s10 \o t)
        /\ (s10 \o t)[Len(s10) + 1] = t[1]
    BY <1>20, <2>1, TextBehind DEF TextAt
  <2>3. Len(s10) + Len(t) = size /\ Len(s10) + 1 = size
    BY <1>2, <1>20, <2>1 DEF size
  <2> QED BY <2>1, <2>2, <2>3 DEF t
<1> HIDE DEF s11
<1> DEFINE e == s11
<1> HIDE DEF e
<1>30. Begins(s9, s11)
  BY <1>19, <1>20, <1>21, BeginsThrough
<1>31. Begins(s8, s11)
  BY <1>18, <1>19, <1>21, <1>30, BeginsThrough
<1>32. Begins(s7, s11)
  BY <1>17, <1>18, <1>21, <1>31, BeginsThrough
<1>33. Begins(s6, s11)
  BY <1>16, <1>17, <1>21, <1>32, BeginsThrough
<1>34. Begins(s5, s11)
  BY <1>15, <1>16, <1>21, <1>33, BeginsThrough
<1>35. Begins(s4, s11)
  BY <1>14, <1>15, <1>21, <1>34, BeginsThrough
<1>36. Begins(s3, s11)
  BY <1>13, <1>14, <1>21, <1>35, BeginsThrough
<1>37. Begins(s2, s11)
  BY <1>12, <1>13, <1>21, <1>36, BeginsThrough
<1>38. Begins(s1, s11)
  BY <1>11, <1>12, <1>21, <1>37, BeginsThrough
<1>39. Begins(s0, s11)
  BY <1>10, <1>11, <1>21, <1>38, BeginsThrough
<1>40. e[1] = PB_START
  BY <1>10, <1>39 DEF Begins, e
<1>41. NumberAt(e, 2) = size
  <2>1. 2 \in 1 .. Len(s1) - 1
    BY <1>11
  <2> QED BY <1>11, <1>21, <1>38, <2>1, SameNumber DEF e
<1>42. NumberAt(e, 4) = a1
  <2>1. 4 \in 1 .. Len(s2) - 1
    BY <1>12
  <2> QED BY <1>12, <1>21, <1>37, <2>1, SameNumber DEF e
<1>43. TextAt(e, 5, m.msg_req)
  <2>2. Len(m.msg_req) = a1 /\ 5 \in Nat
    BY DEF Lengths
  <2> DEFINE l == 5
  <2>3. l \in Nat /\ Len(s3) = l + Len(m.msg_req) /\ TextAt(s3, l, m.msg_req)
    BY <1>13, <2>2
  <2> HIDE DEF l
  <2>4. TextAt(s11, l, m.msg_req)
    BY <1>1, <1>13, <1>21, <1>36, <2>3, SameText
  <2> QED BY <2>2, <2>4 DEF e, l
<1>44. NumberAt(e, 6 + a1) = a2
  <2>1. 6 + a1 \in 1 .. Len(s4) - 1
    BY <1>2, <1>14
  <2> QED BY <1>14, <1>21, <1>35, <2>1, SameNumber DEF e
<1>45. TextAt(e, 7 + a1, m.service_full_name)
  <2>1. 7 + a1 \in Nat
    BY <1>2
  <2>2. Len(m.service_full_name) = a2
    BY DEF Lengths
  <2> DEFINE l == 7 + a1
  <2>3. l \in Nat /\ Len(s5) = l + Len(m.service_full_name) /\ TextAt(s5, l, m.service_full_name)
    BY <1>15, <2>1, <2>2
  <2> HIDE DEF l
  <2>4. TextAt(s11, l, m.service_full_name)
    BY <1>1, <1>15, <1>21, <1>34, <2>3, SameText
  <2> QED BY <2>2, <2>4 DEF e, l
<1>46. NumberAt(e, 8 + a1 + a2) = m.err_code
  <2>1. 8 + a1 + a2 \in 1 .. Len(s6) - 1
    BY <1>2, <1>16
  <2> QED BY <1>16, <1>21, <1>33, <2>1, SameNumber DEF e
<1>47. NumberAt(e, 10 + a1 + a2) = a3
  <2>1. 10 + a1 + a2 \in 1 .. Len(s7) - 1
    BY <1>2, <1>17
  <2> QED BY <1>17, <1>21, <1>32, <2>1, SameNumber DEF e
<1>48. TextAt(e, 11 + a1 + a2, m.err_info)
  <2>1. 11 + a1 + a2 \in Nat
    BY <1>2
  <2>2. Len(m.err_info) = a3
    BY DEF Lengths
  <2> DEFINE l == 11 + a1 + a2
  <2>3. l \in Nat /\ Len(s8) = l + Len(m.err_info) /\ TextAt(s8, l, m.err_info)
    BY <1>18, <2>1, <2>2
  <2> HIDE DEF l
  <2>4. TextAt(s11, l, m.err_info)
    BY <1>1, <1>18, <1>21, <1>31, <2>3, SameText
  <2> QED BY <2>2, <2>4 DEF e, l
<1>49. TextAt(e, 11 + a1 + a2 + a3, m.pb_data)
  <2>1. 11 + a1 + a2 + a3 \in Nat
    BY <1>2
  <2>2. Len(m.pb_data) = a4
    BY DEF Lengths
  <2> DEFINE l == 11 + a1 + a2 + a3
  <2>3. l \in Nat /\ Len(s9) = l + Len(m.pb_data) /\ TextAt(s9, l, m.pb_data)
    BY <1>19, <2>1, <2>2
  <2> HIDE DEF l
  <2>4. TextAt(s11, l, m.pb_data)
    BY <1>1, <1>19, <1>21, <1>30, <2>3, SameText
  <2> QED BY <2>2, <2>4 DEF e, l
<1>50. e \in Seq(Nat) /\ Len(e) = size /\ e[size] = PB_END
  BY <1>21 DEF e
<1>51. size = 14 + a1 + a2 + a3 + a4
  BY DEF size
<1> QED BY <1>5, <1>40, <1>41, <1>42, <1>43, <1>44, <1>45, <1>46, <1>47, <1>48, <1>49, <1>50, <1>51, Zenon
        DEF Laid, e
LEMMA CellAt ==
    ASSUME NEW b, Buffer(b), NEW junk, NEW p \in Nat, p + 1 <= readAble(b)
    PROVE  At(b.m_buffer, b.m_read_index + p, junk) = getBufferString(b)[p + 1]
<1> DEFINE v == b.m_buffer  r == b.m_read_index  w == b.m_write_index
<1>1. /\ r \in Nat /\ w \in Nat /\ Len(v) \in Nat /\ w <= Len(v) /\ p + 1 <= w - r
  BY DEF Buffer, Indices, readAble
<1>2. \A i \in 1 .. readAble(b) : getBufferString(b)[i] = v[r + i]
  BY Unread
<1>3. p + 1 \in 1 .. readAble(b)
  BY Unread
<1>4. getBufferString(b)[p + 1] = v[r + (p + 1)]
  BY <1>2, <1>3, Zenon
<1> HIDE DEF v, r, w
<1>5. r + p \in 0 .. Len(v) - 1 /\ r + p + 1 = r + (p + 1)
  BY <1>1
<1>6. At(v, r + p, junk) = v[r + p + 1]
  BY <1>5, Zenon DEF At
<1> QED BY <1>4, <1>5, <1>6 DEF v, r

LEMMA NumberIn ==
    ASSUME NEW b, Buffer(b), NEW junk, NEW p \in Nat, p + 2 <= readAble(b)
    PROVE  IntAt(b.m_buffer, b.m_read_index + p, junk) = NumberAt(getBufferString(b), p + 1)
<1> DEFINE v == b.m_buffer  r == b.m_read_index  u == getBufferString(b)
<1>1. r \in Nat /\ readAble(b) \in Nat
  BY Unread DEF Buffer
<1>2. At(v, r + p, junk) = u[p + 1]
  <2>1. p + 1 <= readAble(b)
    BY <1>1
  <2> QED BY <2>1, CellAt
<1>3. At(v, r + (p + 1), junk) = u[p + 1 + 1]
  <2>1. p + 1 \in Nat /\ p + 1 + 1 <= readAble(b)
    BY <1>1
  <2> QED BY <2>1, CellAt
<1>4. r + p + 1 = r + (p + 1)
  BY <1>1
<1> HIDE DEF v, r, u
<1>5. IntAt(v, r + p, junk) = At(v, r + p, junk) * Radix + At(v, r + p + 1, junk)
  BY Zenon DEF IntAt
<1>6. NumberAt(u, p + 1) = u[p + 1] * Radix + u[p + 1 + 1]
  BY Zenon DEF NumberAt
<1>7. IntAt(v, r + p, junk) = NumberAt(u, p + 1)
  BY <1>2, <1>3, <1>4, <1>5, <1>6, Zenon
<1> QED BY <1>7 DEF v, r, u

LEMMA TextIn ==
    ASSUME NEW b, Buffer(b), NEW junk, NEW l \in Nat, NEW t \in Seq(Nat),
           l + Len(t) <= readAble(b), TextAt(getBufferString(b), l, t)
    PROVE  Text(b.m_buffer, b.m_read_index + l, Len(t), junk) = t
<1> DEFINE v == b.m_buffer  r == b.m_read_index  u == getBufferString(b)  n == Len(t)
<1>1. r \in Nat /\ readAble(b) \in Nat /\ n \in Nat
  BY Unread DEF Buffer
<1>2. ASSUME NEW k \in 1 .. n PROVE At(v, r + l + k - 1, junk) = t[k]
  <2>1. l + k - 1 \in Nat /\ (l + k - 1) + 1 <= readAble(b) /\ (l + k - 1) + 1 = l + k
        /\ r + l + k - 1 = r + (l + k - 1)
    BY <1>1
  <2>2. At(v, r + (l + k - 1), junk) = u[(l + k - 1) + 1]
    BY <2>1, CellAt, Zenon
  <2>3. u[l + k] = t[k]
    BY DEF TextAt
  <2> QED BY <2>1, <2>2, <2>3
<1> HIDE DEF v, r, u
<1>3. Text(v, r + l, n, junk) = [k \in 1 .. n |-> At(v, r + l + k - 1, junk)]
  BY Zenon DEF Text
<1>4. [k \in 1 .. n |-> At(v, r + l + k - 1, junk)] = [k \in 1 .. n |-> t[k]]
  BY <1>2, Zenon
<1>5. t = [k \in 1 .. n |-> t[k]]
  OBVIOUS
<1> QED BY <1>3, <1>4, <1>5 DEF v, r

\* The fields decode() finds are those of the message.
LEMMA PacketFields ==
    ASSUME NEW b, Buffer(b), NEW junk \in Junk, NEW m \in PbMessages,
           NEW a1 \in Nat, NEW a2 \in Nat, NEW a3 \in Nat, NEW a4 \in Nat,
           NEW size \in Nat, size = 14 + a1 + a2 + a3 + a4, Lengths(m, a1, a2, a3, a4),
           NEW e, Laid(e, m, a1, a2, a3, a4), Begins(e, getBufferString(b))
    PROVE  /\ EndIndex(b.m_buffer, b.m_read_index, junk) = b.m_read_index + size - 1
           /\ Fields(b.m_buffer, b.m_read_index, b.m_read_index + size - 1, junk)
              = [succ |-> a1 # 0, data |-> m]
<1> DEFINE v == b.m_buffer  start == b.m_read_index  u == getBufferString(b)
           end == start + size - 1
           N(i) == IntAt(v, i, junk)
           msg_len == start + 1 + IntLen
           service_len == msg_len + IntLen + N(msg_len)
           service == service_len + IntLen
           err_code == service + N(service_len)
           info_len == err_code + IntLen
           data == info_len + IntLen + N(info_len)
           pk_len == N(start + 1)
           left == pk_len - N(service_len) - N(msg_len) - N(info_len) - 2 - 6 * IntLen
<1>1. /\ start \in Nat /\ readAble(b) \in Nat /\ u \in Seq(Nat) /\ Len(u) = readAble(b)
  BY Unread DEF Buffer
<1>2. e \in Seq(Nat) /\ Len(e) = size
  BY DEF Laid
<1>3. size <= readAble(b)
  BY <1>1, <1>2 DEF Begins
<1>4. ASSUME NEW p \in Nat, p + 2 <= size PROVE N(start + p) = NumberAt(e, p + 1)
  <2>1. p + 2 <= readAble(b) /\ p + 1 \in 1 .. Len(e) - 1
    BY <1>1, <1>2, <1>3, <1>4
  <2>2. N(start + p) = NumberAt(u, p + 1)
    BY <2>1, NumberIn
  <2>3. NumberAt(u, p + 1) = NumberAt(e, p + 1)
    BY <1>1, <1>2, <2>1, SameNumber
  <2> QED BY <2>2, <2>3
<1>5. ASSUME NEW l \in Nat, NEW t \in Seq(Nat), l + Len(t) <= size, TextAt(e, l, t)
      PROVE  Text(v, start + l, Len(t), junk) = t
  <2>1. \A i \in 1 .. Len(t) : e[l + i] = t[i]
    BY <1>5 DEF TextAt
  <2>2. \A i \in 1 .. Len(t) : l + i \in 1 .. Len(e)
    BY <1>2, <1>5
  <2>3. \A i \in 1 .. Len(t) : u[l + i] = t[i]
    BY <2>1, <2>2 DEF Begins
  <2>4. l + Len(t) <= readAble(b)
    BY <1>1, <1>3, <1>5
  <2> QED BY <2>3, <2>4, TextIn DEF TextAt
<1> HIDE DEF v, start, N, u
<1>6. N(start + 1) = size
  BY <1>4 DEF Laid
<1>7. N(start + 3) = a1
  <2>1. N(start + 3) = NumberAt(e, 4)
    BY <1>4
  <2> QED BY <2>1 DEF Laid
<1>8. N(start + (5 + a1)) = a2
  <2>1. N(start + (5 + a1)) = NumberAt(e, 5 + a1 + 1) /\ 5 + a1 + 1 = 6 + a1
    BY <1>4
  <2> QED BY <2>1 DEF Laid
<1>9. N(start + (7 + a1 + a2)) = m.err_code
  <2>1. N(start + (7 + a1 + a2)) = NumberAt(e, 7 + a1 + a2 + 1) /\ 7 + a1 + a2 + 1 = 8 + a1 + a2
    BY <1>4
  <2> QED BY <2>1 DEF Laid
<1>10. N(start + (9 + a1 + a2)) = a3
  <2>1. N(start + (9 + a1 + a2)) = NumberAt(e, 9 + a1 + a2 + 1) /\ 9 + a1 + a2 + 1 = 10 + a1 + a2
    BY <1>4
  <2> QED BY <2>1 DEF Laid
<1>11. /\ m.msg_req \in Seq(Nat) /\ m.service_full_name \in Seq(Nat) /\ m.err_code \in Nat
       /\ m.err_info \in Seq(Nat) /\ m.pb_data \in Seq(Nat)
       /\ m = [msg_req |-> m.msg_req, service_full_name |-> m.service_full_name,
               err_code |-> m.err_code, err_info |-> m.err_info, pb_data |-> m.pb_data]
  BY DEF PbMessages, Strings
<1>12. /\ Len(m.msg_req) = a1 /\ Len(m.service_full_name) = a2
       /\ Len(m.err_info) = a3 /\ Len(m.pb_data) = a4
  BY DEF Lengths
<1>13. msg_len = start + 3
  BY <1>1 DEF IntLen
<1> HIDE DEF msg_len
<1>14. N(msg_len) = a1
  BY <1>7, <1>13
<1>15. service_len = start + (5 + a1)
  BY <1>1, <1>13, <1>14 DEF IntLen
<1> HIDE DEF service_len
<1>16. N(service_len) = a2 /\ service = start + (7 + a1)
  BY <1>1, <1>8, <1>15 DEF IntLen
<1> HIDE DEF service
<1>17. err_code = start + (7 + a1 + a2)
  BY <1>1, <1>16
<1> HIDE DEF err_code
<1>18. N(err_code) = m.err_code /\ info_len = start + (9 + a1 + a2)
  BY <1>1, <1>9, <1>17 DEF IntLen
<1> HIDE DEF info_len
<1>19. N(info_len) = a3
  BY <1>10, <1>18
<1>20. data = start + (11 + a1 + a2 + a3) /\ pk_len = size
  BY <1>1, <1>6, <1>18, <1>19 DEF IntLen
<1> HIDE DEF data, pk_len
<1>21. left = a4
  BY <1>14, <1>16, <1>19, <1>20 DEF IntLen
<1> HIDE DEF left
<1>22. Text(v, msg_len + IntLen, N(msg_len), junk) = m.msg_req
  <2>1. msg_len + IntLen = start + 5 /\ 5 + a1 <= size
    BY <1>1, <1>13 DEF IntLen
  <2>2. TextAt(e, 5, m.msg_req)
    BY DEF Laid
  <2>3. Text(v, start + 5, Len(m.msg_req), junk) = m.msg_req
    BY <1>5, <1>11, <1>12, <2>1, <2>2
  <2> QED BY <1>12, <1>14, <2>1, <2>3
<1>23. Text(v, service, N(service_len), junk) = m.service_full_name
  <2> DEFINE l == 7 + a1
  <2>1. l \in Nat /\ service = start + l /\ l + a2 <= size
    BY <1>16
  <2>2. TextAt(e, l, m.service_full_name)
    BY DEF Laid
  <2> HIDE DEF l
  <2>3. Text(v, start + l, Len(m.service_full_name), junk) = m.service_full_name
    BY <1>5, <1>11, <1>12, <2>1, <2>2
  <2> QED BY <1>12, <1>16, <2>1, <2>3
<1>24. Text(v, info_len + IntLen, N(info_len), junk) = m.err_info
  <2> DEFINE l == 11 + a1 + a2
  <2>1. l \in Nat /\ info_len + IntLen = start + l /\ l + a3 <= size
    BY <1>1, <1>18 DEF IntLen
  <2>2. TextAt(e, l, m.err_info)
    BY DEF Laid
  <2> HIDE DEF l
  <2>3. Text(v, start + l, Len(m.err_info), junk) = m.err_info
    BY <1>5, <1>11, <1>12, <2>1, <2>2
  <2> QED BY <1>12, <1>19, <2>1, <2>3
<1>25. Text(v, data, left, junk) = m.pb_data
  <2> DEFINE l == 11 + a1 + a2 + a3
  <2>1. l \in Nat /\ data = start + l /\ l + a4 <= size
    BY <1>20
  <2>2. TextAt(e, l, m.pb_data)
    BY DEF Laid
  <2> HIDE DEF l
  <2>3. Text(v, start + l, Len(m.pb_data), junk) = m.pb_data
    BY <1>5, <1>11, <1>12, <2>1, <2>2
  <2> QED BY <1>12, <1>21, <2>1, <2>3
<1>26. end = start + size - 1 /\ end \in Int
  BY <1>1
<1>27. msg_len < end /\ service < end /\ N(service_len) <= pk_len /\ info_len < end /\ data < end
  BY <1>1, <1>13, <1>16, <1>18, <1>20, <1>26
<1>28. EndIndex(v, start, junk) = end
  BY <1>6 DEF EndIndex, N
<1> HIDE DEF end
<1>29. Fields(v, start, end, junk) =
         [succ |-> /\ msg_len < end /\ N(msg_len) # 0
                   /\ service < end /\ N(service_len) <= pk_len
                   /\ info_len < end
                   /\ data < end,
          data |-> [msg_req |-> Text(v, msg_len + IntLen, N(msg_len), junk),
                    service_full_name |-> Text(v, service, N(service_len), junk),
                    err_code |-> N(err_code),
                    err_info |-> Text(v, info_len + IntLen, N(info_len), junk),
                    pb_data |-> Text(v, data, left, junk)]]
  BY Zenon DEF Fields, N, msg_len, service_len, service, err_code, info_len, data, pk_len, left
<1>30. (/\ msg_len < end /\ N(msg_len) # 0
        /\ service < end /\ N(service_len) <= pk_len
        /\ info_len < end
        /\ data < end) = (a1 # 0)
  BY <1>14, <1>27
<1>31. Fields(v, start, end, junk) = [succ |-> a1 # 0, data |-> m]
  BY <1>11, <1>18, <1>22, <1>23, <1>24, <1>25, <1>29, <1>30, Zenon
<1> QED BY <1>26, <1>28, <1>31 DEF v, start

\* A packet that is there is taken as a whole; without a number it is not a request.
LEMMA PacketTaken ==
    ASSUME NEW b, Buffer(b), NEW junk \in Junk, NEW m \in PbMessages,
           Begins(encodePbData(m), getBufferString(b))
    PROVE  /\ Len(encodePbData(m)) \in 0 .. readAble(b)
           /\ decodePb(b, junk).buf = recycleRead(b, Len(encodePbData(m)))
           /\ decodePb(b, junk).succ = (m.msg_req # <<>>)
           /\ m.msg_req # <<>> => decodePb(b, junk).data = m
<1> DEFINE v == b.m_buffer  r == b.m_read_index  w == b.m_write_index  u == getBufferString(b)
           e == encodePbData(m)
           a1 == Len(m.msg_req)  a2 == Len(m.service_full_name)
           a3 == Len(m.err_info)  a4 == Len(m.pb_data)
           size == 14 + a1 + a2 + a3 + a4
           starts == FrameStarts(b, junk)
           fields == Fields(v, r, r + size - 1, junk)
<1>1. a1 \in Nat /\ a2 \in Nat /\ a3 \in Nat /\ a4 \in Nat /\ (a1 # 0 <=> m.msg_req # <<>>)
  BY DEF PbMessages, Strings
<1>2. Lengths(m, a1, a2, a3, a4)
  BY DEF Lengths
<1> HIDE DEF a1, a2, a3, a4
<1>3. Laid(e, m, a1, a2, a3, a4)
  BY <1>1, <1>2, PacketIs
<1> HIDE DEF e
<1>4. size \in Nat /\ size >= 14 /\ size = 14 + a1 + a2 + a3 + a4
  BY <1>1
<1> HIDE DEF size
<1>5. Begins(e, u)
  BY DEF e
<1>6. /\ EndIndex(v, r, junk) = r + size - 1
      /\ fields = [succ |-> a1 # 0, data |-> m]
  BY <1>1, <1>2, <1>3, <1>4, <1>5, PacketFields
<1> HIDE DEF fields
<1>7. /\ r \in Nat /\ w \in Nat /\ readAble(b) = w - r /\ readAble(b) \in Nat
      /\ u \in Seq(Nat) /\ Len(u) = readAble(b)
  BY Unread DEF Buffer, readAble
<1>8. Len(e) = size /\ e[1] = PB_START /\ e[size] = PB_END
  BY <1>4, <1>3 DEF Laid
<1>9. size <= readAble(b) /\ u[1] = PB_START /\ u[size] = PB_END
  <2>1. Len(e) <= Len(u) /\ \A i \in 1 .. Len(e) : e[i] = u[i]
    BY <1>5 DEF Begins
  <2>2. 1 \in 1 .. Len(e) /\ size \in 1 .. Len(e)
    BY <1>4, <1>8
  <2> QED BY <1>7, <1>8, <2>1, <2>2
<1>10. v[r + 1] = PB_START /\ At(v, r + size - 1, junk) = PB_END
  <2>1. \A i \in 1 .. readAble(b) : u[i] = v[r + i]
    BY Unread
  <2>2. 1 \in 1 .. readAble(b)
    BY <1>4, <1>7, <1>9
  <2>3. v[r + 1] = PB_START
    BY <1>9, <2>1, <2>2
  <2>4. size - 1 \in Nat /\ (size - 1) + 1 <= readAble(b) /\ (size - 1) + 1 = size
        /\ r + (size - 1) = r + size - 1
    BY <1>4, <1>7, <1>9
  <2>5. At(v, r + (size - 1), junk) = u[(size - 1) + 1]
    BY <2>4, CellAt
  <2> HIDE DEF v, r, u
  <2> QED BY <1>9, <2>3, <2>4, <2>5
<1>11. r \in starts /\ \A i \in starts : r <= i
  <2>1. r \in r .. w - 2 /\ r + size - 1 < w
    BY <1>4, <1>7, <1>9
  <2>2. r \in starts
    BY <1>6, <1>10, <2>1 DEF FrameStarts
  <2>3. starts \subseteq r .. w - 2
    BY DEF FrameStarts
  <2> HIDE DEF starts, r, w
  <2> QED BY <1>7, <2>2, <2>3
<1>12. starts \in SUBSET Nat
  BY <1>7 DEF FrameStarts
<1> HIDE DEF starts
<1>13. Min(starts) = r
  <2>1. Min(starts) \in starts /\ \A j \in starts : Min(starts) <= j
    BY <1>11, <1>12, MinIsLeast
  <2>2. Min(starts) \in Nat
    BY <1>12, <2>1
  <2> DEFINE k == Min(starts)
  <2> HIDE DEF k, r
  <2>3. k <= r /\ r <= k /\ k \in Nat
    BY <1>11, <2>1, <2>2 DEF k
  <2>4. k = r
    BY <1>7, <2>3
  <2> QED BY <2>4 DEF k
<1>14. (r + size - 1) + 1 - r = size
  BY <1>4, <1>7
<1> DEFINE left == recycleRead(b, size)  d == decodePb(b, junk)
<1>15. starts # {}
  BY <1>11
<1>16. d = IF fields.succ THEN [buf |-> left, succ |-> TRUE, data |-> fields.data]
           ELSE [buf |-> left, succ |-> FALSE]
  BY <1>6, <1>13, <1>14, <1>15, Zenon DEF decodePb, starts, fields
<1> HIDE DEF left, d
<1>17. d.buf = left /\ d.succ = (a1 # 0) /\ (a1 # 0 => d.data = m)
  BY <1>6, <1>16
<1>18. Len(encodePbData(m)) = size
  BY <1>8 DEF e
<1>19. size \in 0 .. readAble(b)
  BY <1>4, <1>7, <1>9
<1> HIDE DEF a1, size
<1> QED BY <1>1, <1>17, <1>18, <1>19 DEF left, d

\* In a part of a packet decode() finds at most packets of length 0, from a
\* start byte whose length is still 0 or still to come.
LEMMA NoFrame ==
    ASSUME NEW b, Buffer(b), NEW junk \in Junk, NEW m \in PbMessages,
           NoPacketIn(encodePbData(m)),
           Begins(getBufferString(b), encodePbData(m)),
           readAble(b) < Len(encodePbData(m)),
           NEW i \in FrameStarts(b, junk)
    PROVE  i \in Nat /\ IntAt(b.m_buffer, i + 1, junk) = 0
<1> DEFINE v == b.m_buffer  r == b.m_read_index  w == b.m_write_index  u == getBufferString(b)
           e == encodePbData(m)
           l == w - r
           q == i - r + 1
           n == IntAt(v, i + 1, junk)
           j == i + n - 1
<1>1. /\ r \in Nat /\ w \in Nat /\ readAble(b) = l /\ l \in Nat
      /\ u \in Seq(Nat) /\ Len(u) = l
  BY Unread DEF Buffer, readAble
<1>2. i \in r .. w - 2 /\ v[i + 1] = PB_START /\ j < w /\ At(v, j, junk) = PB_END
  BY DEF FrameStarts, EndIndex
<1>3. e \in Seq(Nat) /\ l < Len(e) /\ Len(e) \in Nat
  <2>1. e \in Seq(Nat)
    BY EncodedPb
  <2> QED BY <1>1, <2>1
<1>4. \A k \in 1 .. l : u[k] = e[k]
  BY <1>1 DEF Begins
<1>5. v \in Seq(Nat) /\ junk \in Nat
  BY JunkIsNat DEF Buffer
<1>6. n \in Nat
  BY <1>1, <1>2, <1>5, CellsAre
<1>7. \A p \in Nat : p + 1 <= l => At(v, r + p, junk) = u[p + 1]
  BY <1>1, CellAt
<1>8. \A p \in Nat : p + 2 <= l => IntAt(v, r + p, junk) = NumberAt(u, p + 1)
  BY <1>1, NumberIn
<1>9. n = At(v, i + 1, junk) * Radix + At(v, i + 1 + 1, junk)
  BY Zenon DEF IntAt
<1>10. At(v, i + 1, junk) \in Nat /\ At(v, i + 1 + 1, junk) \in Nat
  <2>1. i + 1 \in Int /\ i + 1 + 1 \in Int
    BY <1>1, <1>2
  <2> QED BY <1>5, <2>1, CellsAre
<1>11. i \in Nat /\ r <= i /\ i <= w - 2
  BY <1>1, <1>2
<1>12. \A p \in 1 .. l : u[p] = v[r + p]
  BY <1>1, Unread
<1> HIDE DEF n, v, u, e, r, w
<1>13. q \in 1 .. l - 1 /\ i = r + (q - 1) /\ i + 1 = r + q
  BY <1>1, <1>11
<1>14. u[q] = PB_START
  <2>1. q \in 1 .. l
    BY <1>1, <1>13
  <2> HIDE DEF q, l
  <2> QED BY <1>2, <1>12, <1>13, <2>1
<1>15. SUFFICES ASSUME n # 0 PROVE FALSE
  BY <1>11 DEF n, v
<1>16. q + n - 1 \in q .. l /\ u[q + n - 1] = PB_END
  <2>1. q + n - 1 \in q .. l /\ q + n - 2 \in Nat /\ (q + n - 2) + 1 <= l /\ (q + n - 2) + 1 = q + n - 1
        /\ j = r + (q + n - 2)
    BY <1>1, <1>2, <1>6, <1>11, <1>15
  <2> HIDE DEF j, q, l
  <2>2. At(v, r + (q + n - 2), junk) = u[(q + n - 2) + 1]
    BY <1>7, <2>1
  <2> QED BY <1>2, <2>1, <2>2
<1>17. CASE q <= l - 2
  <2>1. q \in Nat /\ q + 2 <= l /\ q # 0
    BY <1>1, <1>13, <1>17
  <2>2. n = NumberAt(u, q + 1)
    BY <1>8, <1>13, <2>1 DEF n
  <2>3. NumberAt(u, q + 1) = NumberAt(e, q + 1)
    <3>1. q + 1 \in 1 .. Len(u) - 1
      BY <1>1, <2>1
    <3>2. Begins(u, e)
      BY DEF u, e
    <3> HIDE DEF q
    <3> QED BY <1>1, <1>3, <3>1, <3>2, SameNumber
  <2>4. CASE q = 1
    <3> DEFINE a1 == Len(m.msg_req)  a2 == Len(m.service_full_name)
               a3 == Len(m.err_info)  a4 == Len(m.pb_data)
    <3>1. a1 \in Nat /\ a2 \in Nat /\ a3 \in Nat /\ a4 \in Nat
      BY DEF PbMessages, Strings
    <3>2. Lengths(m, a1, a2, a3, a4)
      BY DEF Lengths
    <3> HIDE DEF a1, a2, a3, a4
    <3>3. Laid(e, m, a1, a2, a3, a4)
      BY <3>1, <3>2, PacketIs DEF e
    <3>4. NumberAt(e, 2) = Len(e)
      BY <3>3 DEF Laid
    <3>5. n = Len(e)
      BY <2>2, <2>3, <2>4, <3>4
    <3> QED BY <1>1, <1>3, <1>6, <1>16, <2>4, <3>5
  <2>5. CASE q # 1
    <3> DEFINE k == q + n - 1
    <3>1. q \in 2 .. Len(e) - 2 /\ k \in q .. Len(e) - 1 /\ k \in 1 .. l /\ q \in 1 .. l
      <4>1. /\ l \in Nat /\ l < Len(e) /\ Len(e) \in Nat /\ k \in q .. l
            /\ q \in Nat /\ q + 2 <= l /\ q # 0 /\ q # 1
        BY <1>1, <1>3, <1>16, <2>1, <2>5
      <4> HIDE DEF q, l, k
      <4> QED BY <4>1
    <3>2. n = e[q + 1] * Radix + e[q + 2]
      <4>1. q + 1 + 1 = q + 2
        BY <2>1
      <4> HIDE DEF q
      <4> QED BY <2>2, <2>3, <4>1 DEF NumberAt
    <3>3. e[q] = PB_START
      BY <1>4, <1>14, <3>1
    <3>4. e[k] = PB_END
      BY <1>4, <1>16, <3>1
    <3>5. NoPacketIn(e)
      BY DEF e
    <3> DEFINE x == e[q + 1] * Radix
    <3>6. q + x + e[q + 2] - 1 = k
      <4>1. e[q + 2] \in Nat /\ x \in Nat
        <5>1. q + 1 \in 1 .. Len(e) /\ q + 2 \in 1 .. Len(e)
          BY <1>3, <3>1
        <5>2. e[q + 1] \in Nat /\ e[q + 2] \in Nat
          BY <1>3, <5>1
        <5>3. \A y, z \in Nat : y * z \in Nat
          OBVIOUS
        <5> QED BY <5>2, <5>3, RadixAssumption
      <4> HIDE DEF x
      <4>2. n = x + e[q + 2]
        BY <3>2 DEF x
      <4> QED BY <2>1, <4>1, <4>2
    <3> HIDE DEF k, q
    <3> QED BY <3>1, <3>3, <3>4, <3>5, <3>6 DEF NoPacketIn
  <2> QED BY <2>4, <2>5
<1>18. CASE q > l - 2
  <2>1. q = l - 1 /\ q \in Nat /\ q + 1 <= l /\ q + 1 \in 1 .. l /\ n \in 1 .. 2
    <3>1. l \in Nat /\ q \in 1 .. l - 1 /\ n \in Nat /\ n # 0 /\ q + n - 1 \in q .. l /\ q > l - 2
      BY <1>1, <1>6, <1>13, <1>15, <1>16, <1>18
    <3> HIDE DEF q, l
    <3> QED BY <3>1
  <2>2. At(v, i + 1, junk) = 0
    <3> DEFINE x == At(v, i + 1, junk)  y == At(v, i + 1 + 1, junk)
    <3>1. \A a, c, d \in Nat : a > 2 /\ c * a + d <= 2 => c = 0
      <4> TAKE a, c, d \in Nat
      <4> HAVE a > 2 /\ c * a + d <= 2
      <4>1. SUFFICES ASSUME c >= 1 PROVE FALSE
        OBVIOUS
      <4>2. PICK f \in Nat : c = f + 1
        BY <4>1
      <4>3. c * a = f * a + a /\ f * a \in Nat
        BY <4>2
      <4> QED BY <4>3
    <3>2. x \in Nat /\ y \in Nat /\ n = x * Radix + y /\ n <= 2
      BY <1>9, <1>10, <2>1
    <3> HIDE DEF x, y
    <3> QED BY <3>1, <3>2, RadixAssumption DEF x
  <2>3. At(v, r + q, junk) = u[q + 1]
    BY <1>7, <2>1
  <2>4. u[q + 1] = 0
    BY <1>13, <2>2, <2>3
  <2>5. CASE n = 1
    <3>1. q + n - 1 = q
      BY <2>1, <2>5
    <3> QED BY <1>14, <1>16, <3>1 DEF PB_START, PB_END
  <2>6. CASE n = 2
    <3>1. q + n - 1 = q + 1
      BY <2>1, <2>6
    <3> QED BY <1>16, <2>4, <3>1 DEF PB_END
  <2> QED BY <2>1, <2>5, <2>6
<1> QED BY <1>1, <1>13, <1>17, <1>18

\* Nothing is taken of a part of a packet.
LEMMA PacketPart ==
    ASSUME NEW b, Buffer(b), NEW junk \in Junk, NEW m \in PbMessages,
           NoPacketIn(encodePbData(m)),
           Begins(getBufferString(b), encodePbData(m)),
           readAble(b) < Len(encodePbData(m))
    PROVE  /\ ~decodePb(b, junk).succ
           /\ getBufferString(decodePb(b, junk).buf) = getBufferString(b)
<1> DEFINE v == b.m_buffer
           starts == FrameStarts(b, junk)
           start == Min(starts)
           end == EndIndex(v, start, junk)
           fields == Fields(v, start, end, junk)
           left == recycleRead(b, end + 1 - start)
           d == decodePb(b, junk)
<1>1. CASE starts = {}
  <2>1. d = [buf |-> b, succ |-> FALSE]
    BY <1>1 DEF decodePb
  <2> QED BY <2>1
<1>2. CASE starts # {}
  <2>1. \A i \in starts : i \in Nat /\ IntAt(v, i + 1, junk) = 0
    BY NoFrame
  <2>2. start \in starts
    <3>1. starts \in SUBSET Nat
      BY <2>1
    <3> HIDE DEF starts
    <3> QED BY <1>2, <3>1, MinIsLeast
  <2>3. start \in Nat /\ IntAt(v, start + 1, junk) = 0
    BY <2>1, <2>2
  <2> HIDE DEF start
  <2>4. end = start - 1
    BY <2>3 DEF EndIndex
  <2> HIDE DEF end
  <2>5. end + 1 - start = 0
    BY <2>3, <2>4
  <2>6. ~fields.succ
    <3>1. ~(start + 1 + IntLen < end)
      BY <2>3, <2>4 DEF IntLen
    <3> QED BY <3>1 DEF Fields
  <2>7. getBufferString(recycleRead(b, 0)) = getBufferString(b)
    <3>1. /\ getBufferString(b) \in Seq(Nat) /\ Len(getBufferString(b)) = readAble(b)
          /\ readAble(b) \in Nat
      BY Unread
    <3>2. 0 \in 0 .. readAble(b)
      BY <3>1
    <3>3. getBufferString(recycleRead(b, 0)) = SubSeq(getBufferString(b), 0 + 1, readAble(b))
      BY <3>2, ReadRecycled
    <3> QED BY <3>1, <3>3, SubSeqFull
  <2> HIDE DEF fields
  <2>8. d = IF fields.succ THEN [buf |-> left, succ |-> TRUE, data |-> fields.data]
            ELSE [buf |-> left, succ |-> FALSE]
    BY <1>2 DEF decodePb, start, end, fields
  <2> HIDE DEF left, d
  <2>9. d.buf = left /\ d.succ = FALSE
    BY <2>6, <2>8
  <2>10. left = recycleRead(b, 0)
    BY <2>5 DEF left
  <2> QED BY <2>7, <2>9, <2>10 DEF d
<1> QED BY <1>1, <1>2

-----------------------------------------------------------------------------
(***************************************************************************)
(* The messages of a script, in the text and in the buffer.                *)
(***************************************************************************)
LEMMA CutIs ==
    ASSUME NEW s \in Seq(Nat), NEW a \in 0 .. Len(s), NEW z \in a .. Len(s)
    PROVE  /\ SubSeq(s, a + 1, z) \in Seq(Nat) /\ Len(SubSeq(s, a + 1, z)) = z - a
           /\ \A i \in 1 .. z - a : SubSeq(s, a + 1, z)[i] = s[a + i]
<1>1. Len(s) \in Nat /\ a \in Nat /\ z \in Nat /\ a + 1 \in Int /\ a <= z
  OBVIOUS
<1>2. \A i \in a + 1 .. z : s[i] \in Nat
  BY <1>1, ElementOfSeq
<1>3. /\ SubSeq(s, a + 1, z) \in Seq(Nat)
      /\ Len(SubSeq(s, a + 1, z)) = IF a + 1 <= z THEN z - (a + 1) + 1 ELSE 0
      /\ \A i \in 1 .. z - (a + 1) + 1 : SubSeq(s, a + 1, z)[i] = s[a + 1 + i - 1]
  BY <1>1, <1>2, SubSeqProperties
<1>4. z - (a + 1) + 1 = z - a /\ \A i \in 1 .. z - a : a + 1 + i - 1 = a + i
  BY <1>1
<1>5. Len(SubSeq(s, a + 1, z)) = z - a
  BY <1>1, <1>3
<1>6. \A i \in 1 .. z - a : SubSeq(s, a + 1, z)[i] = s[a + i]
  BY <1>3, <1>4
<1> QED BY <1>3, <1>5, <1>6

LEMMA CutsBegin ==
    ASSUME NEW s \in Seq(Nat), NEW a \in 0 .. Len(s), NEW x \in a .. Len(s), NEW z \in x .. Len(s)
    PROVE  Begins(SubSeq(s, a + 1, x), SubSeq(s, a + 1, z))
<1> DEFINE u == SubSeq(s, a + 1, x)  w == SubSeq(s, a + 1, z)
<1>1. a \in Int /\ x \in Int /\ z \in a .. Len(s) /\ x <= z /\ z \in Int
  OBVIOUS
<1>2. Len(u) = x - a /\ \A i \in 1 .. x - a : u[i] = s[a + i]
  BY CutIs
<1>3. Len(w) = z - a /\ \A i \in 1 .. z - a : w[i] = s[a + i]
  BY <1>1, CutIs
<1> HIDE DEF u, w
<1>4. x - a <= z - a /\ \A i \in 1 .. x - a : i \in 1 .. z - a
  BY <1>1
<1> QED BY <1>2, <1>3, <1>4 DEF Begins, u, w

LEMMA CutBehind ==
    ASSUME NEW s \in Seq(Nat), NEW a \in 0 .. Len(s), NEW x \in a .. Len(s), NEW z \in x .. Len(s)
    PROVE  SubSeq(SubSeq(s, a + 1, z), (x - a) + 1, z - a) = SubSeq(s, x + 1, z)
<1>1. /\ a \in Nat /\ x \in Nat /\ z \in Nat /\ z \in a .. Len(s) /\ a <= x /\ x <= z
      /\ Len(s) \in Nat /\ z <= Len(s)
  OBVIOUS
<1>2. CASE x = z
  <2>1. z - a < (x - a) + 1 /\ z < x + 1 /\ (x - a) + 1 \in Int /\ z - a \in Int /\ x + 1 \in Int
    BY <1>1, <1>2
  <2>2. SubSeq(SubSeq(s, a + 1, z), (x - a) + 1, z - a) = <<>>
    BY <2>1, SubSeqEmpty
  <2>3. SubSeq(s, x + 1, z) = <<>>
    BY <1>1, <2>1, SubSeqEmpty
  <2> QED BY <2>2, <2>3
<1>3. CASE x # z
  <2> DEFINE i == a + 1  m == (x - a) + 1  n == z - a
  <2>1. i \in 1 .. Len(s) /\ z \in 1 .. Len(s) /\ m \in 1 .. z - i + 1 /\ n \in 1 .. z - i + 1
        /\ i + m - 1 = x + 1 /\ i + n - 1 = z
    BY <1>1, <1>3
  <2> HIDE DEF i, m, n
  <2>2. SubSeq(SubSeq(s, i, z), m, n) = SubSeq(s, i + m - 1, i + n - 1)
    BY <2>1, SubSeqOfSubSeq
  <2> QED BY <2>1, <2>2 DEF i, m, n
<1> QED BY <1>2, <1>3

LEMMA ScriptHas ==
    ASSUME NEW s, IsScript(s), NEW k \in 0 .. Len(s.ends)
    PROVE  /\ s.text \in Seq(Nat) /\ Len(s.text) \in Nat
           /\ s.ends \in Seq(1 .. Len(s.text)) /\ Len(s.ends) \in Nat
           /\ Begin(s, k + 1) \in 0 .. Len(s.text)
           /\ k = Len(s.ends) => Begin(s, k + 1) = Len(s.text)
           /\ k < Len(s.ends) => /\ k + 1 \in DOMAIN s.ends
                                 /\ s.ends[k + 1] \in 1 .. Len(s.text)
                                 /\ Begin(s, k + 1) < s.ends[k + 1]
                                 /\ Begin(s, (k + 1) + 1) = s.ends[k + 1]
<1> DEFINE T == 1 .. Len(s.text)  n == Len(s.ends)
<1>1. s.text \in Seq(Nat) /\ Len(s.text) \in Nat /\ s.ends \in Seq(T) /\ n \in Nat
  <2>1. s.text \in Seq(Nat) /\ s.ends \in Seq(T)
    BY DEF IsScript
  <2> QED BY <2>1, LenProperties
<1>2. \A i \in 1 .. n : i \in DOMAIN s.ends /\ s.ends[i] \in T
  <2>1. DOMAIN s.ends = 1 .. n
    BY <1>1, LenProperties
  <2>2. \A i \in 1 .. n : s.ends[i] \in T
    BY <1>1, ElementOfSeq
  <2> QED BY <2>1, <2>2
<1>3. \A i, j \in DOMAIN s.ends : i < j => s.ends[i] < s.ends[j]
  BY DEF IsScript
<1>4. Begin(s, n + 1) = Len(s.text)
  BY DEF IsScript
<1>5. k \in Nat /\ k <= n
  BY <1>1
<1> HIDE DEF n
<1>6. Begin(s, k + 1) = IF k = 0 THEN 0 ELSE s.ends[k]
  <2>1. (k + 1 = 1) = (k = 0) /\ k + 1 - 1 = k
    BY <1>5
  <2> QED BY <2>1 DEF Begin
<1>7. Begin(s, k + 1) \in 0 .. Len(s.text)
  <2>1. k # 0 => s.ends[k] \in T
    BY <1>2, <1>5
  <2> QED BY <1>1, <1>6, <2>1
<1>8. ASSUME k < n
      PROVE  /\ k + 1 \in DOMAIN s.ends /\ s.ends[k + 1] \in T
             /\ Begin(s, k + 1) < s.ends[k + 1]
             /\ Begin(s, (k + 1) + 1) = s.ends[k + 1]
  <2>1. k + 1 \in 1 .. n
    BY <1>1, <1>5, <1>8
  <2>2. k + 1 \in DOMAIN s.ends /\ s.ends[k + 1] \in T
    BY <1>2, <2>1
  <2>3. k # 0 => k \in DOMAIN s.ends /\ k < k + 1
    BY <1>1, <1>2, <1>5
  <2>4. k # 0 => s.ends[k] < s.ends[k + 1]
    BY <1>3, <2>2, <2>3
  <2>5. Begin(s, k + 1) < s.ends[k + 1]
    BY <1>1, <1>6, <2>2, <2>4
  <2>6. (k + 1) + 1 # 1 /\ (k + 1) + 1 - 1 = k + 1
    BY <1>5
  <2> QED BY <2>2, <2>5, <2>6 DEF Begin
<1> QED BY <1>1, <1>4, <1>7, <1>8 DEF n

\* The stream is behind the k-th message: what is in the buffer comes after it.
ReadTo(k) ==
  /\ k \in 0 .. Len(script.ends)
  /\ Begin(script, k + 1) <= pos
  /\ getBufferString(in) = SubSeq(script.text, Begin(script, k + 1) + 1, pos)

\* The next message has arrived.
Arrived(k) == k < Len(script.ends) /\ script.ends[k + 1] <= pos

\* A read has not ended behind a request line, unless all has been read.
LineWhole == proto = "http" /\ pc = "execute" => pos \notin script.lines \/ pos = Len(script.text)

LEMMA IsAScript == StreamTypes => IsScript(script)
BY ScriptsAre DEF StreamTypes

\* The text of the next message and what is in the buffer.
LEMMA NextText ==
    ASSUME StreamTypes, NEW k, ReadTo(k), readAble(in) > 0,
           NEW e, e = TextOf(script, k + 1), NEW u, u = getBufferString(in)
    PROVE  /\ k < Len(script.ends) /\ k + 1 \in DOMAIN script.ends
           /\ e \in Seq(Nat) /\ u \in Seq(Nat) /\ Len(e) > 0 /\ Len(u) = readAble(in)
           /\ Arrived(k) => /\ Begins(e, u) /\ Len(e) <= readAble(in)
                            /\ SubSeq(u, Len(e) + 1, readAble(in))
                                 = SubSeq(script.text, script.ends[k + 1] + 1, pos)
           /\ ~Arrived(k) => /\ Begins(u, e) /\ Len(u) < Len(e)
                             /\ pos < Len(script.text) /\ pos = Begin(script, k + 1) + Len(u)
<1> DEFINE s == script.text  n == Len(script.ends)  a == Begin(script, k + 1)  x == script.ends[k + 1]
<1>1. k \in 0 .. n /\ a <= pos /\ u = SubSeq(s, a + 1, pos)
  BY DEF ReadTo
<1>2. IsScript(script) /\ pos \in 0 .. Len(s)
  BY IsAScript DEF StreamTypes
<1>3. /\ s \in Seq(Nat) /\ Len(s) \in Nat /\ n \in Nat
      /\ a \in 0 .. Len(s)
      /\ k = n => a = Len(s)
      /\ k < n => /\ k + 1 \in DOMAIN script.ends /\ x \in 1 .. Len(s) /\ a < x
  BY <1>1, <1>2, ScriptHas
<1>4. u \in Seq(Nat) /\ Len(u) = readAble(in)
  BY Unread DEF StreamTypes
<1>5. e = SubSeq(s, a + 1, x)
  BY DEF TextOf
<1> HIDE DEF s, n, a, x
<1>6. Len(u) = pos - a /\ pos \in a .. Len(s)
  <2>1. pos \in a .. Len(s)
    BY <1>1, <1>2, <1>3
  <2>2. Len(SubSeq(s, a + 1, pos)) = pos - a
    BY <1>3, <2>1, CutIs
  <2> QED BY <1>1, <2>1, <2>2
<1>7. a < pos
  BY <1>2, <1>3, <1>4, <1>6
<1>8. k < n
  BY <1>1, <1>2, <1>3, <1>7
<1>9. k + 1 \in DOMAIN script.ends /\ x \in a .. Len(s) /\ a < x /\ a \in Nat /\ x \in Nat
  BY <1>3, <1>8
<1>10. e \in Seq(Nat) /\ Len(e) = x - a
  BY <1>3, <1>5, <1>9, CutIs
<1>11. Len(e) > 0
  BY <1>9, <1>10
<1>12. ASSUME x <= pos
       PROVE  /\ Begins(e, u) /\ Len(e) <= readAble(in)
              /\ SubSeq(u, Len(e) + 1, readAble(in)) = SubSeq(s, x + 1, pos)
  <2>1. pos \in x .. Len(s)
    BY <1>2, <1>3, <1>9, <1>12
  <2>2. Begins(e, u)
    BY <1>1, <1>3, <1>5, <1>9, <2>1, CutsBegin
  <2>3. SubSeq(SubSeq(s, a + 1, pos), (x - a) + 1, pos - a) = SubSeq(s, x + 1, pos)
    BY <1>3, <1>9, <2>1, CutBehind
  <2>4. Len(e) <= readAble(in)
    BY <2>2, <1>4 DEF Begins
  <2> QED BY <1>1, <1>4, <1>6, <1>10, <2>2, <2>3, <2>4
<1>13. ASSUME ~(x <= pos)
       PROVE  /\ Begins(u, e) /\ Len(u) < Len(e)
              /\ pos < Len(s) /\ pos = a + Len(u)
  <2>1. x \in pos .. Len(s) /\ pos < x /\ pos \in Nat
    BY <1>2, <1>3, <1>9, <1>13
  <2>2. Begins(u, e)
    BY <1>1, <1>3, <1>5, <1>6, <2>1, CutsBegin
  <2>3. Len(u) < Len(e) /\ pos = a + Len(u)
    BY <1>6, <1>9, <1>10, <2>1
  <2>4. pos < Len(s)
    BY <1>3, <2>1
  <2> QED BY <2>2, <2>3, <2>4
<1>14. Arrived(k) <=> x <= pos
  BY <1>8 DEF Arrived, n, x
<1> QED BY <1>4, <1>8, <1>9, <1>10, <1>11, <1>12, <1>13, <1>14 DEF s, n, a, x

\* What decode() finds of the next message: nothing before it has arrived, and
\* then just that message.
Found(k, d) ==
  IF Arrived(k)
  THEN /\ d.succ = (k + 1 \in script.valid)
       /\ d.succ => d.data = script.messages[k + 1]
       /\ getBufferString(d.buf) = SubSeq(script.text, script.ends[k + 1] + 1, pos)
  ELSE ~d.succ /\ getBufferString(d.buf) = getBufferString(in)

LEMMA PbFound ==
    ASSUME StreamTypes, proto = "pb", NEW k, ReadTo(k), readAble(in) > 0, NEW d \in Decoded
    PROVE  Found(k, d)
<1> DEFINE e == TextOf(script, k + 1)  u == getBufferString(in)  m == script.messages[k + 1]
<1>1. PICK junk \in Junk : d = decodePb(in, junk)
  BY DEF Decoded
<1>2. Buffer(in) /\ script \in PbScripts
  BY DEF StreamTypes
<1>3. /\ k + 1 \in DOMAIN script.ends
      /\ e \in Seq(Nat) /\ u \in Seq(Nat) /\ Len(e) > 0 /\ Len(u) = readAble(in)
      /\ Arrived(k) => /\ Begins(e, u) /\ Len(e) <= readAble(in)
                       /\ SubSeq(u, Len(e) + 1, readAble(in))
                            = SubSeq(script.text, script.ends[k + 1] + 1, pos)
      /\ ~Arrived(k) => Begins(u, e) /\ Len(u) < Len(e)
  BY NextText
<1>4. /\ m \in PbMessages /\ e = encodePbData(m) /\ NoPacketIn(e)
      /\ k + 1 \in script.valid <=> m.msg_req # <<>>
  <2>1. \A i \in DOMAIN script.ends :
          /\ script.messages[i] \in PbMessages
          /\ TextOf(script, i) = encodePbData(script.messages[i])
          /\ NoPacketIn(TextOf(script, i))
          /\ i \in script.valid <=> script.messages[i].msg_req # <<>>
    BY <1>2, ScriptsAssumption DEF IsPbScript, PbMessages, Strings
  <2> QED BY <1>3, <2>1
<1> HIDE DEF e, m
<1>5. CASE Arrived(k)
  <2>1. Begins(encodePbData(m), u)
    BY <1>3, <1>4, <1>5
  <2>2. /\ Len(encodePbData(m)) \in 0 .. readAble(in)
        /\ d.buf = recycleRead(in, Len(encodePbData(m)))
        /\ d.succ = (m.msg_req # <<>>)
        /\ m.msg_req # <<>> => d.data = m
    BY <1>1, <1>2, <1>4, <2>1, PacketTaken
  <2>3. getBufferString(d.buf) = SubSeq(u, Len(e) + 1, readAble(in))
    BY <1>2, <1>4, <2>2, ReadRecycled
  <2>4. getBufferString(d.buf) = SubSeq(script.text, script.ends[k + 1] + 1, pos)
    BY <1>3, <1>5, <2>3
  <2>5. d.succ = (k + 1 \in script.valid)
    BY <1>4, <2>2
  <2>6. d.succ => d.data = m
    BY <2>2
  <2> QED BY <1>5, <2>4, <2>5, <2>6 DEF Found, m
<1>6. CASE ~Arrived(k)
  <2>1. Begins(u, encodePbData(m)) /\ readAble(in) < Len(encodePbData(m)) /\ NoPacketIn(encodePbData(m))
    BY <1>3, <1>4, <1>6
  <2>2. ~d.succ /\ getBufferString(d.buf) = u
    BY <1>1, <1>2, <1>4, <2>1, PacketPart
  <2> QED BY <1>6, <2>2 DEF Found
<1> QED BY <1>5, <1>6

LEMMA HttpFound ==
    ASSUME StreamTypes, proto = "http", pc = "execute", LineWhole,
           NEW k, ReadTo(k), readAble(in) > 0, NEW d \in Decoded
    PROVE  Found(k, d)
<1> DEFINE e == TextOf(script, k + 1)  u == getBufferString(in)  m == script.messages[k + 1]
<1>1. d = decodeHttp(in)
  BY DEF Decoded
<1>2. Buffer(in) /\ script \in HttpScripts
  BY DEF StreamTypes
<1>3. /\ k + 1 \in DOMAIN script.ends
      /\ e \in Seq(Nat) /\ u \in Seq(Nat) /\ Len(e) > 0 /\ Len(u) = readAble(in)
      /\ Arrived(k) => /\ Begins(e, u) /\ Len(e) <= readAble(in)
                       /\ SubSeq(u, Len(e) + 1, readAble(in))
                            = SubSeq(script.text, script.ends[k + 1] + 1, pos)
      /\ ~Arrived(k) => /\ Begins(u, e) /\ Len(u) < Len(e)
                        /\ pos < Len(script.text) /\ pos = Begin(script, k + 1) + Len(u)
  BY NextText
<1>4. /\ parseHttp(e) = [taken |-> Len(e), succ |-> TRUE, data |-> m]
      /\ Begin(script, k + 1) + find(e, g_CRLF) + 1 \in script.lines
      /\ k + 1 \in script.valid
  <2>1. /\ script.valid = DOMAIN script.ends
        /\ \A i \in DOMAIN script.ends :
             /\ parseHttp(TextOf(script, i)) = [taken |-> Len(TextOf(script, i)), succ |-> TRUE,
                                                data |-> script.messages[i]]
             /\ Begin(script, i) + find(TextOf(script, i), g_CRLF) + 1 \in script.lines
    BY <1>2, ScriptsAssumption DEF IsHttpScript
  <2> QED BY <1>3, <2>1
<1> HIDE DEF e, m
<1>5. Whole(e)
  BY <1>3, <1>4 DEF Whole
<1> DEFINE parsed == parseHttp(u)
<1>6. /\ d.buf = IF parsed.succ /\ parsed.taken > 0 THEN recycleRead(in, parsed.taken) ELSE in
      /\ d.succ = parsed.succ /\ d.data = parsed.data
  BY <1>1 DEF decodeHttp
<1> HIDE DEF parsed
<1>7. CASE Arrived(k)
  <2>1. parsed = [taken |-> Len(e), succ |-> TRUE, data |-> m]
    <3>1. parseHttp(u) = parseHttp(e)
      BY <1>3, <1>5, <1>7, WholeFound
    <3> QED BY <1>4, <3>1 DEF parsed
  <2>2. d.buf = recycleRead(in, Len(e)) /\ d.succ = TRUE /\ d.data = m
    BY <1>3, <1>6, <2>1
  <2>3. Len(e) \in 0 .. readAble(in)
    BY <1>3, <1>7
  <2>4. getBufferString(d.buf) = SubSeq(u, Len(e) + 1, readAble(in))
    BY <1>2, <2>2, <2>3, ReadRecycled
  <2>5. getBufferString(d.buf) = SubSeq(script.text, script.ends[k + 1] + 1, pos)
    BY <1>3, <1>7, <2>4
  <2> QED BY <1>4, <1>7, <2>2, <2>5 DEF Found, m
<1>8. CASE ~Arrived(k)
  <2>1. LineEnd(e) # Len(u) - 1
    <3>1. pos \notin script.lines
      BY <1>3, <1>8 DEF LineWhole
    <3>2. SUFFICES ASSUME LineEnd(e) = Len(u) - 1 PROVE FALSE
      OBVIOUS
    <3>3. Begin(script, k + 1) + (Len(u) - 1) + 1 \in script.lines
      BY <1>4, <3>2 DEF LineEnd
    <3>4. Begin(script, k + 1) \in Int /\ Len(u) \in Int
      BY <1>3, ScriptHas, IsAScript DEF ReadTo
    <3>5. pos = Begin(script, k + 1) + (Len(u) - 1) + 1
      BY <1>3, <1>8, <3>4
    <3> QED BY <3>1, <3>3, <3>5
  <2>2. parsed = NoRequest(FALSE)
    BY <1>3, <1>5, <1>8, <2>1, PartNotFound DEF parsed
  <2>3. parsed.succ = FALSE
    BY <2>2 DEF NoRequest
  <2>4. d.buf = in /\ d.succ = FALSE
    BY <1>6, <2>3
  <2> QED BY <1>8, <2>4 DEF Found
<1> QED BY <1>7, <1>8

LEMMA NextFound ==
    ASSUME StreamTypes, pc = "execute", LineWhole,
           NEW k, ReadTo(k), readAble(in) > 0, NEW d \in Decoded
    PROVE  Found(k, d)
<1>1. proto \in {"pb", "http"}
  BY DEF StreamTypes
<1> QED BY <1>1, PbFound, HttpFound

-----------------------------------------------------------------------------
(***************************************************************************)
(* All messages are dispatched, in their order.                            *)
(***************************************************************************)
LEMMA AskedIs ==
    ASSUME NEW s, IsScript(s), NEW k \in 0 .. Len(s.ends)
    PROVE  /\ Asked(s, k) \in 0 .. Len(s.requests) /\ Len(s.requests) \in Nat
           /\ k = 0 => Asked(s, k) = 0
           /\ k < Len(s.ends) =>
                Asked(s, k + 1) = IF k + 1 \in s.valid THEN Asked(s, k) + 1 ELSE Asked(s, k)
<1> DEFINE n == Len(s.ends)  P(i) == {j \in s.valid : j <= i}
<1>1. n \in Nat /\ DOMAIN s.ends = 1 .. n
  <2>1. s.ends \in Seq(1 .. Len(s.text))
    BY DEF IsScript
  <2> QED BY <2>1, LenProperties
<1>2. s.valid \subseteq 1 .. n /\ Len(s.requests) = Cardinality(s.valid)
  BY <1>1 DEF IsScript
<1>3. IsFiniteSet(s.valid) /\ Cardinality(s.valid) \in Nat
  <2>1. IsFiniteSet(1 .. n)
    BY <1>1, FS_Interval
  <2>2. IsFiniteSet(s.valid)
    BY <1>2, <2>1, FS_Subset
  <2> QED BY <2>2, FS_CardinalityType
<1>4. k \in Nat /\ k <= n
  BY <1>1
<1> HIDE DEF n
<1>5. IsFiniteSet(P(k)) /\ Cardinality(P(k)) \in Nat /\ Cardinality(P(k)) <= Cardinality(s.valid)
  <2>1. P(k) \in SUBSET s.valid
    OBVIOUS
  <2> HIDE DEF P
  <2>2. IsFiniteSet(P(k)) /\ Cardinality(P(k)) <= Cardinality(s.valid)
    BY <1>3, <2>1, FS_Subset
  <2> QED BY <2>2, FS_CardinalityType
<1>6. k = 0 => Cardinality(P(k)) = 0
  <2>1. k = 0 => P(k) = {}
    BY <1>1, <1>2
  <2> HIDE DEF P
  <2> QED BY <2>1, FS_EmptySet
<1>7. k + 1 \in s.valid => Cardinality(P(k + 1)) = Cardinality(P(k)) + 1
  <2>1. k + 1 \in s.valid => P(k + 1) = P(k) \cup {k + 1}
    BY <1>1, <1>2, <1>4
  <2>2. k + 1 \notin P(k)
    BY <1>4
  <2> HIDE DEF P
  <2> QED BY <1>5, <2>1, <2>2, FS_AddElement
<1>8. k + 1 \notin s.valid => Cardinality(P(k + 1)) = Cardinality(P(k))
  <2>1. k + 1 \notin s.valid => P(k + 1) = P(k)
    BY <1>1, <1>2, <1>4
  <2> HIDE DEF P
  <2> QED BY <2>1
<1>9. \A i : Asked(s, i) = Cardinality(P(i))
  BY DEF Asked
<1> HIDE DEF P
<1>10. Len(s.requests) \in Nat
  BY <1>2, <1>3
<1>11. Asked(s, k) \in 0 .. Len(s.requests)
  BY <1>2, <1>5, <1>9, <1>10
<1>12. Asked(s, k + 1) = IF k + 1 \in s.valid THEN Asked(s, k) + 1 ELSE Asked(s, k)
  BY <1>7, <1>8, <1>9
<1> QED BY <1>6, <1>9, <1>10, <1>11, <1>12

\* The requests among the first k messages.
RequestsTo(s, k) == SubSeq(s.requests, 1, Asked(s, k))

LEMMA RequestsAre ==
    ASSUME NEW s, IsScript(s), NEW k \in 0 .. Len(s.ends)
    PROVE  /\ Len(RequestsTo(s, k)) = Asked(s, k)
           /\ IsPrefix(RequestsTo(s, k), s.requests)
           /\ k = 0 => RequestsTo(s, k) = <<>>
           /\ k < Len(s.ends) =>
                RequestsTo(s, k + 1) = IF k + 1 \in s.valid
                                       THEN Append(RequestsTo(s, k), s.messages[k + 1])
                                       ELSE RequestsTo(s, k)
<1> DEFINE R == {s.messages[i] : i \in s.valid}  r == s.requests  c == Asked(s, k)
           q == RequestsTo(s, k)
<1>1. r \in Seq(R)
  BY DEF IsScript
<1>2. /\ c \in 0 .. Len(r) /\ Len(r) \in Nat
      /\ k = 0 => c = 0
      /\ k < Len(s.ends) => Asked(s, k + 1) = IF k + 1 \in s.valid THEN c + 1 ELSE c
  BY AskedIs
<1>3. k < Len(s.ends) /\ k + 1 \in s.valid => r[c + 1] = s.messages[k + 1] /\ c + 1 \in 1 .. Len(r)
  <2>1. ASSUME k < Len(s.ends), k + 1 \in s.valid
        PROVE  r[c + 1] = s.messages[k + 1] /\ c + 1 \in 1 .. Len(r)
    <3>1. Asked(s, k + 1) = c + 1
      BY <1>2, <2>1
    <3>2. r[Asked(s, k + 1)] = s.messages[k + 1]
      BY <2>1 DEF IsScript
    <3>3. s.ends \in Seq(1 .. Len(s.text))
      BY DEF IsScript
    <3>4. k + 1 \in 0 .. Len(s.ends)
      BY <2>1, <3>3, LenProperties
    <3>5. Asked(s, k + 1) \in 0 .. Len(r)
      BY <3>4, AskedIs
    <3> QED BY <1>2, <3>1, <3>2, <3>5
  <2> QED BY <2>1
<1> HIDE DEF R, r, c
<1>4. q = SubSeq(r, 1, c)
  BY DEF RequestsTo, r, c
<1> HIDE DEF q
<1>5. c \in Int /\ c <= Len(r) /\ c >= 0
  BY <1>2
<1>6. \A i \in 1 .. c : r[i] \in R
  BY <1>1, <1>2, ElementOfSeq
<1>7. q \in Seq(R) /\ Len(q) = c
  <2>1. /\ SubSeq(r, 1, c) \in Seq(R)
        /\ Len(SubSeq(r, 1, c)) = IF 1 <= c THEN c - 1 + 1 ELSE 0
    BY <1>5, <1>6, SubSeqProperties
  <2> QED BY <1>4, <1>5, <2>1
<1>8. IsPrefix(q, r)
  <2>1. SubSeq(q, 1, Len(q)) = q
    BY <1>7, SubSeqFull
  <2> QED BY <1>4, <1>5, <1>7, <2>1 DEF IsPrefix
<1>9. k = 0 => q = <<>>
  <2>1. k = 0 => c < 1
    BY <1>2
  <2>2. c < 1 => SubSeq(r, 1, c) = <<>>
    BY <1>5, SubSeqEmpty
  <2> QED BY <1>4, <2>1, <2>2
<1>10. ASSUME k < Len(s.ends), k + 1 \in s.valid
       PROVE  RequestsTo(s, k + 1) = Append(q, s.messages[k + 1])
  <2>1. RequestsTo(s, k + 1) = SubSeq(r, 1, c + 1)
    BY <1>2, <1>10 DEF RequestsTo, r
  <2>2. c + 1 \in 1 .. Len(r) /\ r[c + 1] = s.messages[k + 1]
    BY <1>3, <1>10
  <2> DEFINE n == c + 1
  <2>3. n \in 1 .. Len(r) /\ 1 \in 1 .. Len(r) /\ n - 1 = c
    BY <1>2, <1>5, <2>2
  <2> HIDE DEF n
  <2>4. SubSeq(r, 1, n) = SubSeq(r, 1, n - 1) \o <<r[n]>>
    <3>1. n \in 1 .. Len(r)
      BY <2>3
    <3> QED BY <1>1, <2>3, <3>1, SubSeqRecursiveSecond
  <2>5. SubSeq(r, 1, n) = q \o <<r[n]>>
    BY <1>4, <2>3, <2>4
  <2>6. r[n] \in R
    BY <1>1, <2>3, ElementOfSeq
  <2>7. q \o <<r[n]>> = Append(q, r[n])
    BY <1>7, <2>6, AppendIsConcat
  <2> QED BY <2>1, <2>2, <2>5, <2>7 DEF n
<1>11. ASSUME k < Len(s.ends), k + 1 \notin s.valid PROVE RequestsTo(s, k + 1) = q
  BY <1>2, <1>4, <1>11 DEF RequestsTo, r
<1> QED BY <1>7, <1>8, <1>9, <1>10, <1>11 DEF q, r, c

\* No read ends right behind a request line: then decode() would succeed with
\* an empty request. The RPC protocol has no such place.
WholeLines == ~LineCuts \/ HttpScripts = {}

\* With the k-th message behind it the connection has dispatched the requests
\* among the first k; once execute() has returned no other message is there.
Progressed(k) ==
  /\ ReadTo(k)
  /\ dispatched = RequestsTo(script, k)
  /\ pc \in {"first", "output", "ended"} /\ AllValid => ~Arrived(k)

AllDispatched == LineWhole /\ \E k : Progressed(k)

LEMMA AllDispatchedInit == Init => AllDispatched
<1> SUFFICES ASSUME Init PROVE AllDispatched
  OBVIOUS
<1>1. StreamTypes
  BY StreamTypesInit
<1>2. /\ pos = 0 /\ pc = "first" /\ dispatched = <<>> /\ in = NewBuffer(InitSize)
  BY DEF Init
<1>3. IsScript(script)
  BY <1>1, IsAScript
<1> DEFINE n == Len(script.ends)
<1>4. n \in Nat
  <2>1. script.ends \in Seq(1 .. Len(script.text))
    BY <1>3 DEF IsScript
  <2> QED BY <2>1, LenProperties
<1>5. 0 \in 0 .. n /\ 0 + 1 = 1
  BY <1>4
<1>6. Begin(script, 0 + 1) = 0
  BY <1>5 DEF Begin
<1>7. getBufferString(in) = <<>>
  <2>1. Buffer(in)
    BY <1>1 DEF StreamTypes
  <2>2. readAble(in) = 0
    BY <1>2 DEF NewBuffer, readAble
  <2>3. getBufferString(in) \in Seq(Nat) /\ Len(getBufferString(in)) = 0
    BY <2>1, <2>2, Unread
  <2> QED BY <2>3, EmptySeq
<1>8. SubSeq(script.text, 0 + 1, 0) = <<>>
  BY SubSeqEmpty
<1>9. ReadTo(0)
  BY <1>2, <1>5, <1>6, <1>7, <1>8 DEF ReadTo
<1>10. dispatched = RequestsTo(script, 0)
  BY <1>2, <1>3, <1>5, RequestsAre
<1>11. ~Arrived(0)
  <2>1. 0 < n => script.ends[0 + 1] \in 1 .. Len(script.text)
    BY <1>3, <1>5, ScriptHas
  <2>2. SUFFICES ASSUME Arrived(0) PROVE FALSE
    OBVIOUS
  <2>3. 0 < n /\ script.ends[0 + 1] <= 0
    BY <1>2, <2>2 DEF Arrived
  <2> QED BY <2>1, <2>3
<1>12. Progressed(0)
  BY <1>9, <1>10, <1>11 DEF Progressed
<1> QED BY <1>2, <1>12 DEF AllDispatched, LineWhole

LEMMA AllDispatchedStep ==
    ASSUME WholeLines
    PROVE  StreamTypes /\ AllDispatched /\ [Next]_vars => AllDispatched'
<1> SUFFICES ASSUME StreamTypes, AllDispatched, [Next]_vars PROVE AllDispatched'
  OBVIOUS
<1> DEFINE s == script.text  n == Len(script.ends)
<1>1. PICK k : Progressed(k)
  BY DEF AllDispatched
<1> DEFINE a == Begin(script, k + 1)  u == getBufferString(in)
<1>2. /\ LineWhole /\ ReadTo(k) /\ dispatched = RequestsTo(script, k)
      /\ pc \in {"first", "output", "ended"} /\ AllValid => ~Arrived(k)
  BY <1>1 DEF AllDispatched, Progressed
<1>3. IsScript(script) /\ pos \in 0 .. Len(s) /\ Buffer(in)
  BY IsAScript DEF StreamTypes
<1>4. k \in 0 .. n /\ a <= pos /\ u = SubSeq(s, a + 1, pos)
  BY <1>2 DEF ReadTo
<1>5. /\ s \in Seq(Nat) /\ Len(s) \in Nat /\ n \in Nat /\ a \in 0 .. Len(s)
      /\ k < n => /\ k + 1 \in DOMAIN script.ends /\ script.ends[k + 1] \in 1 .. Len(s)
                  /\ a < script.ends[k + 1]
                  /\ Begin(script, (k + 1) + 1) = script.ends[k + 1]
  BY <1>3, <1>4, ScriptHas
<1>6. ASSUME UNCHANGED <<script, pos>>, getBufferString(in') = u
      PROVE  ReadTo(k)' /\ (Arrived(k)' = Arrived(k)) /\ (AllValid' = AllValid)
  BY <1>2, <1>6 DEF ReadTo, Arrived, AllValid
<1>7. ASSUME UNCHANGED <<script, pos>>, Arrived(k),
             getBufferString(in') = SubSeq(s, script.ends[k + 1] + 1, pos)
      PROVE  ReadTo(k + 1)'
  <2>1. k < n /\ script.ends[k + 1] <= pos
    BY <1>7 DEF Arrived
  <2>2. k + 1 \in 0 .. n
    BY <1>4, <1>5, <2>1
  <2> QED BY <1>5, <1>7, <2>1, <2>2 DEF ReadTo
<1>8. CASE UNCHANGED <<proto, script, pos, in, pc, dispatched>>
  <2>1. ReadTo(k)' /\ Arrived(k)' = Arrived(k) /\ AllValid' = AllValid
    BY <1>6, <1>8
  <2>2. LineWhole'
    BY <1>2, <1>8 DEF LineWhole
  <2>3. Progressed(k)'
    BY <1>2, <1>8, <2>1 DEF Progressed
  <2> QED BY <2>2, <2>3 DEF AllDispatched
<1>9. CASE Read
  <2>1. PICK c \in 1 .. Rest :
          /\ pos' = pos + c
          /\ getBufferString(in') = u \o SubSeq(s, pos + 1, pos + c)
          /\ pc' \in {"more", "execute"}
          /\ proto = "http" /\ pc' = "execute" /\ ~LineCuts => pos + c \notin script.lines
          /\ UNCHANGED <<proto, script, dispatched>>
    BY <1>9, ReadIs
  <2>2. ReadTo(k)'
    <3>1. /\ a + 1 \in 1 .. Len(s) + 1 /\ pos \in (a + 1) - 1 .. Len(s) /\ pos + c \in pos .. Len(s)
          /\ a <= pos + c
      BY <1>3, <1>4, <1>5 DEF Rest
    <3> DEFINE i == a + 1  z == pos + c
    <3> HIDE DEF i, z, s, a
    <3>2. SubSeq(s, i, pos) \o SubSeq(s, pos + 1, z) = SubSeq(s, i, z)
      BY <1>5, <3>1, ConcatAdjacentSubSeq DEF i, z
    <3>3. getBufferString(in') = SubSeq(s, a + 1, pos')
      BY <1>4, <2>1, <3>2 DEF i, z
    <3>4. a <= pos'
      BY <2>1, <3>1
    <3> QED BY <1>4, <2>1, <3>3, <3>4 DEF ReadTo, s, a
  <2>3. LineWhole'
    <3>1. ASSUME proto = "http", pc' = "execute" PROVE pos + c \notin script.lines
      <4>1. HttpScripts # {}
        BY <3>1 DEF StreamTypes
      <4> QED BY <2>1, <3>1, <4>1 DEF WholeLines
    <3> QED BY <2>1, <3>1 DEF LineWhole
  <2>4. Progressed(k)'
    BY <1>2, <2>1, <2>2 DEF Progressed
  <2> QED BY <2>3, <2>4 DEF AllDispatched
<1>10. CASE ReadNothing
  <2>1. /\ getBufferString(in') = u /\ pos = Len(s) /\ pc' = "execute"
        /\ UNCHANGED <<proto, script, pos, dispatched>>
    BY <1>10, ReadNothingIs
  <2>2. ReadTo(k)'
    BY <1>6, <2>1
  <2>3. LineWhole'
    BY <2>1 DEF LineWhole
  <2>4. Progressed(k)'
    BY <1>2, <2>1, <2>2 DEF Progressed
  <2> QED BY <2>3, <2>4 DEF AllDispatched
<1>11. CASE Execute
  <2>1. PICK d \in Decoded :
          /\ d.succ /\ in' = d.buf /\ dispatched' = Append(dispatched, d.data)
          /\ readAble(in) > 0 /\ pc = "execute"
          /\ UNCHANGED <<proto, script, pos, pc>>
    BY <1>11, ExecuteIs
  <2>2. Found(k, d)
    BY <1>2, <2>1, NextFound
  <2>3. /\ Arrived(k) /\ k + 1 \in script.valid /\ d.data = script.messages[k + 1]
        /\ getBufferString(in') = SubSeq(s, script.ends[k + 1] + 1, pos)
    BY <2>1, <2>2 DEF Found
  <2>4. ReadTo(k + 1)'
    BY <1>7, <2>1, <2>3
  <2>5. dispatched' = RequestsTo(script, k + 1)
    <3>1. k < n
      BY <2>3 DEF Arrived
    <3> QED BY <1>2, <1>3, <1>4, <2>1, <2>3, <3>1, RequestsAre
  <2>6. LineWhole'
    BY <1>2, <2>1 DEF LineWhole
  <2>7. Progressed(k + 1)'
    BY <2>1, <2>4, <2>5 DEF Progressed
  <2> QED BY <2>6, <2>7 DEF AllDispatched
<1>12. CASE ExecuteEnds
  <2>1. /\ \/ readAble(in) = 0 /\ in' = in
           \/ readAble(in) > 0 /\ \E d \in Decoded : ~d.succ /\ in' = d.buf
        /\ pc = "execute" /\ pc' = "output"
        /\ UNCHANGED <<proto, script, pos, dispatched>>
    BY <1>12, ExecuteEndsIs
  <2>2. LineWhole'
    BY <2>1 DEF LineWhole
  <2>3. CASE readAble(in) = 0 /\ in' = in
    <3>1. ~Arrived(k)
      <4>1. Len(u) = 0
        BY <1>3, <2>3, Unread
      <4>2. Len(u) = pos - a
        <5>1. pos \in a .. Len(s)
          BY <1>3, <1>4, <1>5
        <5>2. Len(SubSeq(s, a + 1, pos)) = pos - a
          BY <1>5, <5>1, CutIs
        <5> QED BY <1>4, <5>2
      <4>3. pos = a
        BY <1>3, <1>5, <4>1, <4>2
      <4>4. SUFFICES ASSUME Arrived(k) PROVE FALSE
        OBVIOUS
      <4>5. k < n /\ script.ends[k + 1] <= pos
        BY <4>4 DEF Arrived
      <4> HIDE DEF a, s, n
      <4> QED BY <1>3, <1>5, <4>3, <4>5
    <3>2. ReadTo(k)' /\ ~Arrived(k)'
      BY <1>6, <2>1, <2>3, <3>1
    <3>3. Progressed(k)'
      BY <1>2, <2>1, <3>2 DEF Progressed
    <3> QED BY <2>2, <3>3 DEF AllDispatched
  <2>4. CASE readAble(in) > 0 /\ \E d \in Decoded : ~d.succ /\ in' = d.buf
    <3>1. PICK d \in Decoded : ~d.succ /\ in' = d.buf
      BY <2>4
    <3>2. Found(k, d)
      BY <1>2, <2>1, <2>4, NextFound
    <3>3. CASE Arrived(k)
      <4>1. /\ k + 1 \notin script.valid
            /\ getBufferString(in') = SubSeq(s, script.ends[k + 1] + 1, pos)
        BY <3>1, <3>2, <3>3 DEF Found
      <4>2. ReadTo(k + 1)'
        BY <1>7, <2>1, <3>3, <4>1
      <4>3. k < n
        BY <3>3 DEF Arrived
      <4>4. dispatched' = RequestsTo(script, k + 1)
        BY <1>2, <1>3, <1>4, <2>1, <4>1, <4>3, RequestsAre
      <4>5. ~AllValid'
        BY <1>5, <2>1, <4>1, <4>3 DEF AllValid
      <4>6. Progressed(k + 1)'
        BY <2>1, <4>2, <4>4, <4>5 DEF Progressed
      <4> QED BY <2>2, <4>6 DEF AllDispatched
    <3>4. CASE ~Arrived(k)
      <4>1. getBufferString(in') = u
        BY <3>1, <3>2, <3>4 DEF Found
      <4>2. ReadTo(k)' /\ ~Arrived(k)'
        BY <1>6, <2>1, <3>4, <4>1
      <4>3. Progressed(k)'
        BY <1>2, <2>1, <4>2 DEF Progressed
      <4> QED BY <2>2, <4>3 DEF AllDispatched
    <3> QED BY <3>3, <3>4
  <2> QED BY <2>1, <2>3, <2>4
<1>13. CASE Send
  BY <1>8, <1>13, SendIs
<1>14. CASE OutputEnds
  <2>1. /\ pc = "output" /\ pc' \in {"ended", "first"}
        /\ UNCHANGED <<proto, script, pos, in, dispatched>>
    BY <1>14 DEF OutputEnds
  <2>2. ReadTo(k)' /\ Arrived(k)' = Arrived(k) /\ AllValid' = AllValid
    BY <1>6, <2>1
  <2>3. LineWhole'
    BY <2>1 DEF LineWhole
  <2>4. Progressed(k)'
    BY <1>2, <2>1, <2>2 DEF Progressed
  <2> QED BY <2>3, <2>4 DEF AllDispatched
<1>15. CASE UNCHANGED vars
  BY <1>8, <1>15 DEF vars
<1>16. CASE Ended
  BY <1>15, <1>16 DEF Ended
<1> QED BY <1>9, <1>10, <1>11, <1>12, <1>13, <1>14, <1>15, <1>16 DEF Next

LEMMA AlwaysAllDispatched ==
    ASSUME WholeLines
    PROVE  Spec => [](StreamTypes /\ AllDispatched)
<1>1. StreamTypes /\ AllDispatched /\ [Next]_vars => AllDispatched'
  BY AllDispatchedStep
<1> QED BY <1>1, AllDispatchedInit, AlwaysStreamTypes, PTL DEF Spec

\* However the network cuts the stream, but right behind an HTTP request line,
\* decode() gives the peer's requests to the dispatcher, none changed, none
\* twice, none left out or overtaken.
THEOREM StreamDispatchedInOrder ==
    ASSUME WholeLines
    PROVE  Spec => []DispatchedInOrder
<1>1. StreamTypes /\ AllDispatched => DispatchedInOrder
  <2> SUFFICES ASSUME StreamTypes, AllDispatched PROVE DispatchedInOrder
    OBVIOUS
  <2>1. PICK k : ReadTo(k) /\ dispatched = RequestsTo(script, k)
    BY DEF AllDispatched, Progressed
  <2>2. IsScript(script) /\ k \in 0 .. Len(script.ends)
    BY <2>1, IsAScript DEF ReadTo
  <2> QED BY <2>1, <2>2, RequestsAre DEF DispatchedInOrder
<1> QED BY <1>1, AlwaysAllDispatched, PTL

\* When the connection waits for a new request or has ended, each request that
\* has arrived completely has been dispatched: execute() goes on until decode()
\* finds nothing more in what input() has read (with the same exception).
THEOREM StreamQuietMeansDone ==
    ASSUME WholeLines
    PROVE  Spec => []QuietMeansDone
<1>1. StreamTypes /\ AllDispatched => QuietMeansDone
  <2> SUFFICES ASSUME StreamTypes, AllDispatched, pc \in {"first", "ended"}, AllValid
               PROVE  Len(dispatched) =
                        Cardinality({i \in DOMAIN script.ends : script.ends[i] <= pos})
    BY DEF QuietMeansDone
  <2>1. PICK k : Progressed(k)
    BY DEF AllDispatched
  <2>2. /\ k \in 0 .. Len(script.ends) /\ Begin(script, k + 1) <= pos
        /\ dispatched = RequestsTo(script, k) /\ ~Arrived(k)
    BY <2>1 DEF Progressed, ReadTo
  <2>3. IsScript(script) /\ pos \in Int
    BY IsAScript DEF StreamTypes
  <2> DEFINE n == Len(script.ends)
  <2>4. n \in Nat /\ DOMAIN script.ends = 1 .. n /\ \A i \in 1 .. n : script.ends[i] \in Nat
    <3>1. script.ends \in Seq(1 .. Len(script.text))
      BY <2>3 DEF IsScript
    <3>2. \A i \in 1 .. n : script.ends[i] \in 1 .. Len(script.text)
      BY <3>1, ElementOfSeq
    <3> QED BY <3>1, <3>2, LenProperties
  <2>5. \A i, j \in 1 .. n : i < j => script.ends[i] < script.ends[j]
    BY <2>3, <2>4 DEF IsScript
  <2>6. k \in Nat /\ k <= n
    BY <2>2, <2>4
  <2>7. k # 0 => script.ends[k] <= pos
    <3>1. k # 0 => k + 1 # 1 /\ k + 1 - 1 = k
      BY <2>6
    <3> QED BY <2>2, <3>1 DEF Begin
  <2>8. k < n => pos < script.ends[k + 1]
    <3>1. k < n => k + 1 \in 1 .. n
      BY <2>4, <2>6
    <3>2. k < n => script.ends[k + 1] \in Nat
      BY <2>4, <3>1
    <3>3. k < n => ~(script.ends[k + 1] <= pos)
      BY <2>2 DEF Arrived
    <3> HIDE DEF n
    <3> QED BY <2>3, <3>2, <3>3
  <2> HIDE DEF n
  <2>9. ASSUME NEW i \in 1 .. n PROVE script.ends[i] <= pos <=> i <= k
    <3>1. script.ends[i] \in Nat /\ i \in Nat
      BY <2>4
    <3>2. CASE i <= k
      <4>1. k \in 1 .. n /\ k # 0 /\ script.ends[k] \in Nat
        BY <2>4, <2>6, <3>1, <3>2
      <4>2. i = k \/ script.ends[i] < script.ends[k]
        BY <2>5, <3>1, <3>2, <4>1
      <4> QED BY <2>3, <2>7, <3>1, <3>2, <4>1, <4>2
    <3>3. CASE ~(i <= k)
      <4>1. k + 1 \in 1 .. n /\ k < n /\ script.ends[k + 1] \in Nat /\ (i = k + 1 \/ k + 1 < i)
        BY <2>4, <2>6, <3>1, <3>3
      <4>2. i = k + 1 \/ script.ends[k + 1] < script.ends[i]
        BY <2>5, <4>1
      <4> QED BY <2>3, <2>8, <3>1, <3>3, <4>1, <4>2
    <3> QED BY <3>2, <3>3
  <2>10. {i \in DOMAIN script.ends : script.ends[i] <= pos} = {j \in script.valid : j <= k}
    BY <2>4, <2>9 DEF AllValid
  <2>11. Len(dispatched) = Asked(script, k)
    BY <2>2, <2>3, RequestsAre
  <2> QED BY <2>10, <2>11 DEF Asked
<1> QED BY <1>1, AlwaysAllDispatched, PTL
=============================================================================
