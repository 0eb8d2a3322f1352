------------------------------ MODULE HttpCodeC ------------------------------
(* HttpCodeC (net/http/http_codec.cc) with the headers and codes of          *)
(* http_define.cc. A word that the code only compares or copies is one       *)
(* token, whatever its case where the code ignores it; so is a number.       *)
EXTENDS TcpBuffer, StringUtil, SequencesExt

LF == 10
CR == 13
SP == 32
AMP == 38
SLASH == 47
COLON == 58
EQ == 61
MARK == 63
g_CRLF == <<CR, LF>>

GET == 101
POST == 102
HTTP_1_0 == 103
HTTP_1_1 == 104
Connection == 111
ContentLength == 112
ContentType == 113
content_type_text == 121
not_found_html == 122
HTTP_OK == 700
HTTP_NOTFOUND == 904
Number(n) == 500 + n

\* std::atoi: the number a string begins with, behind spaces; 0 without one.
atoi(s) ==
  LET digits == {i \in DOMAIN s : s[i] >= 500 /\ \A k \in 1..i - 1 : s[k] = SP}
  IN IF digits = {} THEN 0 ELSE s[Min(digits)] - 500

httpCodeToString(code) == code + 1000

-----------------------------------------------------------------------------
\* The headers that a response may have, in the order of std::map.
toHttpString(m_maps) ==
  LET Line(key) == IF key \in DOMAIN m_maps THEN key \o <<COLON>> \o m_maps[key] \o g_CRLF ELSE <<>>
  IN Line(<<Connection>>) \o Line(<<ContentLength>>) \o Line(<<ContentType>>)

HttpText(r) == r.version \o <<SP, r.code, SP, r.info>> \o g_CRLF
                 \o toHttpString(r.header) \o g_CRLF \o r.body

encodeHttp(b, r) == writeToBuffer(b, HttpText(r))

-----------------------------------------------------------------------------
NoPairs == [key \in {} |-> <<>>]

\* A URL behind its scheme and host; nothing where no path follows them.
Local(url, scheme) ==
  LET host == After(url, scheme + 2)
      root == find_first_of(host, <<SLASH>>)
  IN CASE scheme = 0 -> url
       [] scheme # 0 /\ root \in {0, Len(host)} -> <<>>
       [] OTHER -> After(host, root)

PathAndQuery(local, mark) ==
  IF mark = 0 THEN [path |-> local, query |-> NoPairs]
  ELSE [path |-> SubSeq(local, 1, mark - 1),
        query |-> SplitStrToMap(After(local, mark), <<AMP>>, <<EQ>>)]

UrlParts(local) == PathAndQuery(local, find_first_of(local, <<MARK>>))

\* The request line: whether it parses, and its parts.
parseHttpRequestLine(tmp) ==
  LET s1 == find_first_of(tmp, <<SP>>)
      s2 == find_last_of(tmp, <<SP>>)
      method == SubSeq(tmp, 1, s1 - 1)
      version == After(tmp, s2)
      url == SubSeq(tmp, s1 + 1, s2 - 1)
      scheme == find(url, <<COLON, SLASH, SLASH>>)
      parts == UrlParts(Local(url, scheme))
  IN [ok |-> /\ s1 # s2
             /\ method \in {<<GET>>, <<POST>>}
             /\ version \in {<<HTTP_1_0>>, <<HTTP_1_1>>}
             /\ scheme # 0 => scheme + 2 < Len(url),
      method |-> method, version |-> version, path |-> parts.path, query |-> parts.query]

\* What is shorter than four characters, here than two tokens, is no header.
parseHttpRequestHeader(str) ==
  IF Len(str) < 2 THEN NoPairs ELSE SplitStrToMap(str, g_CRLF, <<COLON>>)

\* m_maps[key] = value
PutPair(pairs, key, value) ==
  [k \in DOMAIN pairs \cup {key} |-> IF k = key THEN value ELSE pairs[k]]

ValueOf(pairs, key) == IF key \in DOMAIN pairs THEN pairs[key] ELSE <<>>

NewHttpRequest == [method |-> <<>>, version |-> <<>>, path |-> <<>>, query |-> NoPairs,
                   header |-> NoPairs, body |-> <<>>]

\* What decode() finds in a text: how much it takes from the buffer, whether it
\* succeeds, and the request.
NoRequest(succ) == [taken |-> 0, succ |-> succ, data |-> NewHttpRequest]

\* Behind the header the body must be there; a GET's is left where it is.
Completed(line, header, content, content_len, head_len) ==
  LET body == IF line.method = <<POST>> THEN SubSeq(content, 1, content_len) ELSE <<>> IN
  IF Len(content) < content_len THEN NoRequest(FALSE)
  ELSE [taken |-> head_len + Len(body), succ |-> TRUE,
        data |-> [method |-> line.method, version |-> line.version, path |-> line.path,
                  query |-> line.query, header |-> header, body |-> body]]

WithHeader(line, header, content, head_len) ==
  Completed(line, header, content, atoi(ValueOf(header, <<ContentLength>>)), head_len)

\* A line that ends where the text ends "needs more data", but succeeds, with
\* an empty request.
parseHttp(strs) ==
  LET i == find(strs, g_CRLF)
      line == parseHttpRequestLine(SubSeq(strs, 1, i - 1))
      tmp == After(strs, i + 1)
      j == find(tmp, g_CRLF \o g_CRLF)
  IN IF i = 0 THEN NoRequest(FALSE)
     ELSE IF i = Len(strs) - 1 THEN NoRequest(TRUE)
     ELSE IF ~line.ok \/ j = 0 THEN NoRequest(FALSE)
     ELSE WithHeader(line, parseHttpRequestHeader(SubSeq(tmp, 1, j - 1)),
                     After(tmp, j + 3), i + 1 + j + 3)

decodeHttp(b) ==
  LET parsed == parseHttp(getBufferString(b)) IN
  [buf |-> IF parsed.succ /\ parsed.taken > 0 THEN recycleRead(b, parsed.taken) ELSE b,
   succ |-> parsed.succ, data |-> parsed.data]
=============================================================================
