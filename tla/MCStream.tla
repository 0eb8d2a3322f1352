------------------------------- MODULE MCStream -------------------------------
(* Scripts for Stream: short messages of each kind that the decoders tell    *)
(* apart.                                                                    *)
EXTENDS Stream

Digits == 16
JunkCells == {0, PB_END}

\* A sequence of messages as the script of a peer.
Script(messages) ==
  LET From(i) == FlattenSeq([k \in 1..i - 1 |-> messages[k].text])
      valid == SelectSeq(messages, LAMBDA m : m.valid)
  IN [text |-> From(Len(messages) + 1),
      messages |-> [i \in DOMAIN messages |-> messages[i].data],
      valid |-> {i \in DOMAIN messages : messages[i].valid},
      requests |-> [i \in DOMAIN valid |-> valid[i].data],
      ends |-> [i \in DOMAIN messages |-> Len(From(i + 1))],
      lines |-> {Len(From(i)) + find(messages[i].text, g_CRLF) + 1 : i \in DOMAIN messages}]

-----------------------------------------------------------------------------
\* Names over the bytes 100.. and DOT: services s and t, methods m and n.
PbServices == <<[name |-> <<100>>, methods |-> {<<101>>}]>>
Broken == <<90>>

Pb(nr, name, data) == [msg_req |-> <<nr>>, service_full_name |-> name, err_code |-> 0,
                       err_info |-> <<>>, pb_data |-> data]

PbMessage(m) == [text |-> encodePbData(m), valid |-> m.msg_req # <<>>, data |-> m]

Call == PbMessage(Pb(81, <<100, DOT, 101>>, <<70, 71>>))
NoData == PbMessage(Pb(82, <<100, DOT, 102>>, <<>>))
NoName == PbMessage(Pb(83, <<>>, <<70>>))
BadCall == PbMessage(Pb(84, <<100, DOT, 101>>, Broken))
NoNumber == PbMessage([Pb(85, <<102>>, <<>>) EXCEPT !.msg_req = <<>>])

Pbs == {Script(s) : s \in {<<Call, NoData, Call>>, <<NoName, BadCall>>, <<Call, NoNumber, Call>>}}

-----------------------------------------------------------------------------
Path == <<SLASH, 131>>
HttpServlets == <<[path |-> Path, body |-> <<141, 142>>], [path |-> Path, body |-> <<>>]>>

Http(method, path, query, headers, body) ==
  [text |-> <<method, SP>> \o path \o query \o <<SP, HTTP_1_1>> \o g_CRLF
              \o toHttpString(headers) \o g_CRLF \o body,
   valid |-> TRUE,
   data |-> [method |-> <<method>>, version |-> <<HTTP_1_1>>, path |-> path,
             query |-> IF query = <<>> THEN NoPairs ELSE <<151>> :> <<152>> @@ <<153>> :> <<154>>,
             header |-> headers, body |-> body]]

KeepAlive == <<Connection>> :> <<161>>
Get == Http(GET, Path, <<MARK, 151, EQ, 152, AMP, 153, EQ, 154>>, KeepAlive, <<>>)
Post == Http(POST, <<SLASH, 132>>, <<>>, KeepAlive @@ <<ContentLength>> :> <<SP, Number(2)>>, <<CR, 142>>)

Https == {Script(s) : s \in {<<Get, Post>>, <<Post, Post, Get>>}}
=============================================================================
