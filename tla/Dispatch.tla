------------------------------- MODULE Dispatch -------------------------------
(* PbRpcDispacther (net/pb/pb_rpc_dispatcher.cc) and HttpDispacther          *)
(* (net/http/http_dispatcher.cc): the reply to a decoded request. Services   *)
(* and servlets are the user's.                                              *)
EXTENDS PbCodeC, HttpCodeC

CONSTANTS Services,     \* the registered services, in order: name and methods
          Servlets,     \* the registered servlets, in order: path and body
          BadData       \* what no request message can be parsed from

DOT == 46
ASSUME ServletsAssumption == Servlets \in Seq([path : Seq(Nat), body : Seq(Nat)])

\* The last digits of the codes in error_code.h.
ERROR_FAILED_SERIALIZE == 4
ERROR_SERVICE_NOT_FOUND == 8
ERROR_METHOD_NOT_FOUND == 9
ERROR_PARSE_SERVICE_NAME == 10

\* registerService(): a later service of the same name replaces an earlier one.
m_service_map ==
  LET Named(name) == {i \in DOMAIN Services : Services[i].name = name}
  IN [name \in {s.name : s \in Range(Services)} |-> Services[Max(Named(name))].methods]

\* registerServlet(): a path keeps its first servlet.
m_servlets ==
  LET With(path) == {i \in DOMAIN Servlets : Servlets[i].path = path}
  IN [path \in {s.path : s \in Range(Servlets)} |-> Servlets[Min(With(path))].body]

-----------------------------------------------------------------------------
\* The service's and the method's name, unless there is no dot in it.
parseServiceFullName(full_name) ==
  LET i == find(full_name, <<DOT>>) IN
  [ok |-> i # 0, service |-> SubSeq(full_name, 1, i - 1), method |-> After(full_name, i)]

\* What the service answers: its data again.
CallMethod(data) == data

\* The reply to message m: under its number and name, with data or an error.
dispatchPb(m) ==
  LET name == parseServiceFullName(m.service_full_name)
      err_code == CASE ~name.ok -> ERROR_PARSE_SERVICE_NAME
                    [] name.ok /\ name.service \notin DOMAIN m_service_map ->
                         ERROR_SERVICE_NOT_FOUND
                    [] /\ name.ok /\ name.service \in DOMAIN m_service_map
                       /\ name.method \notin m_service_map[name.service] ->
                         ERROR_METHOD_NOT_FOUND
                    [] OTHER -> IF m.pb_data = BadData THEN ERROR_FAILED_SERIALIZE ELSE 0
  IN [msg_req |-> m.msg_req, service_full_name |-> m.service_full_name, err_code |-> err_code,
      err_info |-> IF err_code = 0 THEN <<>> ELSE <<err_code>>,
      pb_data |-> IF err_code = 0 THEN CallMethod(m.pb_data) ELSE <<>>]

-----------------------------------------------------------------------------
Filled(res, code, body) ==
  [res EXCEPT !.code = code, !.info = httpCodeToString(code), !.body = body,
              !.header = PutPair(PutPair(@, <<ContentType>>, <<content_type_text>>),
                             <<ContentLength>>, <<Number(Len(body))>>)]

\* NotFoundHttpServlet's page, and what the user's servlet at r's path sets.
NotFound(res) == Filled(res, HTTP_NOTFOUND, <<not_found_html>>)
Handled(r, res) == Filled(res, HTTP_OK, m_servlets[r.path])

setCommParam(r, res) ==
  [res EXCEPT !.version = r.version,
              !.header = PutPair(@, <<Connection>>, ValueOf(r.header, <<Connection>>))]

EmptyResponse == [version |-> <<>>, code |-> 0, info |-> 0, header |-> NoPairs, body |-> <<>>]

\* The response to request r. Without a path nothing is filled in.
dispatchHttp(r) ==
  IF r.path = <<>> THEN EmptyResponse
  ELSE LET res == setCommParam(r, EmptyResponse) IN
       IF r.path \in DOMAIN m_servlets THEN Handled(r, res) ELSE NotFound(res)
=============================================================================
