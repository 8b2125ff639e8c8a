----------------------------- MODULE Connection -----------------------------
(***************************************************************************)
(* One keep-alive connection and its Handler: how requests are taken off   *)
(* the byte stream, refused at the door, and told what went wrong.  The    *)
(* same handler, with its flags, serves every request of the connection.   *)
(*                                                                         *)
(* The stream is a sequence of units, the head and the body of each        *)
(* request.  What the rest of the server does is free here: the engine's   *)
(* health, whether a permit is left, whether a prompt fits and whether     *)
(* fitting it took a summary, how a generation ends.  Server and Window    *)
(* model those.                                                            *)
(***************************************************************************)
EXTENDS Naturals, Sequences, FiniteSets

CONSTANTS
  Request,     \* what the client may send
  Asks,        \* bound: requests on the connection
  SOCKET_TIMEOUT, \* whether SOCKET_TIMEOUT_S > 0
  TOOLS_OK     \* whether the bundle can call tools

\* A JSON object, by what its reader makes of each field.  `options` is
\* stream_options, `entry` the inside of the messages, `text` their text.
Fields ==
  [messages : {"none", "list", "other"}, tools : {"none", "list", "other"},
   max_tokens : {"unset", "small", "huge", "negative", "nonsense"},
   max_completion_tokens : {"unset", "small", "huge", "negative", "nonsense"},
   stop : {"none", "strings", "number"},
   sampler : {"none", "number", "text", "infinite"},
   options : {"none", "object", "text"}, entry : {"good", "bad"},
   text : {"good", "surrogate"}, stream : BOOLEAN]

ASSUME ConnectionAssumption ==
  /\ Asks \in Nat /\ SOCKET_TIMEOUT \in BOOLEAN /\ TOOLS_OK \in BOOLEAN
  /\ \A a \in Request :
       /\ a \in [method : {"GET", "POST", "PUT"},
                path : {"health", "models", "chat", "messages", "other"},
                framing : {"length", "bad", "chunked", "negative", "large"},
                body : {"none", "object", "list", "garbage"},
                keep : BOOLEAN, fields : Fields]
       /\ a.body = "none" => a.fields.messages = "none"

VARIABLES
  reqs,    \* what the client has sent, in order
  inbox,   \* the units the handler has not read
  owed,    \* whether the last body is still to come
  peer,    \* whether the client is still there
  pc, cur, \* where the handler is, and in which request
  _headers_sent, _generating, close_connection,
  permit,  \* whether it holds one of _INFLIGHT
  answers, \* what has reached the client
  spent    \* the requests that have cost an NPU summary

client == <<reqs, owed, peer>>
flags == <<_headers_sent, _generating>>
vars == <<reqs, inbox, owed, peer, pc, cur, _headers_sent, _generating,
          close_connection, permit, answers, spent>>

Init ==
  /\ reqs = <<>> /\ inbox = <<>> /\ owed = FALSE /\ peer = "here"
  /\ pc = "idle" /\ cur = 0
  /\ _headers_sent = FALSE /\ _generating = FALSE /\ close_connection = TRUE
  /\ permit = FALSE /\ answers = <<>> /\ spent = {}

r == reqs[cur]
q == r.fields

-----------------------------------------------------------------------------
(* What the readers of the fields say *)

\* "unset" is absent, null, false, 0 and "0".
_parse_token_cap(raw) == IF raw \in {"negative", "nonsense"} THEN "refused" ELSE raw

\* The legacy spelling wins if it is set.
_max_tokens(f) ==
  LET n == _parse_token_cap(f.max_tokens)
      m == _parse_token_cap(f.max_completion_tokens)
  IN CASE n # "unset" -> n [] n = "unset" /\ m # "unset" -> m [] OTHER -> "default"

\* What the two endpoints refuse themselves, as a bad request.
Invalid(f) == f.messages # "list" \/ f.tools = "other" \/ _max_tokens(f) = "refused"

\* What the two endpoints read before they build the prompt.  The sampler
\* is the last field read, so a prompt could be built by then.
Mutant_Read(path, f) ==
  IF Invalid(f) THEN "refused" ELSE IF f.stop = "number" THEN "type" ELSE "good"
Read(path, f) ==
  IF Invalid(f) THEN "refused"
  ELSE IF f.stop = "number" \/ f.sampler = "text" THEN "type"
  ELSE IF f.sampler = "infinite" THEN "overflow"
  ELSE IF path = "chat" /\ f.options = "text" THEN "type" ELSE "good"

\* The envelope a request's errors and answers come in.
Envelope(path) == IF path = "messages" THEN "anthropic" ELSE "openai"

-----------------------------------------------------------------------------
(* Writing *)

Told(status, tongue) == [to |-> cur, status |-> status, tongue |-> tongue]

\* A status on the wire.  To a client that has left it goes nowhere, or
\* raises: out of the handler, which gives the permit back on the way.
Reply(status, tongue, place, close) ==
  /\ _headers_sent' = TRUE
  /\ \/ /\ peer = "here"
        /\ answers' = Append(answers, Told(status, tongue))
        /\ pc' = place /\ close_connection' = close
     \/ /\ peer = "gone"
        /\ UNCHANGED answers
        /\ pc' = place /\ close_connection' \in {close, TRUE}

_request_error(status, place, close) == Reply(status, Envelope(r.path), place, close)

\* _answer_failure
Raise(kind) ==
  IF _headers_sent
  THEN /\ answers' = IF peer = "here" THEN Append(answers, Told("closed", "none")) ELSE answers
       /\ close_connection' = TRUE /\ pc' = "leaving"
       /\ UNCHANGED _headers_sent
  ELSE _request_error(IF ~_generating /\ kind = "type" THEN "400" ELSE "500",
                      "leaving", close_connection)

-----------------------------------------------------------------------------
(* The base handler's loop *)

\* A body where a request line should be is answered as a malformed one; a
\* method without a do_ is not supported.  Either closes.
send_error(n) ==
  /\ answers' = IF peer = "here"
                THEN Append(answers, [to |-> n, status |-> "4xx", tongue |-> "html"])
                ELSE answers
  /\ close_connection' = TRUE /\ pc' = "between"

Parse ==
  /\ pc = "idle" /\ inbox # <<>>
  /\ inbox' = Tail(inbox)
  /\ LET unit == Head(inbox) IN
     \/ /\ unit.is = "body"
        /\ send_error(0) /\ UNCHANGED cur
     \/ /\ unit.is = "head" /\ cur' = unit.of
        /\ CASE reqs[unit.of].method = "PUT" -> send_error(unit.of)
             [] OTHER -> /\ pc' = reqs[unit.of].method
                         /\ close_connection' = ~reqs[unit.of].keep
                         /\ UNCHANGED answers
  /\ UNCHANGED <<client, flags, permit, spent>>

\* Nothing came for SOCKET_TIMEOUT_S, wherever the handler reads.
Mutant_Silent == SOCKET_TIMEOUT /\ inbox = <<>> /\ pc = "idle"
Silent == SOCKET_TIMEOUT /\ inbox = <<>>

\* An idle connection that its client has left, or says nothing on.
Idle ==
  /\ pc = "idle" /\ inbox = <<>> /\ (peer = "gone" \/ Silent)
  /\ pc' = "closed"
  /\ UNCHANGED <<client, inbox, cur, flags, close_connection, permit, answers, spent>>

Between ==
  /\ pc = "between"
  /\ pc' = IF close_connection THEN "closed" ELSE "idle"
  /\ UNCHANGED <<client, inbox, cur, flags, close_connection, permit, answers, spent>>

\* The body of a GET is not read.  "models" is every route that answers
\* with what is served.
do_GET ==
  /\ pc = "GET"
  /\ \/ r.path = "health" /\ \E verdict \in {"200", "503"} :
          Reply(verdict, "openai", "between", close_connection)
     \/ r.path = "models" /\ Reply("200", "openai", "between", close_connection)
     \/ r.path \notin {"health", "models"}
          /\ Reply("404", "openai", "between", close_connection)
  /\ UNCHANGED <<client, inbox, cur, _generating, permit, spent>>

-----------------------------------------------------------------------------
(* do_POST *)

\* Per request, not per handler.  The mutant leaves a flag as the previous
\* request of the connection set it.
Unsaid(flag) == FALSE

Mutant_Unasked(flag) == flag
Unasked(flag) == FALSE

do_POST ==
  /\ pc = "POST" /\ pc' = "framing"
  /\ _headers_sent' = Unsaid(_headers_sent) /\ _generating' = Unasked(_generating)
  /\ UNCHANGED <<client, inbox, cur, close_connection, permit, answers, spent>>

\* A chunked body refused like a bad field, on a connection kept open.
Mutant_Keeps(framing) == framing = "chunked"
\* The refusals that leave a body unread do not keep the connection.
Keeps(framing) == FALSE

Misframed ==
  /\ pc = "framing" /\ r.framing # "length"
  /\ _request_error(CASE r.framing = "chunked" -> "411" [] r.framing = "large" -> "413"
                      [] OTHER -> "400", "between",
                    IF Keeps(r.framing) THEN close_connection ELSE TRUE)
  /\ UNCHANGED <<client, inbox, cur, _generating, permit, spent>>

HasBody == r.body # "none"

ReadBody ==
  /\ pc = "framing" /\ r.framing = "length" /\ (HasBody => inbox # <<>>)
  /\ pc' = "read" /\ inbox' = IF HasBody THEN Tail(inbox) ELSE inbox
  /\ UNCHANGED <<client, cur, flags, close_connection, permit, answers, spent>>

\* The client stopped sending: no answer, the connection closes.
Stalled ==
  /\ pc = "framing" /\ r.framing = "length" /\ HasBody /\ Silent
  /\ answers' = IF peer = "here" THEN Append(answers, Told("dropped", "none")) ELSE answers
  /\ close_connection' = TRUE /\ pc' = "between"
  /\ UNCHANGED <<client, inbox, cur, flags, permit, spent>>

\* It left in the middle of its body: what there is of it is not an object,
\* or is empty and without messages.
CutShort ==
  /\ pc = "framing" /\ r.framing = "length" /\ HasBody /\ inbox = <<>> /\ peer = "gone"
  /\ _request_error("400", "between", close_connection)
  /\ UNCHANGED <<client, inbox, cur, _generating, permit, spent>>

\* Bad JSON, no object, no such route, tools the bundle cannot do.
Refuses ==
  CASE r.body \in {"garbage", "list"} -> "400"
    [] r.path \notin {"chat", "messages"} -> "404"
    [] q.tools # "none" /\ ~TOOLS_OK -> "400"
    [] OTHER -> "none"

Door ==
  /\ pc = "read"
  /\ IF Refuses # "none" THEN _request_error(Refuses, "between", close_connection)
     ELSE /\ pc' = "gate"
          /\ UNCHANGED <<_headers_sent, close_connection, answers>>
  /\ UNCHANGED <<client, inbox, cur, _generating, permit, spent>>

\* The health verdict, then the permit.
Shed ==
  /\ pc = "gate"
  /\ \E status \in {"503", IF r.path = "messages" THEN "529" ELSE "429"} :
       _request_error(status, "between", close_connection)
  /\ UNCHANGED <<client, inbox, cur, _generating, permit, spent>>

Admit ==
  /\ pc = "gate" /\ pc' = "fields" /\ permit' = TRUE
  /\ UNCHANGED <<client, inbox, cur, flags, close_connection, answers, spent>>

-----------------------------------------------------------------------------
(* _openai_chat and _anthropic_messages, then _run *)

ReadFields ==
  /\ pc = "fields"
  /\ LET verdict == Read(r.path, q) IN
     \/ verdict = "refused" /\ _request_error("400", "leaving", close_connection)
     \/ verdict \in {"type", "overflow"} /\ Raise(verdict)
     \/ /\ verdict = "good" /\ pc' = "build"
        /\ UNCHANGED <<_headers_sent, close_connection, answers>>
  /\ UNCHANGED <<client, inbox, cur, _generating, permit, spent>>

\* The first render meets what is wrong inside the messages; a prompt that
\* cannot be made to fit is not summarised for; whether the text can be
\* encoded is asked of the finished prompt.
Build ==
  /\ pc = "build"
  /\ \/ /\ q.entry = "bad"
        /\ Raise("type") /\ UNCHANGED spent
     \/ /\ q.entry = "good"
        /\ _request_error("too_long", "leaving", close_connection) /\ UNCHANGED spent
     \/ /\ q.entry = "good" /\ _max_tokens(q) # "huge"
        /\ spent' \in {spent, spent \cup {cur}}
        /\ IF q.text = "surrogate" THEN _request_error("400", "leaving", close_connection)
           ELSE /\ pc' = "run"
                /\ UNCHANGED <<_headers_sent, close_connection, answers>>
  /\ UNCHANGED <<client, inbox, cur, _generating, permit>>

\* _client_gone: the socket is readable and has nothing to read.
_client_gone == peer = "gone" /\ inbox = <<>>

Run ==
  /\ pc = "run" /\ _generating' = TRUE
  /\ \/ /\ q.stream                                  \* _sse_headers
        /\ \E place \in {"answering"} \cup (IF peer = "gone" THEN {"leaving"} ELSE {}) :
             Reply("200_SSE", Envelope(r.path), place, TRUE)
     \/ /\ ~q.stream /\ ~_client_gone
        /\ pc' = "answering"
        /\ UNCHANGED <<_headers_sent, close_connection, answers>>
     \/ /\ ~q.stream /\ _client_gone
        /\ pc' = "leaving" /\ close_connection' = TRUE
        /\ UNCHANGED <<_headers_sent, answers>>
  /\ UNCHANGED <<client, inbox, cur, permit, spent>>

\* A finish, or what the engine, the watchdog or shutdown made of it; a
\* stream has said its status and gets frames instead.
Answer ==
  /\ pc = "answering"
  /\ \/ ~q.stream /\ \E status \in {"200", "500", "503"} :
          Reply(status, Envelope(r.path), "leaving", close_connection)
     \/ q.stream /\ pc' = "leaving" /\ UNCHANGED <<_headers_sent, close_connection, answers>>
  /\ UNCHANGED <<client, inbox, cur, _generating, permit, spent>>

\* Something in the answering that no one anticipated.
Fault ==
  /\ pc = "answering"
  /\ \E kind \in {"type", "other"} : Raise(kind)
  /\ UNCHANGED <<client, inbox, cur, _generating, permit, spent>>

\* The client is found to have left, by a failed write or by asking.
Abandon ==
  /\ pc = "answering" /\ (_client_gone \/ (q.stream /\ peer = "gone"))
  /\ pc' = "leaving" /\ close_connection' = TRUE
  /\ UNCHANGED <<client, inbox, cur, flags, permit, answers, spent>>

Release ==
  /\ pc = "leaving" /\ pc' = "between" /\ permit' = FALSE
  /\ UNCHANGED <<client, inbox, cur, flags, close_connection, answers, spent>>

-----------------------------------------------------------------------------
(* The client: it may pipeline, stop in the middle of a body, or leave *)

Unit(is, n) == [is |-> is, of |-> n]

Ask ==
  /\ peer = "here" /\ ~owed /\ pc # "closed" /\ Len(reqs) < Asks
  /\ \E new \in Request : \E whole \in BOOLEAN :
       LET n == Len(reqs) + 1
           body == new.body # "none"
       IN /\ reqs' = Append(reqs, new)
          /\ owed' = (body /\ ~whole)
          /\ inbox' = inbox \o <<Unit("head", n)>>
                       \o (IF body /\ whole THEN <<Unit("body", n)>> ELSE <<>>)
  /\ UNCHANGED <<peer, pc, cur, flags, close_connection, permit, answers, spent>>

SendRest ==
  /\ peer = "here" /\ owed /\ pc # "closed"
  /\ owed' = FALSE /\ inbox' = Append(inbox, Unit("body", Len(reqs)))
  /\ UNCHANGED <<reqs, peer, pc, cur, flags, close_connection, permit, answers, spent>>

Depart ==
  /\ peer = "here" /\ pc # "closed" /\ peer' = "gone"
  /\ UNCHANGED <<reqs, inbox, owed, pc, cur, flags, close_connection, permit, answers, spent>>

Handle ==
  \/ Parse \/ Idle \/ Between \/ do_GET \/ do_POST \/ Misframed \/ ReadBody \/ Stalled
  \/ CutShort \/ Door \/ Shed \/ Admit \/ ReadFields \/ Build \/ Run \/ Answer \/ Fault
  \/ Abandon \/ Release

Next == Handle \/ Ask \/ SendRest \/ Depart

Spec == Init /\ [][Next]_vars

\* The thread runs, its reads time out, and a generation ends, which is
\* what Server and Supervision show.
FairSpec == Spec /\ WF_vars(Handle)

-----------------------------------------------------------------------------
(* Properties *)

TypeOK ==
  /\ pc \in {"idle", "between", "closed", "GET", "POST", "framing", "read", "gate",
             "fields", "build", "run", "answering", "leaving"}
  /\ cur \in 0..Len(reqs) /\ spent \subseteq 1..Len(reqs)
  /\ permit <=> pc \in {"fields", "build", "run", "answering", "leaving"}

\* The endpoints that are read with GET are OpenAI's.
Asked(a) == IF a.method = "POST" THEN Envelope(a.path) ELSE "openai"

\* The handler reads at the boundaries of the messages its client sent:
\* what is answered is what was asked, in that order, in the envelope of
\* the endpoint that was asked, with one status each.  A client that stays
\* gets one for every request the handler took up, unless it stopped in the
\* middle of a body; only a response that has its own status is broken off.
AnsweredInStep ==
  /\ \A i \in DOMAIN answers :
       LET a == answers[i] IN
       /\ a.to \in 1..Len(reqs)
       /\ a.tongue \in {Asked(reqs[a.to]), "none", "html"}
       /\ a.tongue = "html" => reqs[a.to].method = "PUT"
       /\ a.status = "closed" => i > 1 /\ answers[i - 1].to = a.to
                                       /\ answers[i - 1].status \in {"200", "200_SSE"}
       /\ i > 1 /\ a.status # "closed" => a.to = answers[i - 1].to + 1
       /\ i = 1 => a.to = 1
  /\ pc \in {"idle", "closed"} /\ peer = "here" =>
       \A n \in 1..cur : \E i \in DOMAIN answers : answers[i].to = n

\* Something is wrong with the request itself.
Wrong(f, path) ==
  \/ f.messages # "list" \/ f.entry = "bad" \/ f.tools = "other"
  \/ f.max_tokens \in {"negative", "nonsense"}
  \/ f.max_tokens = "unset" /\ f.max_completion_tokens \in {"negative", "nonsense"}
  \/ f.stop = "number" \/ f.sampler \in {"text", "infinite"}
  \/ path = "chat" /\ f.options = "text"
Malformed(a) ==
  \/ a.method = "PUT"
  \/ a.method = "GET" /\ a.path \notin {"health", "models"}
  \/ a.method = "POST" /\
       \/ a.framing # "length" \/ a.body # "object" \/ a.path \notin {"chat", "messages"}
       \/ a.fields.tools # "none" /\ ~TOOLS_OK
       \/ Wrong(a.fields, a.path) \/ a.fields.text = "surrogate"

\* A client whose request is at fault is told so, and not that the server
\* is broken, which a router would take to the next engine; and a failure of
\* the server's is never put on the client, whatever the requests before it
\* on the connection did.
BlameIsRight ==
  \A i \in DOMAIN answers : LET a == answers[i] IN
    /\ a.status \in {"400", "404", "411", "413", "4xx"} => Malformed(reqs[a.to])
    /\ a.status = "500" => ~Malformed(reqs[a.to])

\* No NPU summary is spent on a request that one of its fields gets refused.
\* Only text that cannot be encoded is found out later, in the prompt.  Types
\* are kept with it, the permit's among them.
NothingSpent ==
  /\ TypeOK
  /\ \A n \in spent : ~Wrong(reqs[n].fields, reqs[n].path)

\* No client can park its thread: one that stops sending, in a body or
\* between requests, loses the connection.
ConnectionEnds == <>(pc = "closed")
=============================================================================
