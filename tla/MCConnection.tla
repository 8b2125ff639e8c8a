---------------------------- MODULE MCConnection ----------------------------
(***************************************************************************)
(* Requests for Connection: good ones of every kind, and one for each way  *)
(* of being refused.                                                       *)
(***************************************************************************)
EXTENDS Connection

Plain == [messages |-> "list", tools |-> "none", max_tokens |-> "unset",
          max_completion_tokens |-> "unset", stop |-> "none", sampler |-> "none",
          options |-> "none", entry |-> "good", text |-> "good", stream |-> FALSE]

Post(path, fields) ==
  [method |-> "POST", path |-> path, framing |-> "length", body |-> "object",
   keep |-> TRUE, fields |-> fields]
Bare(method, path) ==
  [method |-> method, path |-> path, framing |-> "length", body |-> "none",
   keep |-> TRUE, fields |-> [Plain EXCEPT !.messages = "none"]]

Served == {
  Bare("GET", "health"), Post("chat", Plain),
  [Post("chat", Plain) EXCEPT !.keep = FALSE],
  Post("messages", [Plain EXCEPT !.stream = TRUE, !.tools = "list"]),
  Post("messages", [Plain EXCEPT !.options = "text", !.max_completion_tokens = "small"])}

Refused == {
  Bare("GET", "messages"), Bare("PUT", "chat"), Bare("POST", "messages"), Post("other", Plain),
  [Post("chat", Plain) EXCEPT !.framing = "chunked"],
  [Post("messages", Plain) EXCEPT !.framing = "large"],
  [Post("messages", Plain) EXCEPT !.framing = "negative"],
  [Post("messages", Plain) EXCEPT !.body = "garbage"],
  Post("chat", [Plain EXCEPT !.tools = "other"]),
  Post("messages", [Plain EXCEPT !.max_completion_tokens = "negative"]),
  Post("chat", [Plain EXCEPT !.max_tokens = "huge", !.max_completion_tokens = "nonsense"]),
  Post("messages", [Plain EXCEPT !.sampler = "text"]),
  Post("chat", [Plain EXCEPT !.options = "text"]),
  Post("messages", [Plain EXCEPT !.entry = "bad"]),
  Post("chat", [Plain EXCEPT !.text = "surrogate"])}

Shapes == Served \cup Refused
Infinite == {Post("chat", [Plain EXCEPT !.sampler = "infinite"])}
=============================================================================
