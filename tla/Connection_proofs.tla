-------------------------- MODULE Connection_proofs --------------------------
(***************************************************************************)
(* Theorems about Connection, for any set of requests and any number of    *)
(* them on one connection.  Place says what is known of the request at     *)
(* each step of its handler, and of the flags the handler keeps between    *)
(* requests; Stream, that the handler reads at the boundaries of the       *)
(* messages; Answering, how far the answers have come.                     *)
(***************************************************************************)
EXTENDS Connection, SequenceTheorems, TLAPS

-----------------------------------------------------------------------------
(***************************************************************************)
(* Types                                                                   *)
(***************************************************************************)
Places == {"idle", "between", "closed", "GET", "POST", "framing", "read", "gate",
           "fields", "build", "run", "answering", "leaving"}
Units == [is : {"head", "body"}, of : Nat]
Holding == {"fields", "build", "run", "answering", "leaving"}

Types ==
  /\ reqs \in Seq(Request) /\ owed \in BOOLEAN /\ peer \in {"here", "gone"}
  /\ owed => Len(reqs) > 0
  /\ pc \in Places /\ cur \in 0..Len(reqs)
  /\ pc \notin {"idle", "between", "closed"} => cur \in 1..Len(reqs)
  /\ _headers_sent \in BOOLEAN /\ _generating \in BOOLEAN /\ close_connection \in BOOLEAN
  /\ permit \in BOOLEAN /\ (permit <=> pc \in Holding)
  /\ inbox \in Seq(Units)
  /\ \A i \in 1..Len(inbox) : inbox[i].of \in 1..Len(reqs)
  /\ spent \subseteq 1..Len(reqs)

\* A status, said or lost, takes the handler on; only a client that is there
\* gets it, and a connection it closes stays closed.
LEMMA ReplyEffect ==
  ASSUME NEW status, NEW tongue, NEW place, NEW close \in BOOLEAN,
         Reply(status, tongue, place, close)
  PROVE  /\ _headers_sent' = TRUE /\ pc' = place
         /\ close_connection' \in BOOLEAN /\ (close => close_connection')
         /\ \/ peer = "here" /\ answers' = Append(answers, Told(status, tongue))
            \/ peer # "here" /\ answers' = answers
  BY DEF Reply

\* What a failure comes to: a status, while the response has none.
Told500(kind) == IF ~_generating /\ kind = "type" THEN "400" ELSE "500"

\* So does a failure, which breaks the response off if it has its status.
LEMMA RaiseEffect ==
  ASSUME Types, NEW kind, Raise(kind)
  PROVE  /\ _headers_sent' = TRUE /\ pc' = "leaving" /\ close_connection' \in BOOLEAN
         /\ \/ /\ peer = "here"
               /\ answers' = Append(answers, IF _headers_sent THEN Told("closed", "none")
                                             ELSE Told(Told500(kind), Envelope(r.path)))
            \/ peer # "here" /\ answers' = answers
  BY ReplyEffect DEF Raise, _request_error, Told500, Types

\* What the steps of the handler leave alone: it asks nothing, and it takes
\* up a request only with Parse.
LEMMA HandlerKeeps ==
  ASSUME Types, Handle
  PROVE  /\ UNCHANGED <<reqs, owed, peer>>
         /\ Parse \/ cur' = cur
         /\ Parse \/ ReadBody \/ inbox' = inbox
         /\ Build \/ spent' = spent
  BY DEF Handle, client, Parse, Idle, Between, do_GET, do_POST, Misframed, ReadBody, Stalled,
         CutShort, Door, Shed, Admit, ReadFields, Build, Run, Answer, Fault, Abandon, Release

\* Where a step of the handler, other than Parse, may lead.
LEMMA HandlerGoes ==
  ASSUME Types, Handle, ~Parse
  PROVE  /\ pc' \in Places /\ (permit' <=> pc' \in Holding)
         /\ permit' \in BOOLEAN
         /\ pc' \notin {"idle", "between", "closed"} => pc \notin {"idle", "between", "closed"}
         /\ _headers_sent' \in BOOLEAN /\ _generating' \in BOOLEAN
         /\ close_connection' \in BOOLEAN
  <1>0. /\ pc \in Places /\ _headers_sent \in BOOLEAN /\ _generating \in BOOLEAN
        /\ close_connection \in BOOLEAN /\ permit \in BOOLEAN
        /\ (permit <=> pc \in Holding)
    BY DEF Types
  <1>1. CASE Idle \/ Between BY <1>0, <1>1 DEF Idle, Between, flags, Places, Holding
  <1>2. CASE do_GET
    <2>1. \E status : Reply(status, "openai", "between", close_connection)
      BY <1>2 DEF do_GET
    <2>2. pc = "GET" /\ _generating' = _generating /\ permit' = permit BY <1>2 DEF do_GET
    <2>3. /\ _headers_sent' = TRUE /\ pc' = "between" /\ close_connection' \in BOOLEAN
      BY <1>0, <2>1, ReplyEffect
    <2> QED BY <1>0, <2>2, <2>3 DEF Places, Holding
  <1>3. CASE do_POST \/ ReadBody \/ Stalled
    <2>1. /\ pc \in {"POST", "framing"} /\ pc' \in {"framing", "read", "between"}
          /\ permit' = permit
          /\ _headers_sent' \in {_headers_sent, FALSE} /\ _generating' \in {_generating, FALSE}
          /\ close_connection' \in {close_connection, TRUE}
      BY <1>3 DEF do_POST, Unsaid, Unasked, ReadBody, Stalled, flags
    <2> QED BY <1>0, <2>1 DEF Places, Holding
  <1>9. CASE Admit \/ Abandon \/ Release
    <2>1. /\ _headers_sent' = _headers_sent /\ _generating' = _generating
          /\ close_connection' \in {close_connection, TRUE}
      BY <1>9 DEF Admit, Abandon, Release, flags
    <2>2. /\ pc' \in Places /\ permit' \in BOOLEAN /\ (permit' <=> pc' \in Holding)
          /\ pc' \notin {"idle", "between", "closed"} => pc \notin {"idle", "between", "closed"}
      <3>1. CASE Admit BY <3>1 DEF Admit, Places, Holding
      <3>2. CASE Abandon BY <1>0, <3>2 DEF Abandon, Places, Holding
      <3>3. CASE Release BY <3>3 DEF Release, Places, Holding
      <3> QED BY <1>9, <3>1, <3>2, <3>3
    <2> QED BY <1>0, <2>1, <2>2
  <1>4. CASE Misframed \/ CutShort \/ Shed
    <2>1. \E status : \E close \in {close_connection, TRUE} :
            _request_error(status, "between", close)
      <3>1. CASE Misframed BY <3>1 DEF Misframed, Keeps
      <3>2. CASE CutShort \/ Shed BY <3>2 DEF CutShort, Shed
      <3> QED BY <1>4, <3>1, <3>2
    <2>2. pc \in {"framing", "gate"} /\ _generating' = _generating /\ permit' = permit
      BY <1>4 DEF Misframed, CutShort, Shed
    <2>3. /\ _headers_sent' = TRUE /\ pc' = "between" /\ close_connection' \in BOOLEAN
      BY <1>0, <2>1, ReplyEffect DEF _request_error
    <2> QED BY <1>0, <2>2, <2>3 DEF Places, Holding
  <1>5. CASE Door
    <2>1. /\ pc = "read" /\ pc' \in {"between", "gate"} /\ permit' = permit
          /\ _generating' = _generating
          /\ _headers_sent' \in BOOLEAN /\ close_connection' \in BOOLEAN
      <3>1. CASE Refuses # "none" BY <1>0, <1>5, <3>1, ReplyEffect DEF Door, _request_error
      <3>2. CASE Refuses = "none" BY <1>0, <1>5, <3>2 DEF Door
      <3> QED BY <3>1, <3>2
    <2> QED BY <1>0, <2>1 DEF Places, Holding
  <1>6. CASE ReadFields \/ Build
    <2>1. /\ \/ \E status : _request_error(status, "leaving", close_connection)
             \/ \E kind : Raise(kind)
             \/ pc' \in {"build", "run"} /\ UNCHANGED <<_headers_sent, close_connection>>
          /\ pc \in {"fields", "build"} /\ _generating' = _generating /\ permit' = permit
      BY <1>6 DEF ReadFields, Build
    <2> QED BY <1>0, <2>1, ReplyEffect, RaiseEffect DEF _request_error, Places, Holding
  <1>7. CASE Run
    <2>1. /\ pc = "run" /\ pc' \in {"answering", "leaving"} /\ permit' = permit
          /\ _generating' \in BOOLEAN
          /\ _headers_sent' \in BOOLEAN /\ close_connection' \in BOOLEAN
      BY <1>0, <1>7, ReplyEffect DEF Run
    <2> QED BY <1>0, <2>1 DEF Places, Holding
  <1>8. CASE Answer \/ Fault
    <2>1. /\ pc = "answering" /\ pc' = "leaving" /\ permit' = permit
          /\ _generating' = _generating
          /\ _headers_sent' \in BOOLEAN /\ close_connection' \in BOOLEAN
      BY <1>0, <1>8, ReplyEffect, RaiseEffect DEF Answer, Fault
    <2> QED BY <1>0, <2>1 DEF Places, Holding
  <1> QED BY <1>1, <1>2, <1>3, <1>4, <1>5, <1>6, <1>7, <1>8, <1>9 DEF Handle

(***************************************************************************)
(* What is known of the request the handler is in: every refusal that has  *)
(* been passed, and that the flags are the ones of this request.           *)
(***************************************************************************)
Place ==
  /\ pc = "GET" => r.method = "GET"
  /\ pc \in {"POST", "framing", "read", "gate"} \cup (Holding \ {"leaving"}) =>
       r.method = "POST"
  /\ pc \in {"read", "gate"} \cup (Holding \ {"leaving"}) => r.framing = "length"
  /\ pc \in {"gate"} \cup (Holding \ {"leaving"}) => Refuses = "none"
  /\ pc \in {"build", "run", "answering"} => Read(r.path, q) = "good"
  /\ pc \in {"run", "answering"} => q.entry = "good" /\ q.text # "surrogate"
  /\ pc \in {"framing", "read", "gate", "fields", "build", "run"} =>
       ~_headers_sent /\ ~_generating
  /\ pc = "answering" => _generating /\ _headers_sent = q.stream
  /\ \A n \in spent : ~Wrong(reqs[n].fields, reqs[n].path)

\* What a further request does to the stream: its head, and its body unless
\* that is still to come.
LEMMA AskEffect ==
  ASSUME Types, Ask
  PROVE  LET n == Len(reqs) + 1 IN
         /\ n \in Nat /\ reqs' \in Seq(Request) /\ Len(reqs') = n
         /\ \A k \in 1..Len(reqs) : reqs'[k] = reqs[k]
         /\ peer = "here" /\ ~owed /\ owed' \in BOOLEAN
         /\ UNCHANGED <<peer, pc, cur, flags, close_connection, permit, answers, spent>>
         /\ \/ /\ owed' <=> reqs'[n].body # "none"
               /\ inbox' = Append(inbox, Unit("head", n))
            \/ /\ reqs'[n].body # "none" /\ ~owed'
               /\ inbox' = Append(Append(inbox, Unit("head", n)), Unit("body", n))
  <1> DEFINE n == Len(reqs) + 1
  <1>1. PICK new \in Request, whole \in BOOLEAN :
          /\ reqs' = Append(reqs, new)
          /\ owed' = (new.body # "none" /\ ~whole)
          /\ inbox' = inbox \o <<Unit("head", n)>>
                       \o (IF new.body # "none" /\ whole THEN <<Unit("body", n)>> ELSE <<>>)
    BY DEF Ask
  <1>2. /\ reqs \in Seq(Request) /\ n \in Nat
        /\ inbox \in Seq(Units)
    BY DEF Types
  <1>3. /\ reqs' \in Seq(Request) /\ Len(reqs') = n /\ reqs'[n] = new
        /\ \A k \in 1..Len(reqs) : reqs'[k] = reqs[k]
    BY <1>1, <1>2
  <1>4. /\ Unit("head", n) \in Units
        /\ Unit("body", n) \in Units
    BY <1>2 DEF Unit, Units
  <1>5. reqs'[n].body # "none" <=> new.body # "none" BY <1>3
  <1> HIDE DEF n
  <1>6. inbox \o <<Unit("head", n)>> = Append(inbox, Unit("head", n))
    BY <1>2, <1>4, AppendIsConcat
  <1>7. /\ Append(inbox, Unit("head", n)) \in Seq(Units)
        /\ Append(inbox, Unit("head", n)) \o <<>> = Append(inbox, Unit("head", n))
        /\ Append(inbox, Unit("head", n)) \o <<Unit("body", n)>>
             = Append(Append(inbox, Unit("head", n)), Unit("body", n))
    <2> DEFINE s == Append(inbox, Unit("head", n))
    <2>1. s \in Seq(Units) BY <1>2, <1>4
    <2> HIDE DEF s
    <2>2. s \o <<>> = s /\ s \o <<Unit("body", n)>> = Append(s, Unit("body", n))
      BY <1>4, <2>1, ConcatEmptySeq, AppendIsConcat
    <2> QED BY <2>1, <2>2 DEF s
  <1>8. peer = "here" /\ ~owed
        /\ UNCHANGED <<peer, pc, cur, flags, close_connection, permit, answers, spent>>
    BY DEF Ask
  <1>9. CASE new.body # "none" /\ whole
    <2>1. inbox' = Append(Append(inbox, Unit("head", n)), Unit("body", n))
      BY <1>1, <1>6, <1>7, <1>9
    <2>2. ~owed' /\ owed' \in BOOLEAN BY <1>1, <1>9
    <2> QED BY <1>2, <1>3, <1>5, <1>8, <1>9, <2>1, <2>2 DEF n
  <1>10. CASE ~(new.body # "none" /\ whole)
    <2>1. inbox' = Append(inbox, Unit("head", n)) BY <1>1, <1>6, <1>7, <1>10
    <2>2. (owed' <=> new.body # "none") /\ owed' \in BOOLEAN BY <1>1, <1>10
    <2> QED BY <1>2, <1>3, <1>5, <1>8, <2>1, <2>2 DEF n
  <1> QED BY <1>9, <1>10

\* The types are kept.
LEMMA TypesStep == Types /\ [Next]_vars => Types'
  <1> SUFFICES ASSUME Types, [Next]_vars PROVE Types' OBVIOUS
  <1>0. /\ reqs \in Seq(Request) /\ Len(reqs) \in Nat /\ inbox \in Seq(Units)
        /\ Len(inbox) \in Nat
        /\ \A i \in 1..Len(inbox) : inbox[i].of \in 1..Len(reqs)
    BY DEF Types
  <1>1. CASE Handle /\ ~Parse
    <2>1. /\ UNCHANGED <<reqs, owed, peer, cur>> BY <1>1, HandlerKeeps
    <2>2. /\ inbox' \in Seq(Units)
          /\ \A i \in 1..Len(inbox') : inbox'[i].of \in 1..Len(reqs)
      <3>1. CASE inbox' = inbox BY <1>0, <3>1
      <3>2. CASE ReadBody /\ inbox' # inbox
        <4>1. inbox # <<>> /\ inbox' = Tail(inbox) BY <3>2 DEF ReadBody
        <4>2. /\ Tail(inbox) \in Seq(Units)
              /\ \A i \in 1..Len(Tail(inbox)) : i + 1 \in 1..Len(inbox)
                                              /\ Tail(inbox)[i] = inbox[i + 1]
          BY <1>0, <4>1
        <4> QED BY <1>0, <4>1, <4>2
      <3> QED BY <1>1, <3>1, <3>2, HandlerKeeps
    <2>3. spent' \subseteq 1..Len(reqs)
      <3>1. CASE spent' = spent BY <3>1 DEF Types
      <3>2. CASE Build BY <3>2 DEF Build, Types
      <3> QED BY <1>1, <3>1, <3>2, HandlerKeeps
    <2> QED BY <1>1, <2>1, <2>2, <2>3, HandlerGoes DEF Types
  <1>2. CASE Parse
    <2>1. inbox # <<>> /\ inbox' = Tail(inbox) BY <1>2 DEF Parse
    <2>2. /\ Tail(inbox) \in Seq(Units) /\ Head(inbox) = inbox[1] /\ 1 \in 1..Len(inbox)
          /\ \A i \in 1..Len(Tail(inbox)) : i + 1 \in 1..Len(inbox)
                                          /\ Tail(inbox)[i] = inbox[i + 1]
      BY <1>0, <2>1
    <2>3. UNCHANGED <<reqs, owed, peer, _headers_sent, _generating, permit, spent>>
          /\ pc = "idle"
      BY <1>2 DEF Parse, client, flags
    <2>4. /\ close_connection' \in BOOLEAN
          /\ \/ pc' = "between" /\ cur' = cur
             \/ /\ pc' \in {"between", "GET", "POST"}
                /\ cur' = Head(inbox).of
      <3>1. CASE Head(inbox).is = "body" BY <1>2, <3>1 DEF Parse, send_error
      <3>2. CASE Head(inbox).is # "body"
        <4> DEFINE a == reqs[Head(inbox).of]
        <4>1. Head(inbox).of \in 1..Len(reqs) BY <1>0, <2>2
        <4>2. a \in Request BY <1>0, <4>1
        <4>3. a.method \in {"GET", "POST", "PUT"} /\ a.keep \in BOOLEAN
          BY <4>2, ConnectionAssumption
        <4>4. cur' = Head(inbox).of BY <1>2, <3>2 DEF Parse
        <4>5. CASE a.method = "PUT" BY <1>2, <3>2, <4>4, <4>5 DEF Parse, send_error
        <4>6. CASE a.method # "PUT" BY <1>2, <3>2, <4>3, <4>4, <4>6 DEF Parse
        <4> QED BY <4>5, <4>6
      <3> QED BY <3>1, <3>2
    <2>5. cur' \in 0..Len(reqs) /\ (pc' # "between" => cur' \in 1..Len(reqs))
      <3>1. Head(inbox).of \in 1..Len(reqs) BY <1>0, <2>2
      <3>2. cur \in 0..Len(reqs) BY DEF Types
      <3> QED BY <1>0, <2>4, <3>1, <3>2
    <2>6. pc' \in Places /\ pc' \notin Holding /\ ~permit /\ pc' \notin {"idle", "closed"}
      BY <2>3, <2>4 DEF Places, Holding, Types
    <2>7. \A i \in 1..Len(inbox') : inbox'[i].of \in 1..Len(reqs) BY <1>0, <2>1, <2>2
    <2> QED BY <2>1, <2>2, <2>3, <2>4, <2>5, <2>6, <2>7 DEF Types
  <1>3. CASE Ask
    <2> DEFINE n == Len(reqs) + 1
    <2>1. /\ Len(reqs') = n /\ n \in Nat /\ n > 0 /\ 1..Len(reqs) \subseteq 1..n /\ n \in 1..n
          /\ 0..Len(reqs) \subseteq 0..n /\ reqs' \in Seq(Request) /\ owed' \in BOOLEAN
          /\ UNCHANGED <<peer, pc, cur, flags, close_connection, permit, spent>>
      BY <1>0, <1>3, AskEffect
    <2>2. /\ Unit("head", n) \in Units /\ Unit("body", n) \in Units
          /\ Unit("head", n).of = n /\ Unit("body", n).of = n
      BY <2>1 DEF Unit, Units
    <2>3. \/ inbox' = Append(inbox, Unit("head", n))
          \/ inbox' = Append(Append(inbox, Unit("head", n)), Unit("body", n))
      BY <1>3, AskEffect
    <2>4. ASSUME NEW s \in Seq(Units), NEW u \in Units, u.of = n,
                 \A i \in 1..Len(s) : s[i].of \in 1..n
          PROVE  /\ Append(s, u) \in Seq(Units)
                 /\ \A i \in 1..Len(Append(s, u)) : Append(s, u)[i].of \in 1..n
      <3>1. ASSUME NEW i \in 1..Len(Append(s, u)) PROVE Append(s, u)[i].of \in 1..n
        BY <2>1, <2>4, <3>1, AppendProperties
      <3> QED BY <2>4, <3>1
    <2>5. \A i \in 1..Len(inbox) : inbox[i].of \in 1..n BY <1>0, <2>1
    <2> HIDE DEF n
    <2>6. inbox' \in Seq(Units) /\ \A i \in 1..Len(inbox') : inbox'[i].of \in 1..n
      BY <1>0, <2>2, <2>3, <2>4, <2>5
    <2> QED BY <2>1, <2>6 DEF Types, flags
  <1>4. CASE SendRest
    <2>1. /\ inbox' = Append(inbox, Unit("body", Len(reqs))) /\ owed' = FALSE
          /\ UNCHANGED <<reqs, peer, pc, cur, flags, close_connection, permit, spent>>
      BY <1>4 DEF SendRest
    <2> DEFINE u == Unit("body", Len(reqs))
    <2>2. u \in Units /\ u.of \in 1..Len(reqs) BY <1>0, <1>4 DEF SendRest, Types, Unit, Units
    <2>3. ASSUME NEW i \in 1..Len(Append(inbox, u)) PROVE Append(inbox, u)[i].of \in 1..Len(reqs)
      BY <1>0, <2>2, AppendProperties
    <2>4. Append(inbox, u) \in Seq(Units) BY <1>0, <2>2
    <2> HIDE DEF u
    <2> QED BY <2>1, <2>3, <2>4 DEF Types, flags, u
  <1>5. CASE Depart BY <1>5 DEF Depart, Types, flags
  <1>6. CASE UNCHANGED vars BY <1>6 DEF vars, Types
  <1> QED BY <1>1, <1>2, <1>3, <1>4, <1>5, <1>6 DEF Next

\* What Read lets pass and has good messages is not at fault.
LEMMA ReadIsRight ==
  ASSUME NEW path, NEW f \in Fields, Read(path, f) = "good"
  PROVE  f.entry = "good" => ~Wrong(f, path)
  <1>1. ~(f.messages # "list" \/ f.tools = "other" \/ _max_tokens(f) = "refused")
    BY DEF Read, Invalid
  <1>2. ~(f.stop = "number" \/ f.sampler = "text") BY <1>1 DEF Read, Invalid
  <1>3. f.sampler # "infinite" BY <1>1, <1>2 DEF Read, Invalid
  <1>4. ~(path = "chat" /\ f.options = "text") BY <1>1, <1>2, <1>3 DEF Read, Invalid
  <1>5. f.max_tokens \notin {"negative", "nonsense"}
    BY <1>1 DEF _max_tokens, _parse_token_cap
  <1>6. f.max_tokens = "unset" => f.max_completion_tokens \notin {"negative", "nonsense"}
    BY <1>1 DEF _max_tokens, _parse_token_cap
  <1> QED BY <1>1, <1>2, <1>3, <1>4, <1>5, <1>6 DEF Wrong

\* The request a handler is in is one of the requests.
LEMMA TheRequest ==
  ASSUME Types, pc \notin {"idle", "between", "closed"}
  PROVE  /\ r \in Request /\ q \in Fields
         /\ r.method \in {"GET", "POST", "PUT"} /\ r.body \in {"none", "object", "list", "garbage"}
         /\ r.body = "none" => q.messages = "none"
         /\ q.stream \in BOOLEAN
  <1>1. r \in Request BY DEF r, Types
  <1> QED BY <1>1, ConnectionAssumption DEF q, Fields

\* A step of the handler keeps what is known of its request and its flags.
LEMMA PlaceOfHandler ==
  ASSUME Types, Place, Handle, ~Parse
  PROVE  Place'
  <1>0. UNCHANGED <<reqs, cur>> /\ r' = r /\ q' = q /\ Refuses' = Refuses
    <2>1. UNCHANGED <<reqs, cur>> BY HandlerKeeps
    <2> QED BY <2>1 DEF r, q, Refuses
  <1>1. ASSUME UNCHANGED spent, pc' \in {"idle", "between", "closed", "leaving"} PROVE Place'
    BY <1>0, <1>1 DEF Place, Holding
  <1>2. CASE Idle \/ Between \/ Stalled \/ Abandon \/ Release
    BY <1>1, <1>2 DEF Idle, Between, Stalled, Abandon, Release
  <1>3. CASE do_GET \/ Misframed \/ CutShort \/ Shed
    <2>1. \E status, tongue, close : Reply(status, tongue, "between", close)
      BY <1>3 DEF do_GET, Misframed, CutShort, Shed, _request_error
    <2>2. pc' = "between" BY <2>1 DEF Reply
    <2> QED BY <1>1, <1>3, <2>2 DEF do_GET, Misframed, CutShort, Shed
  <1>4. CASE do_POST
    <2>1. pc' = "framing" /\ ~_headers_sent' /\ ~_generating' /\ spent' = spent /\ pc = "POST"
      BY <1>4 DEF do_POST, Unsaid, Unasked
    <2> QED BY <1>0, <2>1 DEF Place, Holding
  <1>5. CASE ReadBody BY <1>0, <1>5 DEF ReadBody, flags, Place, Holding
  <1>6. CASE Door
    <2>1. CASE Refuses # "none"
      <3>1. pc' = "between" BY <1>6, <2>1 DEF Door, _request_error, Reply
      <3> QED BY <1>1, <1>6, <3>1 DEF Door
    <2>2. CASE Refuses = "none"
      <3>1. pc = "read" /\ pc' = "gate"
            /\ UNCHANGED <<_headers_sent, _generating, spent>>
        BY <1>6, <2>2 DEF Door
      <3> QED BY <1>0, <2>2, <3>1 DEF Place, Holding
    <2> QED BY <2>1, <2>2
  <1>7. CASE Admit BY <1>0, <1>7 DEF Admit, flags, Place, Holding
  <1>8. CASE ReadFields
    <2>1. CASE pc' = "leaving" BY <1>1, <1>8, <2>1 DEF ReadFields
    <2>2. CASE pc' # "leaving"
      <3>1. /\ pc = "fields" /\ pc' = "build" /\ Read(r.path, q) = "good"
            /\ UNCHANGED <<_headers_sent, _generating, spent>>
        BY <1>8, <2>2, RaiseEffect DEF ReadFields, _request_error, Reply
      <3> QED BY <1>0, <3>1 DEF Place, Holding
    <2> QED BY <2>1, <2>2
  <1>9. CASE Build
    <2>1. spent' \subseteq spent \cup {cur} /\ (spent' = spent \/ q.entry = "good")
          /\ _generating' = _generating /\ pc = "build"
      BY <1>9 DEF Build
    <2>2. \A n \in spent' : ~Wrong(reqs[n].fields, reqs[n].path)
      <3>1. q.entry = "good" => ~Wrong(q, r.path)
        BY <2>1, ReadIsRight, TheRequest DEF Place
      <3>2. q.entry = "good" => ~Wrong(reqs[cur].fields, reqs[cur].path)
        BY <3>1 DEF q, r
      <3>3. \A n \in spent : ~Wrong(reqs[n].fields, reqs[n].path) BY DEF Place
      <3> QED BY <2>1, <3>2, <3>3
    <2>3. CASE pc' = "leaving" BY <1>0, <2>2, <2>3 DEF Place, Holding
    <2>4. CASE pc' # "leaving"
      <3>1. /\ pc' = "run" /\ q.entry = "good" /\ q.text # "surrogate"
            /\ _headers_sent' = _headers_sent
        BY <1>9, <2>4, RaiseEffect DEF Build, _request_error, Reply
      <3> QED BY <1>0, <2>1, <2>2, <3>1 DEF Place, Holding
    <2> QED BY <2>3, <2>4
  <1>10. CASE Run
    <2>1. pc = "run" /\ _generating' /\ spent' = spent /\ ~_headers_sent BY <1>10 DEF Run, Place
    <2>2. CASE pc' = "leaving" BY <1>1, <2>1, <2>2
    <2>3. CASE pc' # "leaving"
      <3>1. pc' = "answering" /\ (_headers_sent' <=> q.stream) /\ _headers_sent' \in BOOLEAN
        <4>1. CASE q.stream
          <5>1. \E place \in {"answering", "leaving"} :
                  Reply("200_SSE", Envelope(r.path), place, TRUE)
            BY <1>10, <4>1 DEF Run
          <5> QED BY <2>3, <4>1, <5>1, ReplyEffect
        <4>2. CASE ~q.stream
          <5>1. pc' \in {"answering", "leaving"} /\ _headers_sent' = _headers_sent
            BY <1>10, <4>2 DEF Run
          <5>2. _headers_sent \in BOOLEAN BY DEF Types
          <5> QED BY <2>1, <2>3, <4>2, <5>1, <5>2
        <4> QED BY <4>1, <4>2
      <3>2. _headers_sent' = q.stream BY <2>1, <3>1, TheRequest
      <3> QED BY <1>0, <2>1, <3>1, <3>2 DEF Place, Holding
    <2> QED BY <2>2, <2>3
  <1>11. CASE Answer \/ Fault
    <2>1. pc' = "leaving" /\ spent' = spent BY <1>11, RaiseEffect DEF Answer, Fault, Reply
    <2> QED BY <1>1, <2>1
  <1> QED BY <1>2, <1>3, <1>4, <1>5, <1>6, <1>7, <1>8, <1>9, <1>10, <1>11 DEF Handle

\* The handler takes up what the client asked with its own method; what a
\* client sends behind changes nothing of what it has sent.
LEMMA PlaceStep == Types /\ Place /\ [Next]_vars => Place'
  <1> SUFFICES ASSUME Types, Place, [Next]_vars PROVE Place' OBVIOUS
  <1>1. CASE Handle /\ ~Parse BY <1>1, PlaceOfHandler
  <1>2. CASE Parse
    <2>1. reqs' = reqs /\ spent' = spent BY <1>2 DEF Parse, client
    <2>2. \/ pc' = "between"
          \/ pc' = reqs[cur'].method /\ pc' # "PUT"
      BY <1>2 DEF Parse, send_error
    <2>3. pc' \in {"GET", "POST", "between"}
      <3>1. CASE Head(inbox).is = "body" BY <1>2, <3>1 DEF Parse, send_error
      <3>2. CASE Head(inbox).is # "body"
        <4>1. cur' = Head(inbox).of /\ inbox # <<>> BY <1>2, <3>2 DEF Parse
        <4>2. Head(inbox) = inbox[1] /\ 1 \in 1..Len(inbox) BY <4>1 DEF Types
        <4>3. cur' \in 1..Len(reqs) BY <4>1, <4>2 DEF Types
        <4>4. reqs[cur'] \in Request BY <4>3 DEF Types
        <4>5. reqs[cur'].method \in {"GET", "POST", "PUT"} BY <4>4, ConnectionAssumption
        <4> QED BY <2>2, <4>5
      <3> QED BY <3>1, <3>2
    <2> QED BY <2>1, <2>2, <2>3 DEF Place, Holding, r
  <1>3. ASSUME UNCHANGED <<pc, cur, _headers_sent, _generating, spent>>,
               \A k \in 1..Len(reqs) : reqs'[k] = reqs[k]
        PROVE  Place'
    <2>1. CASE pc \in {"idle", "between", "closed"}
      BY <1>3, <2>1 DEF Place, Types, Holding
    <2>2. CASE pc \notin {"idle", "between", "closed"}
      <3>1. r' = r /\ q' = q /\ Refuses' = Refuses
        <4>1. cur \in 1..Len(reqs) BY <2>2 DEF Types
        <4>2. r' = r BY <1>3, <4>1 DEF r
        <4> QED BY <4>2 DEF q, Refuses
      <3>2. \A n \in spent : reqs'[n] = reqs[n] BY <1>3 DEF Types
      <3> QED BY <1>3, <3>1, <3>2 DEF Place
    <2> QED BY <2>1, <2>2
  <1>4. CASE Ask BY <1>3, <1>4, AskEffect DEF flags
  <1>5. CASE SendRest \/ Depart BY <1>3, <1>5 DEF SendRest, Depart, flags
  <1>6. CASE UNCHANGED vars BY <1>3, <1>6 DEF vars
  <1> QED BY <1>1, <1>2, <1>4, <1>5, <1>6 DEF Next

\* Whatever is asked, and however often on a connection, the types are kept,
\* and the handler knows of its request what its place says.
THEOREM PlaceInvariant == Spec => [](Types /\ Place)
  <1>1. Init => Types /\ Place
    <2> SUFFICES ASSUME Init PROVE Types /\ Place OBVIOUS
    <2>1. Types
      <3>1. <<>> \in Seq(Request) /\ <<>> \in Seq(Units)
            /\ Len(<<>>) = 0
        OBVIOUS
      <3>2. /\ reqs = <<>> /\ inbox = <<>> /\ cur = 0 /\ spent = {} /\ pc = "idle"
            /\ owed = FALSE /\ peer = "here" /\ permit = FALSE
            /\ _headers_sent = FALSE /\ _generating = FALSE /\ close_connection = TRUE
        BY DEF Init
      <3>3. /\ cur \in 0..Len(reqs) /\ \A i \in 1..Len(inbox) : inbox[i].of \in 1..Len(reqs)
        BY <3>1, <3>2
      <3>4. /\ reqs \in Seq(Request) /\ inbox \in Seq(Units)
            /\ owed => Len(reqs) > 0
        BY <3>1, <3>2
      <3>5. pc \in Places /\ pc \notin Holding BY <3>2 DEF Places, Holding
      <3> QED BY <3>2, <3>3, <3>4, <3>5 DEF Types
    <2>2. Place BY DEF Init, Place, Holding
    <2> QED BY <2>1, <2>2
  <1> QED BY <1>1, TypesStep, PlaceStep, PTL DEF Spec

\* No summary is spent on a request that one of its fields gets refused,
\* whatever the requests before it on the connection were; and every place
\* that holds a permit is one that gives it back.
THEOREM NothingSpentHolds == Spec => []NothingSpent
  <1>1. Types /\ Place => NothingSpent
    BY DEF Types, Place, NothingSpent, TypeOK, Places, Holding
  <1> QED BY <1>1, PlaceInvariant, PTL

-----------------------------------------------------------------------------
(***************************************************************************)
(* The stream, from where the handler reads to where the client stopped:   *)
(* each unit is the one that comes after the one before, and the handler   *)
(* is at the one it expects, until it reads no further.  This needs the    *)
(* client to send no body with a GET, which nobody would read.             *)
(***************************************************************************)
PlainGets == \A a \in Request : a.method = "GET" => a.body = "none"

After(rs, u) ==
  IF u.is = "head" /\ rs[u.of].body # "none" THEN Unit("body", u.of) ELSE Unit("head", u.of + 1)
Chain(rs, s) == \A i \in 1..(Len(s) - 1) : s[i + 1] = After(rs, s[i])

\* The handler has still to read the body of its request.
Awaits == pc \in {"POST", "framing"} /\ reqs[cur].body # "none"
Expected == IF Awaits THEN Unit("body", cur) ELSE Unit("head", cur + 1)
Done == pc = "closed" \/ (pc = "between" /\ close_connection)

\* The last unit is of the last request, and its body if that is not owed.
Ends(rs, s, due) ==
  s # <<>> => /\ s[Len(s)].of = Len(rs)
              /\ due <=> s[Len(s)].is = "head" /\ rs[Len(rs)].body # "none"

Stream ==
  /\ Chain(reqs, inbox) /\ Ends(reqs, inbox, owed)
  /\ ~Done /\ inbox # <<>> => inbox[1] = Expected
  /\ ~Done /\ inbox = <<>> /\ peer = "here" => cur = Len(reqs) /\ (owed <=> Awaits)

\* A chain with the next unit behind it is a chain.
LEMMA ChainLonger ==
  ASSUME NEW rs, NEW s \in Seq(Units), NEW u \in Units, Chain(rs, s),
         s # <<>> => u = After(rs, s[Len(s)])
  PROVE  /\ Chain(rs, Append(s, u)) /\ Append(s, u) \in Seq(Units)
         /\ Append(s, u) # <<>> /\ Append(s, u)[Len(Append(s, u))] = u
         /\ s # <<>> => Append(s, u)[1] = s[1]
         /\ s = <<>> => Append(s, u)[1] = u
  <1> DEFINE t == Append(s, u)
             n == Len(s)
  <1>1. /\ n \in Nat /\ t \in Seq(Units) /\ t # <<>> /\ Len(t) = n + 1 /\ t[n + 1] = u
        /\ \A i \in 1..n : t[i] = s[i]
    BY AppendProperties
  <1>2. s = <<>> <=> n = 0 BY EmptySeq
  <1>3. ASSUME NEW i \in 1..(Len(t) - 1) PROVE t[i + 1] = After(rs, t[i])
    <2>1. i \in 1..n /\ t[i] = s[i] BY <1>1
    <2>2. CASE i = n BY <1>1, <1>2, <2>1, <2>2
    <2>3. CASE i # n
      <3>1. i \in 1..(n - 1) /\ i + 1 \in 1..n BY <1>1, <2>1, <2>3
      <3>2. s[i + 1] = After(rs, s[i]) BY <3>1 DEF Chain
      <3> QED BY <1>1, <2>1, <3>1, <3>2
    <2> QED BY <2>2, <2>3
  <1> HIDE DEF t, n
  <1>4. Chain(rs, t) BY <1>3 DEF Chain
  <1>5. s # <<>> => t[1] = s[1] BY <1>1, <1>2
  <1>6. s = <<>> => t[1] = u BY <1>1, <1>2
  <1> QED BY <1>1, <1>4, <1>5, <1>6 DEF t

\* What is behind the first unit of a chain is a chain.
LEMMA ChainShorter ==
  ASSUME NEW rs, NEW s \in Seq(Units), Chain(rs, s), s # <<>>
  PROVE  /\ Chain(rs, Tail(s)) /\ Tail(s) \in Seq(Units) /\ Head(s) = s[1] /\ s[1] \in Units
         /\ Tail(s) # <<>> => /\ Tail(s)[1] = After(rs, s[1])
                              /\ Tail(s)[Len(Tail(s))] = s[Len(s)]
         /\ Tail(s) = <<>> => s[Len(s)] = s[1]
  <1> DEFINE t == Tail(s)
             n == Len(s)
  <1>1. /\ n \in Nat /\ n > 0 /\ t \in Seq(Units) /\ Len(t) = n - 1 /\ Head(s) = s[1]
        /\ s[1] \in Units /\ \A i \in 1..(n - 1) : t[i] = s[i + 1]
    OBVIOUS
  <1>2. t = <<>> <=> n = 1
    <2>1. t = <<>> <=> Len(t) = 0 BY <1>1, EmptySeq
    <2> QED BY <1>1, <2>1
  <1>3. ASSUME NEW i \in 1..(Len(t) - 1) PROVE t[i + 1] = After(rs, t[i])
    <2>1. /\ i \in 1..(n - 1) /\ i + 1 \in 1..(n - 1) BY <1>1
    <2>2. s[(i + 1) + 1] = After(rs, s[i + 1]) BY <2>1 DEF Chain
    <2> QED BY <1>1, <2>1, <2>2
  <1>4. n # 1 => s[2] = After(rs, s[1])
    <2>1. n # 1 => 1 \in 1..(n - 1) /\ 1 + 1 = 2 BY <1>1
    <2>2. 1 \in 1..(n - 1) => s[1 + 1] = After(rs, s[1]) BY DEF Chain
    <2> QED BY <2>1, <2>2
  <1> HIDE DEF t, n
  <1>5. Chain(rs, t) BY <1>3 DEF Chain
  <1>6. n # 1 => t[1] = s[2] /\ t[Len(t)] = s[n] BY <1>1
  <1>7. n = 1 => s[n] = s[1] OBVIOUS
  <1> QED BY <1>1, <1>2, <1>4, <1>5, <1>6, <1>7 DEF t, n

\* While the handler reads nothing, it goes on expecting the same, or stops
\* reading, or there is nothing to come.
LEMMA StreamKept ==
  ASSUME Types, Stream, UNCHANGED <<reqs, owed, peer, cur, inbox>>,
         Done' \/ (~Done /\ (Awaits' <=> Awaits)) \/ (inbox = <<>> /\ peer = "gone")
  PROVE  Stream'
  <1>1. Chain(reqs, inbox)' /\ Ends(reqs, inbox, owed)' BY DEF Stream, Chain, Ends, After
  <1>2. ~Done' /\ inbox # <<>> => inbox[1] = Expected' BY DEF Stream, Expected
  <1>3. ~Done' /\ inbox = <<>> /\ peer = "here" => cur = Len(reqs) /\ (owed <=> Awaits')
    BY DEF Stream
  <1> QED BY <1>1, <1>2, <1>3 DEF Stream

\* The two units of a request, and what comes after each.
LEMMA UnitsOf ==
  ASSUME NEW n \in Nat
  PROVE  /\ Unit("head", n) \in Units /\ Unit("head", n).of = n /\ Unit("head", n).is = "head"
         /\ Unit("body", n) \in Units /\ Unit("body", n).of = n /\ Unit("body", n).is = "body"
         /\ Unit("head", n) # Unit("body", n)
         /\ \A rs : /\ After(rs, Unit("body", n)) = Unit("head", n + 1)
                    /\ After(rs, Unit("head", n)) = IF rs[n].body # "none" THEN Unit("body", n)
                                                    ELSE Unit("head", n + 1)
  BY DEF Unit, Units, After

\* The handler reads the unit it expects, and then expects the one after.
LEMMA StreamRead ==
  ASSUME Types, Stream, inbox # <<>>, inbox' = Tail(inbox), UNCHANGED <<reqs, owed, peer>>,
         Done' \/ (~Done /\ cur' = inbox[1].of /\ (Awaits' <=> After(reqs, inbox[1]).is = "body"))
  PROVE  Stream'
  <1> DEFINE t == Tail(inbox)
             u == inbox[1]
  <1>1. /\ Chain(reqs, inbox) /\ inbox \in Seq(Units) /\ Ends(reqs, inbox, owed)
    BY DEF Stream, Types
  <1>2. /\ Chain(reqs, t) /\ t \in Seq(Units) /\ u \in Units
        /\ t # <<>> => t[1] = After(reqs, u) /\ t[Len(t)] = inbox[Len(inbox)]
        /\ t = <<>> => inbox[Len(inbox)] = u
    BY <1>1, ChainShorter
  <1>3. /\ inbox[Len(inbox)].of = Len(reqs)
        /\ owed <=> inbox[Len(inbox)].is = "head" /\ reqs[Len(reqs)].body # "none"
    BY <1>1 DEF Ends
  <1>4. Ends(reqs, t, owed) BY <1>2, <1>3 DEF Ends
  <1>5. u.of \in Nat /\ u = Unit(u.is, u.of) /\ u.is \in {"head", "body"}
    BY <1>2 DEF Units, Unit
  <1>6. After(reqs, u) = IF u.is = "head" /\ reqs[u.of].body # "none" THEN Unit("body", u.of)
                         ELSE Unit("head", u.of + 1)
    BY DEF After
  <1>7. (After(reqs, u).is = "body") <=> (u.is = "head" /\ reqs[u.of].body # "none")
    BY <1>6 DEF Unit
  <1> HIDE DEF t, u
  <1>8. Chain(reqs', inbox') /\ Ends(reqs', inbox', owed') BY <1>2, <1>4 DEF t
  <1>9. ASSUME ~Done' PROVE /\ inbox' # <<>> => inbox'[1] = Expected'
                            /\ inbox' = <<>> => cur' = Len(reqs') /\ (owed' <=> Awaits')
    <2>1. cur' = u.of /\ (Awaits' <=> (u.is = "head" /\ reqs[u.of].body # "none"))
      BY <1>7, <1>9 DEF u
    <2>2. Expected' = After(reqs, u) BY <1>6, <2>1 DEF Expected
    <2>3. inbox' # <<>> => inbox'[1] = Expected' BY <1>2, <2>2 DEF t
    <2>4. inbox' = <<>> => cur' = Len(reqs') /\ (owed' <=> Awaits')
      BY <1>2, <1>3, <2>1 DEF t
    <2> QED BY <2>3, <2>4
  <1> QED BY <1>8, <1>9 DEF Stream

\* The handler stays at the boundaries of the messages.
LEMMA StreamStep ==
  ASSUME PlainGets, Types, Place, Stream, [Next]_vars
  PROVE  Stream'
  <1>0. /\ inbox \in Seq(Units) /\ Chain(reqs, inbox) /\ Ends(reqs, inbox, owed)
        /\ cur \in Nat /\ Len(reqs) \in Nat /\ reqs \in Seq(Request) /\ close_connection \in BOOLEAN
    BY DEF Types, Stream
  <1>1. CASE Handle /\ ~Parse
    <2>1. /\ UNCHANGED <<reqs, owed, peer, cur>> /\ (ReadBody \/ inbox' = inbox)
      BY <1>1, HandlerKeeps
    <2>2. ASSUME inbox' = inbox, pc \notin {"POST", "framing"}, pc' \notin {"POST", "framing"},
                 ~Done \/ Done'
          PROVE  Stream'
      BY <2>1, <2>2, StreamKept DEF Awaits
    <2>3. ASSUME inbox' = inbox, Done' PROVE Stream' BY <2>1, <2>3, StreamKept
    <2>4. CASE Idle \/ Between
      <3>1. inbox' = inbox BY <2>4 DEF Idle, Between
      <3>2. pc \in {"idle", "between"} /\ pc' \in {"closed", "idle"} /\ (~Done \/ Done')
        BY <2>4 DEF Idle, Between, Done
      <3> QED BY <2>2, <3>1, <3>2
    <2>5. CASE do_GET \/ Door \/ Shed \/ Admit \/ ReadFields \/ Build \/ Run \/ Answer \/ Fault
               \/ Abandon \/ Release
      <3>1. inbox' = inbox /\ pc \notin {"POST", "framing", "between", "closed"}
        BY <2>5 DEF do_GET, Door, Shed, Admit, ReadFields, Build, Run, Answer, Fault, Abandon,
                    Release
      <3>2. pc' \notin {"POST", "framing"}
        <4>1. CASE do_GET \/ Door \/ Shed \/ Admit \/ Run \/ Answer \/ Abandon \/ Release
          BY <4>1 DEF do_GET, Door, Shed, Admit, Run, Answer, Abandon, Release,
                      _request_error, Reply
        <4>2. CASE ReadFields \/ Build \/ Fault
          BY <4>2, RaiseEffect DEF ReadFields, Build, Fault, _request_error, Reply
        <4> QED BY <2>5, <4>1, <4>2
      <3> QED BY <2>2, <3>1, <3>2 DEF Done
    <2>6. CASE do_POST
      <3>1. inbox' = inbox /\ pc = "POST" /\ pc' = "framing" BY <2>6 DEF do_POST
      <3> QED BY <2>1, <3>1, StreamKept DEF Awaits, Done
    <2>7. CASE Misframed
      <3>1. inbox' = inbox BY <2>7 DEF Misframed
      <3>2. \E status, tongue : Reply(status, tongue, "between", TRUE)
        BY <2>7 DEF Misframed, _request_error, Keeps
      <3>3. Done' BY <3>2, ReplyEffect DEF Done
      <3> QED BY <2>3, <3>1, <3>3
    <2>8. CASE Stalled BY <2>3, <2>8 DEF Stalled, Done
    <2>9. CASE CutShort BY <2>1, <2>9, StreamKept DEF CutShort
    <2>10. CASE ReadBody
      <3>1. pc = "framing" /\ pc' = "read" /\ ~Done BY <2>10 DEF ReadBody, Done
      <3>2. CASE ~HasBody
        <4>1. inbox' = inbox BY <2>10, <3>2 DEF ReadBody
        <4>2. ~Awaits /\ ~Awaits' BY <3>1, <3>2 DEF HasBody, Awaits, r
        <4> QED BY <2>1, <3>1, <4>1, <4>2, StreamKept
      <3>3. CASE HasBody
        <4>1. inbox # <<>> /\ inbox' = Tail(inbox) BY <2>10, <3>3 DEF ReadBody
        <4>2. Awaits BY <3>1, <3>3 DEF HasBody, Awaits, r
        <4>3. inbox[1] = Unit("body", cur) BY <3>1, <4>1, <4>2 DEF Stream, Expected
        <4>4. inbox[1].of = cur /\ After(reqs, inbox[1]).is # "body"
          BY <1>0, <4>3, UnitsOf
        <4>5. ~Awaits' BY <3>1 DEF Awaits
        <4> QED BY <2>1, <3>1, <4>1, <4>4, <4>5, StreamRead
      <3> QED BY <3>2, <3>3
    <2> QED BY <1>1, <2>4, <2>5, <2>6, <2>7, <2>8, <2>9, <2>10 DEF Handle
  <1>2. CASE Parse
    <2>1. /\ pc = "idle" /\ inbox # <<>> /\ inbox' = Tail(inbox) /\ ~Done /\ ~Awaits
          /\ UNCHANGED <<reqs, owed, peer>>
      BY <1>2 DEF Parse, client, Done, Awaits
    <2>2. inbox[1] = Unit("head", cur + 1) BY <2>1 DEF Stream, Expected
    <2>3. Head(inbox) = inbox[1] BY <1>0, <2>1, ChainShorter
    <2>4. Head(inbox).is = "head" /\ Head(inbox).of = cur + 1 BY <1>0, <2>2, <2>3, UnitsOf
    <2>5. cur' = cur + 1 BY <1>2, <2>4 DEF Parse
    <2>6. CASE reqs[cur + 1].method = "PUT"
      <3>1. Done' BY <1>2, <2>4, <2>6 DEF Parse, send_error, Done
      <3> QED BY <2>1, <3>1, StreamRead
    <2>7. CASE reqs[cur + 1].method # "PUT"
      <3>1. pc' = reqs[cur + 1].method BY <1>2, <2>4, <2>7 DEF Parse
      <3>2. reqs[cur + 1] \in Request
        <4>1. cur + 1 \in 1..Len(reqs)
          <5>1. 1 \in 1..Len(inbox) BY <1>0, <2>1
          <5>2. inbox[1].of \in 1..Len(reqs) BY <5>1 DEF Types
          <5> QED BY <2>3, <2>4, <5>2
        <4> QED BY <1>0, <4>1
      <3>3. /\ pc' \in {"GET", "POST"} /\ (pc' = "GET" => reqs[cur + 1].body = "none")
        BY <2>7, <3>1, <3>2, ConnectionAssumption DEF PlainGets
      <3>4. Awaits' <=> reqs[cur + 1].body # "none" BY <2>1, <2>5, <3>3 DEF Awaits
      <3>5. (After(reqs, inbox[1]).is = "body") <=> reqs[cur + 1].body # "none"
        BY <1>0, <2>2, UnitsOf
      <3>6. inbox[1].of = cur' BY <2>3, <2>4, <2>5
      <3> QED BY <2>1, <3>4, <3>5, <3>6, StreamRead
    <2> QED BY <2>6, <2>7
  <1>3. ASSUME UNCHANGED <<reqs, owed, cur, inbox, pc, close_connection>>,
               peer' = peer \/ peer' = "gone"
        PROVE  Stream'
    <2>1. Done' = Done /\ Awaits' = Awaits /\ Expected' = Expected
      BY <1>3 DEF Done, Awaits, Expected
    <2>2. Chain(reqs, inbox)' /\ Ends(reqs, inbox, owed)' BY <1>0, <1>3
    <2> QED BY <1>3, <2>1, <2>2 DEF Stream
  <1>4. CASE Depart BY <1>3, <1>4 DEF Depart
  <1>5. CASE UNCHANGED vars BY <1>3, <1>5 DEF vars
  <1>6. CASE SendRest
    <2> DEFINE n == Len(reqs)
               u == Unit("body", n)
    <2>1. /\ peer = "here" /\ owed /\ ~owed' /\ inbox' = Append(inbox, u)
          /\ UNCHANGED <<reqs, cur, pc, close_connection, peer>>
      BY <1>6 DEF SendRest
    <2>2. u \in Units /\ u.of = n /\ u.is = "body" BY <1>0, UnitsOf
    <2>3. inbox # <<>> => u = After(reqs, inbox[Len(inbox)])
      BY <1>0, <2>1 DEF Ends, After
    <2> HIDE DEF u
    <2>4. /\ Chain(reqs, inbox') /\ inbox' # <<>> /\ inbox'[Len(inbox')] = u
          /\ inbox # <<>> => inbox'[1] = inbox[1]
          /\ inbox = <<>> => inbox'[1] = u
      BY <1>0, <2>1, <2>2, <2>3, ChainLonger
    <2>5. Ends(reqs, inbox', owed') BY <2>1, <2>2, <2>4 DEF Ends
    <2>6. Done' = Done /\ Awaits' = Awaits /\ Expected' = Expected
      BY <2>1 DEF Done, Awaits, Expected
    <2>7. ~Done => inbox'[1] = Expected
      <3>1. CASE inbox # <<>> BY <2>4, <3>1 DEF Stream
      <3>2. CASE inbox = <<>> BY <2>1, <2>4, <3>2 DEF Stream, Expected, u
      <3> QED BY <3>1, <3>2
    <2> QED BY <2>1, <2>4, <2>5, <2>6, <2>7 DEF Stream
  <1>7. CASE Ask
    <2> DEFINE n == Len(reqs) + 1
               h == Unit("head", n)
               b == Unit("body", n)
    <2>1. /\ n \in Nat /\ Len(reqs') = n /\ peer = "here" /\ ~owed
          /\ UNCHANGED <<cur, pc, close_connection, peer>>
          /\ \A k \in 1..Len(reqs) : reqs'[k] = reqs[k]
          /\ \/ (owed' <=> reqs'[n].body # "none") /\ inbox' = Append(inbox, h)
             \/ reqs'[n].body # "none" /\ ~owed' /\ inbox' = Append(Append(inbox, h), b)
      BY <1>7, AskEffect
    <2>2. /\ h \in Units /\ h.of = n /\ h.is = "head" /\ b \in Units /\ b.of = n /\ b.is = "body"
          /\ reqs'[n].body # "none" => b = After(reqs', h)
      BY <2>1, UnitsOf
    <2>3. /\ \A i \in 1..Len(inbox) : After(reqs', inbox[i]) = After(reqs, inbox[i])
          /\ Chain(reqs', inbox)
      <3>1. ASSUME NEW i \in 1..Len(inbox)
            PROVE  After(reqs', inbox[i]) = After(reqs, inbox[i])
        <4>1. inbox[i].of \in 1..Len(reqs) BY DEF Types
        <4> QED BY <2>1, <4>1 DEF After
      <3>2. ASSUME NEW i \in 1..(Len(inbox) - 1) PROVE inbox[i + 1] = After(reqs', inbox[i])
        <4>1. i \in 1..Len(inbox) BY <1>0
        <4>2. inbox[i + 1] = After(reqs, inbox[i]) BY <1>0 DEF Chain
        <4> QED BY <3>1, <4>1, <4>2
      <3> QED BY <3>1, <3>2 DEF Chain
    <2>4. inbox # <<>> => h = After(reqs', inbox[Len(inbox)])
      <3>1. inbox # <<>> => Len(inbox) \in 1..Len(inbox) BY <1>0
      <3>2. inbox # <<>> => h = After(reqs, inbox[Len(inbox)])
        BY <1>0, <2>1 DEF Ends, After
      <3> QED BY <2>3, <3>1, <3>2
    <2> DEFINE s == Append(inbox, h)
    <2> HIDE DEF h, b
    <2>5. /\ Chain(reqs', s) /\ s \in Seq(Units) /\ s # <<>> /\ s[Len(s)] = h
          /\ inbox # <<>> => s[1] = inbox[1]
          /\ inbox = <<>> => s[1] = h
      BY <1>0, <2>2, <2>3, <2>4, ChainLonger
    <2>6. reqs'[n].body # "none" =>
            /\ Chain(reqs', Append(s, b)) /\ Append(s, b) # <<>> /\ Append(s, b)[1] = s[1]
            /\ Append(s, b)[Len(Append(s, b))] = b
      <3> HIDE DEF s, n
      <3> QED BY <2>2, <2>5, ChainLonger
    <2>7. /\ Chain(reqs', inbox') /\ inbox' # <<>>
          /\ inbox # <<>> => inbox'[1] = inbox[1]
          /\ inbox = <<>> => inbox'[1] = h
          /\ Ends(reqs', inbox', owed')
      <3>1. CASE (owed' <=> reqs'[n].body # "none") /\ inbox' = s
        BY <2>1, <2>2, <2>5, <3>1 DEF Ends
      <3>2. CASE reqs'[n].body # "none" /\ ~owed' /\ inbox' = Append(s, b)
        <4>1. Ends(reqs', inbox', owed') BY <2>1, <2>2, <2>6, <3>2 DEF Ends
        <4> QED BY <2>5, <2>6, <3>2, <4>1
      <3> QED BY <2>1, <3>1, <3>2
    <2>8. Done' = Done /\ (~Done => (Awaits' <=> Awaits) /\ Expected' = Expected)
      <3>1. pc \in {"POST", "framing"} => reqs'[cur] = reqs[cur] BY <2>1 DEF Types
      <3>2. Done' = Done /\ (Awaits' <=> Awaits) BY <2>1, <3>1 DEF Done, Awaits
      <3> QED BY <2>1, <3>2 DEF Expected
    <2>9. ~Done => inbox'[1] = Expected
      <3>1. CASE inbox # <<>> BY <2>7, <3>1 DEF Stream
      <3>2. CASE inbox = <<>> BY <2>1, <2>7, <3>2 DEF Stream, Expected, h
      <3> QED BY <3>1, <3>2
    <2> QED BY <2>7, <2>8, <2>9 DEF Stream
  <1> QED BY <1>1, <1>2, <1>4, <1>5, <1>6, <1>7 DEF Next

-----------------------------------------------------------------------------
(***************************************************************************)
(* The answers, which come up to the request the handler is in or to the   *)
(* one before; and whose fault each says it is.                            *)
(***************************************************************************)
AtFault == {"400", "404", "411", "413", "4xx"}
Status == AtFault \cup {"200", "200_SSE", "429", "500", "503", "529", "too_long", "dropped",
                        "closed"}
Tongue == {"openai", "anthropic", "none", "html"}

Replied ==
  pc \in {"idle", "between", "closed", "leaving"} \/ (pc = "answering" /\ _headers_sent)
Upto == IF Replied THEN cur ELSE cur - 1

\* No field makes the reader of the fields fail as if the server had.
Readable == \A a \in Request : a.fields.sampler # "infinite"

\* What may be said of the request the handler is in, and where.
Says(status, tongue) ==
  /\ status \in Status /\ tongue \in {Asked(r), "none"}
  /\ IF status = "closed" THEN pc = "answering" /\ _headers_sent ELSE ~Replied
  /\ status \in AtFault => Malformed(r)
  /\ status = "500" /\ Readable => ~Malformed(r)

\* Once a request has been read and rendered, nothing is wrong with it.
LEMMA NothingWrong ==
  ASSUME Types, Place, pc = "answering"
  PROVE  ~Malformed(r)
  <1>1. /\ q.entry = "good" /\ q.text # "surrogate" /\ Read(r.path, q) = "good"
        /\ r.framing = "length" /\ r.method = "POST" /\ Refuses = "none"
    BY DEF Place, Holding
  <1>2. ~Wrong(q, r.path) BY <1>1, ReadIsRight, TheRequest
  <1>3. r.body \notin {"garbage", "list"} BY <1>1 DEF Refuses
  <1>4. r.path \in {"chat", "messages"} BY <1>1, <1>3 DEF Refuses
  <1>5. ~(q.tools # "none" /\ ~TOOLS_OK) BY <1>1, <1>3, <1>4 DEF Refuses
  <1>6. r.body = "object"
    <2>1. q.messages = "list" BY <1>2 DEF Wrong
    <2> QED BY <1>3, <2>1, TheRequest
  <1> QED BY <1>1, <1>2, <1>4, <1>5, <1>6 DEF Malformed, q

\* The four refusals at the door and what each means.
LEMMA RefusedIsMalformed ==
  ASSUME Types, Place, pc = "read", Refuses # "none"
  PROVE  Refuses \in {"400", "404"} /\ Malformed(r)
  <1>1. r.method = "POST" BY DEF Place
  <1>2. \/ r.body \in {"garbage", "list"} \/ r.path \notin {"chat", "messages"}
        \/ q.tools # "none" /\ ~TOOLS_OK
    BY DEF Refuses
  <1>3. Refuses \in {"400", "404"} BY <1>2 DEF Refuses
  <1> QED BY <1>1, <1>2, <1>3 DEF Malformed, q

\* So do the refusals of the fields.
LEMMA ReadIsWrong ==
  ASSUME NEW path, NEW f \in Fields, Read(path, f) # "good"
  PROVE  /\ Read(path, f) \in {"refused", "type", "overflow"} /\ Wrong(f, path)
         /\ Read(path, f) = "overflow" => f.sampler = "infinite"
  <1>1. CASE f.messages # "list" \/ f.tools = "other" \/ _max_tokens(f) = "refused"
    <2>1. Read(path, f) = "refused" BY <1>1 DEF Read, Invalid
    <2>2. ASSUME _max_tokens(f) = "refused"
          PROVE  \/ f.max_tokens \in {"negative", "nonsense"}
                 \/ /\ f.max_tokens = "unset"
                    /\ f.max_completion_tokens \in {"negative", "nonsense"}
      <3>1. /\ f.max_tokens \in {"unset", "small", "huge", "negative", "nonsense"}
            /\ f.max_completion_tokens \in {"unset", "small", "huge", "negative", "nonsense"}
        BY DEF Fields
      <3> QED BY <2>2, <3>1 DEF _max_tokens, _parse_token_cap
    <2> QED BY <1>1, <2>1, <2>2 DEF Wrong
  <1>2. CASE ~(f.messages # "list" \/ f.tools = "other" \/ _max_tokens(f) = "refused")
    <2>1. CASE f.stop = "number" \/ f.sampler = "text" BY <1>2, <2>1 DEF Read, Invalid, Wrong
    <2>2. CASE ~(f.stop = "number" \/ f.sampler = "text") /\ f.sampler = "infinite"
      BY <1>2, <2>2 DEF Read, Invalid, Wrong
    <2>3. CASE ~(f.stop = "number" \/ f.sampler = "text") /\ f.sampler # "infinite"
      BY <1>2, <2>3 DEF Read, Invalid, Wrong
    <2> QED BY <2>1, <2>2, <2>3
  <1> QED BY <1>1, <1>2

\* What a step of the handler, other than Parse, adds to the answers: to a
\* client that is there, one that may be said where it is said; and none
\* without the client, or to a request that keeps waiting for it or has it.
LEMMA HandlerSays ==
  ASSUME Types, Place, Handle, ~Parse
  PROVE  \/ /\ answers' = answers
            /\ peer = "gone" \/ (Replied' <=> Replied)
            /\ peer = "here" /\ pc' = "answering" => ~_headers_sent'
         \/ /\ peer = "here" /\ Replied'
            /\ \E status \in Status, tongue \in Tongue :
                 /\ Says(status, tongue) /\ answers' = Append(answers, Told(status, tongue))
                 /\ pc' = "answering" => status = "200_SSE"
  <1> DEFINE Nothing == /\ answers' = answers
                        /\ peer = "gone" \/ (Replied' <=> Replied)
                        /\ peer = "here" /\ pc' = "answering" => ~_headers_sent'
             Something == /\ peer = "here" /\ Replied'
                          /\ \E status \in Status, tongue \in Tongue :
                               /\ Says(status, tongue)
                               /\ answers' = Append(answers, Told(status, tongue))
                               /\ pc' = "answering" => status = "200_SSE"
  <1>0. peer \in {"here", "gone"} /\ UNCHANGED cur BY HandlerKeeps DEF Types
  <1>1. ASSUME NEW status \in Status, NEW tongue \in Tongue, NEW place, NEW close \in BOOLEAN,
               Reply(status, tongue, place, close), Says(status, tongue),
               place \in {"between", "leaving"} \/ (place = "answering" /\ status = "200_SSE")
        PROVE  Nothing \/ Something
    <2>1. _headers_sent' = TRUE /\ pc' = place BY <1>1, ReplyEffect
    <2>2. Replied' BY <1>1, <2>1 DEF Replied
    <2>3. CASE peer = "here" BY <1>1, <2>1, <2>2, <2>3, ReplyEffect
    <2>4. CASE peer # "here"
      <3>1. answers' = answers BY <1>1, <2>4, ReplyEffect
      <3> QED BY <1>0, <2>4, <3>1
    <2> QED BY <2>3, <2>4
  <1>2. pc \notin {"idle", "between", "closed"} => Envelope(r.path) \in Tongue
    BY DEF Envelope, Tongue
  <1>3. pc \in {"framing", "read", "gate"} \cup (Holding \ {"leaving"}) =>
          Asked(r) = Envelope(r.path)
    BY DEF Asked, Place
  <1>4. close_connection \in BOOLEAN /\ TRUE \in BOOLEAN BY DEF Types
  <1>5. AtFault \subseteq Status /\ {"openai", "none"} \subseteq Tongue
        /\ {"200", "200_SSE", "429", "500", "503", "529", "too_long", "dropped", "closed"}
             \subseteq Status \ AtFault
    BY DEF Status, AtFault, Tongue
  <1>6. ASSUME NEW status \in Status \ (AtFault \cup {"500", "closed"}), NEW tongue \in Tongue,
               tongue \in {Asked(r), "none"}, ~Replied
        PROVE  Says(status, tongue)
    BY <1>6 DEF Says
  <1>7. ASSUME NEW status \in AtFault, NEW tongue \in Tongue, tongue \in {Asked(r), "none"},
               ~Replied, Malformed(r)
        PROVE  Says(status, tongue)
    BY <1>5, <1>7 DEF Says, AtFault
  <1>10. CASE Idle \/ Between \/ do_POST \/ ReadBody \/ Admit
    <2>1. answers' = answers
      BY <1>10 DEF Idle, Between, do_POST, ReadBody, Admit
    <2>2. \/ pc \in {"idle", "between"} /\ pc' \in {"idle", "closed"}
          \/ pc \in {"POST", "framing", "gate"} /\ pc' \in {"framing", "read", "fields"}
      BY <1>10 DEF Idle, Between, do_POST, ReadBody, Admit
    <2> QED BY <2>1, <2>2 DEF Replied
  <1>11. CASE do_GET
    <2>1. pc = "GET" /\ r.method = "GET" /\ ~Replied BY <1>11 DEF do_GET, Place, Replied
    <2>2. Asked(r) = "openai" BY <2>1 DEF Asked
    <2>3. CASE r.path \in {"health", "models"}
      <3>1. PICK status \in {"200", "503"} :
              Reply(status, "openai", "between", close_connection)
        BY <1>11, <2>3 DEF do_GET
      <3>2. status \in Status \ (AtFault \cup {"500", "closed"})
        BY DEF Status, AtFault
      <3> QED BY <1>1, <1>4, <1>5, <1>6, <2>1, <2>2, <3>1, <3>2
    <2>4. CASE r.path \notin {"health", "models"}
      <3>1. Reply("404", "openai", "between", close_connection)
        BY <1>11, <2>4 DEF do_GET
      <3>2. Malformed(r) /\ "404" \in AtFault BY <2>1, <2>4 DEF Malformed, AtFault
      <3> QED BY <1>1, <1>4, <1>5, <1>7, <2>1, <2>2, <3>1, <3>2
    <2> QED BY <2>3, <2>4
  <1>12. CASE Misframed
    <2>1. pc = "framing" /\ ~Replied /\ r.framing # "length" /\ r.method = "POST"
      BY <1>12 DEF Misframed, Replied, Place
    <2>2. PICK status \in {"411", "413", "400"} :
            Reply(status, Envelope(r.path), "between", TRUE)
      BY <1>12 DEF Misframed, Keeps, _request_error
    <2>3. status \in AtFault /\ Malformed(r) BY <2>1 DEF AtFault, Malformed
    <2> QED BY <1>1, <1>2, <1>3, <1>4, <1>5, <1>7, <2>1, <2>2, <2>3
  <1>13. CASE Stalled
    <2>1. /\ pc = "framing" /\ ~Replied /\ pc' = "between" /\ Replied'
          /\ \/ peer = "here" /\ answers' = Append(answers, Told("dropped", "none"))
             \/ peer # "here" /\ answers' = answers
      BY <1>13 DEF Stalled, Replied
    <2>2. "dropped" \in Status \ (AtFault \cup {"500", "closed"}) BY DEF Status, AtFault
    <2>3. Says("dropped", "none") BY <1>5, <1>6, <2>1, <2>2
    <2> QED BY <1>0, <1>5, <2>1, <2>2, <2>3
  <1>14. CASE CutShort
    <2>1. peer = "gone" /\ \E status, tongue, close :
                             Reply(status, tongue, "between", close)
      BY <1>14 DEF CutShort, _request_error
    <2>2. answers' = answers BY <2>1 DEF Reply
    <2> QED BY <2>1, <2>2
  <1>15. CASE Door
    <2>1. pc = "read" /\ ~Replied BY <1>15 DEF Door, Replied
    <2>2. CASE Refuses = "none" BY <1>15, <2>1, <2>2 DEF Door, Replied
    <2>3. CASE Refuses # "none"
      <3>1. Reply(Refuses, Envelope(r.path), "between", close_connection)
        BY <1>15, <2>3 DEF Door, _request_error
      <3>2. Refuses \in AtFault /\ Malformed(r)
        BY <2>1, <2>3, RefusedIsMalformed DEF AtFault
      <3> QED BY <1>1, <1>2, <1>3, <1>4, <1>5, <1>7, <2>1, <3>1, <3>2
    <2> QED BY <2>2, <2>3
  <1>16. CASE Shed
    <2>1. pc = "gate" /\ ~Replied BY <1>16 DEF Shed, Replied
    <2>2. PICK status \in {"503", "529", "429"} :
            Reply(status, Envelope(r.path), "between", close_connection)
      BY <1>16 DEF Shed, _request_error
    <2>3. status \in Status \ (AtFault \cup {"500", "closed"}) BY DEF Status, AtFault
    <2> QED BY <1>1, <1>2, <1>3, <1>4, <1>5, <1>6, <2>1, <2>2, <2>3
  <1>17. ASSUME NEW kind, Raise(kind), pc \in {"fields", "build"},
                kind = "type" => Malformed(r), kind # "type" /\ Readable => ~Malformed(r)
         PROVE  Nothing \/ Something
    <2>1. ~Replied /\ ~_headers_sent /\ ~_generating BY <1>17 DEF Replied, Place
    <2> DEFINE status == IF kind = "type" THEN "400" ELSE "500"
    <2>2. Reply(status, Envelope(r.path), "leaving", close_connection)
      BY <1>17, <2>1 DEF Raise, _request_error
    <2>3. Says(status, Envelope(r.path)) /\ status \in Status
      BY <1>2, <1>3, <1>17, <2>1 DEF Says, Status, AtFault, Holding
    <2> HIDE DEF status, Nothing, Something
    <2> QED BY <1>1, <1>2, <1>4, <1>17, <2>2, <2>3
  <1>18. CASE ReadFields
    <2>1. pc = "fields" /\ ~Replied /\ q \in Fields /\ r \in Request
          /\ r.method = "POST"
      BY <1>18, TheRequest DEF ReadFields, Replied, Place, Holding
    <2>2. CASE Read(r.path, q) = "good"
      BY <1>18, <2>1, <2>2 DEF ReadFields, Replied
    <2>3. CASE Read(r.path, q) # "good"
      <3>1. Malformed(r) BY <2>1, <2>3, ReadIsWrong DEF Malformed, q
      <3>2. CASE Read(r.path, q) = "refused"
        <4>1. Reply("400", Envelope(r.path), "leaving", close_connection)
          BY <1>18, <3>2 DEF ReadFields, _request_error
        <4>2. "400" \in AtFault BY DEF AtFault
        <4>3. Envelope(r.path) \in Tongue /\ Envelope(r.path) = Asked(r)
          BY <1>2, <1>3, <2>1 DEF Holding
        <4> QED BY <1>1, <1>4, <1>5, <1>7, <2>1, <3>1, <4>1, <4>2, <4>3
      <3>3. CASE Read(r.path, q) \in {"type", "overflow"}
        <4>1. Raise(Read(r.path, q)) BY <1>18, <3>3 DEF ReadFields
        <4>2. Read(r.path, q) # "type" => ~Readable
          BY <2>1, <2>3, <3>3, ReadIsWrong DEF Readable, q
        <4> QED BY <1>17, <2>1, <3>1, <3>3, <4>1, <4>2
      <3> QED BY <2>1, <2>3, <3>2, <3>3, ReadIsWrong
    <2> QED BY <2>2, <2>3
  <1>19. CASE Build
    <2>1. pc = "build" /\ ~Replied /\ r.method = "POST"
          /\ Envelope(r.path) \in Tongue /\ Envelope(r.path) = Asked(r)
      BY <1>2, <1>3, <1>19 DEF Build, Replied, Place, Holding
    <2>2. CASE q.entry = "bad"
      <3>1. Malformed(r) BY <2>1, <2>2 DEF Malformed, Wrong, q
      <3>2. Raise("type") BY <1>19, <2>2 DEF Build
      <3> QED BY <1>17, <2>1, <3>1, <3>2
    <2>3. CASE Reply("too_long", Envelope(r.path), "leaving", close_connection)
      <3>1. "too_long" \in Status \ (AtFault \cup {"500", "closed"}) BY DEF Status, AtFault
      <3> QED BY <1>1, <1>4, <1>6, <2>1, <2>3, <3>1
    <2>4. CASE /\ q.text = "surrogate"
               /\ Reply("400", Envelope(r.path), "leaving", close_connection)
      <3>1. Malformed(r) /\ "400" \in AtFault BY <2>1, <2>4 DEF Malformed, AtFault, q
      <3> QED BY <1>1, <1>4, <1>5, <1>7, <2>1, <2>4, <3>1
    <2>5. CASE pc' = "run" /\ answers' = answers BY <2>1, <2>5 DEF Replied
    <2> QED BY <1>19, <2>2, <2>3, <2>4, <2>5 DEF Build, _request_error
  <1>20. CASE Run
    <2>1. pc = "run" /\ ~Replied /\ ~_headers_sent
          /\ Envelope(r.path) \in Tongue /\ Envelope(r.path) = Asked(r)
      BY <1>2, <1>3, <1>20 DEF Run, Replied, Place, Holding
    <2>2. CASE q.stream
      <3>1. PICK place \in {"answering"} \cup (IF peer = "gone" THEN {"leaving"} ELSE {}) :
              Reply("200_SSE", Envelope(r.path), place, TRUE)
        BY <1>20, <2>2 DEF Run
      <3>2. place \in {"answering", "leaving"} OBVIOUS
      <3>3. "200_SSE" \in Status \ (AtFault \cup {"500", "closed"}) BY DEF Status, AtFault
      <3> QED BY <1>1, <1>4, <1>6, <2>1, <3>1, <3>2, <3>3
    <2>3. CASE ~q.stream /\ ~_client_gone
      <3>1. /\ pc' = "answering" /\ _headers_sent' = _headers_sent /\ answers' = answers
        BY <1>20, <2>3 DEF Run
      <3>2. ~_headers_sent' /\ ~Replied' BY <2>1, <3>1 DEF Replied
      <3> QED BY <2>1, <3>1, <3>2
    <2>4. CASE ~q.stream /\ _client_gone
      BY <1>20, <2>4 DEF Run, _client_gone
    <2> QED BY <2>2, <2>3, <2>4
  <1>21. CASE Answer \/ Fault
    <2>1. pc = "answering" /\ pc' = "leaving" /\ Replied' /\ _headers_sent = q.stream
          /\ _generating
          /\ Envelope(r.path) \in Tongue /\ Envelope(r.path) = Asked(r) /\ ~Malformed(r)
      <3>1. pc = "answering" BY <1>21 DEF Answer, Fault
      <3>2. pc' = "leaving" BY <1>21, RaiseEffect DEF Answer, Fault, Reply
      <3> QED BY <1>2, <1>3, <3>1, <3>2, NothingWrong DEF Replied, Place, Holding
    <2>2. ASSUME NEW status \in {"200", "500", "503"}, ~_headers_sent,
                 Reply(status, Envelope(r.path), "leaving", close_connection)
          PROVE  Nothing \/ Something
      <3>1. ~Replied BY <2>1, <2>2 DEF Replied
      <3>2. Says(status, Envelope(r.path)) /\ status \in Status
        BY <2>1, <2>2, <3>1 DEF Says, Status, AtFault
      <3> QED BY <1>1, <1>4, <2>1, <2>2, <3>2
    <2>3. CASE Answer /\ q.stream BY <2>1, <2>3 DEF Answer, Replied
    <2>4. CASE Answer /\ ~q.stream BY <2>1, <2>2, <2>4 DEF Answer
    <2>5. CASE Fault /\ ~_headers_sent
      <3>1. Reply("500", Envelope(r.path), "leaving", close_connection)
        BY <2>1, <2>5 DEF Fault, Raise, _request_error
      <3> QED BY <2>2, <2>5, <3>1
    <2>6. CASE Fault /\ _headers_sent
      <3>1. answers' = IF peer = "here" THEN Append(answers, Told("closed", "none")) ELSE answers
        BY <2>6 DEF Fault, Raise
      <3>2. Says("closed", "none") /\ "closed" \in Status /\ "none" \in Tongue
        BY <2>1, <2>6 DEF Says, Status, AtFault, Tongue
      <3> QED BY <1>0, <2>1, <3>1, <3>2
    <2> QED BY <1>21, <2>3, <2>4, <2>5, <2>6
  <1>22. CASE Abandon \/ Release
    <2>1. answers' = answers BY <1>22 DEF Abandon, Release
    <2>2. pc' # "answering" /\ (peer = "gone" \/ (Replied' <=> Replied))
      BY <1>22 DEF Abandon, Release, _client_gone, Replied
    <2> QED BY <2>1, <2>2
  <1> HIDE DEF Nothing, Something
  <1> QED BY <1>10, <1>11, <1>12, <1>13, <1>14, <1>15, <1>16, <1>18, <1>19, <1>20, <1>21,
             <1>22 DEF Handle, Nothing, Something

-----------------------------------------------------------------------------
(***************************************************************************)
(* The answers on the wire.  Each is right by itself and after the one     *)
(* before it; and while the client is there they have come up to the       *)
(* request that Upto names, with none left out.                            *)
(***************************************************************************)
AnswerRecord == [to : Nat, status : Status, tongue : Tongue]
LastOf(told) == told[Len(told)]

Right(rs, told, i) ==
  /\ told[i].to \in 1..Len(rs)
  /\ told[i].tongue \in {Asked(rs[told[i].to]), "none", "html"}
  /\ told[i].tongue = "html" => rs[told[i].to].method = "PUT"
  /\ told[i].status = "closed" =>
       i > 1 /\ told[i - 1].to = told[i].to /\ told[i - 1].status \in {"200", "200_SSE"}
  /\ i > 1 /\ told[i].status # "closed" => told[i].to = told[i - 1].to + 1
  /\ i = 1 => told[i].to = 1
  /\ told[i].status \in AtFault => Malformed(rs[told[i].to])
  /\ told[i].status = "500" /\ Readable => ~Malformed(rs[told[i].to])

Answering ==
  /\ answers \in Seq(AnswerRecord)
  /\ \A i \in 1..Len(answers) : Right(reqs, answers, i)
  /\ peer = "here" =>
       /\ Upto = IF answers = <<>> THEN 0 ELSE LastOf(answers).to
       /\ \A n \in 1..Upto : \E i \in 1..Len(answers) : answers[i].to = n
       /\ pc = "answering" /\ _headers_sent =>
            answers # <<>> /\ LastOf(answers).status = "200_SSE"

\* How far the answers have come is a number.
LEMMA UptoIsNat ==
  ASSUME Types
  PROVE  /\ Upto \in Nat /\ cur \in Nat /\ Len(reqs) \in Nat /\ cur <= Len(reqs)
         /\ Upto <= Len(reqs)
  <1>1. cur \in Nat /\ Len(reqs) \in Nat /\ cur <= Len(reqs) BY DEF Types
  <1>2. CASE Replied BY <1>1, <1>2 DEF Upto
  <1>3. CASE ~Replied
    <2>1. cur \in 1..Len(reqs) BY <1>3 DEF Types, Replied
    <2> QED BY <1>1, <1>3, <2>1 DEF Upto
  <1> QED BY <1>1, <1>2, <1>3

\* What was right stays right when more is asked.
LEMMA RightStays ==
  ASSUME NEW rs, NEW rs2, NEW told, NEW i, Len(rs) \in Nat, Len(rs2) \in Nat,
         Len(rs2) >= Len(rs), \A k \in 1..Len(rs) : rs2[k] = rs[k], Right(rs, told, i)
  PROVE  Right(rs2, told, i)
  <1>1. told[i].to \in 1..Len(rs) BY DEF Right
  <1>2. told[i].to \in 1..Len(rs2) /\ rs2[told[i].to] = rs[told[i].to] BY <1>1
  <1>3. /\ Asked(rs2[told[i].to]) = Asked(rs[told[i].to])
        /\ Malformed(rs2[told[i].to]) = Malformed(rs[told[i].to])
        /\ rs2[told[i].to].method = rs[told[i].to].method
    BY <1>2
  <1> QED BY <1>2, <1>3 DEF Right

\* Nothing is said, and the answers have come as far as they had, or the
\* client is gone.
LEMMA SaysNothing ==
  ASSUME Types, Types', Answering, answers' = answers, Len(reqs') >= Len(reqs),
         \A k \in 1..Len(reqs) : reqs'[k] = reqs[k],
         \/ peer' # "here"
         \/ /\ peer = "here" /\ Upto' = Upto
            /\ pc' = "answering" /\ _headers_sent' => pc = "answering" /\ _headers_sent
  PROVE  Answering'
  <1>1. Len(reqs) \in Nat /\ Len(reqs') \in Nat BY DEF Types
  <1>2. ASSUME NEW i \in 1..Len(answers') PROVE Right(reqs', answers', i)
    <2>1. Right(reqs, answers, i) BY <1>2 DEF Answering
    <2> QED BY <1>1, <2>1, RightStays
  <1>3. answers' \in Seq(AnswerRecord) BY DEF Answering
  <1>4. ASSUME peer' = "here"
        PROVE  /\ Upto' = IF answers' = <<>> THEN 0 ELSE LastOf(answers').to
               /\ \A n \in 1..Upto' : \E i \in 1..Len(answers') : answers'[i].to = n
               /\ pc' = "answering" /\ _headers_sent' =>
                    answers' # <<>> /\ LastOf(answers').status = "200_SSE"
    BY <1>4 DEF Answering
  <1> QED BY <1>2, <1>3, <1>4 DEF Answering

\* A sequence of answers with one more.
LEMMA OneMore ==
  ASSUME NEW s \in Seq(AnswerRecord), NEW a \in AnswerRecord
  PROVE  /\ Len(s) \in Nat /\ Append(s, a) \in Seq(AnswerRecord)
         /\ Len(Append(s, a)) = Len(s) + 1 /\ Append(s, a)[Len(s) + 1] = a
         /\ \A i \in 1..Len(s) : Append(s, a)[i] = s[i]
         /\ s = <<>> <=> Len(s) = 0
         /\ Append(s, a) # <<>>
  BY AppendProperties, EmptySeq

\* A right answer to the next request, or the end of the response to the
\* one that has its status.
LEMMA SaysMore ==
  ASSUME Types, Types', Answering, peer = "here", UNCHANGED reqs, NEW a \in AnswerRecord,
         answers' = Append(answers, a), Upto' = a.to, a.to \in 1..Len(reqs),
         a.tongue \in {Asked(reqs[a.to]), "none", "html"},
         a.tongue = "html" => reqs[a.to].method = "PUT",
         a.status # "closed" => a.to = Upto + 1,
         a.status = "closed" => a.to = Upto /\ pc = "answering" /\ _headers_sent,
         a.status \in AtFault => Malformed(reqs[a.to]),
         a.status = "500" /\ Readable => ~Malformed(reqs[a.to]),
         pc' = "answering" => a.status = "200_SSE"
  PROVE  Answering'
  <1> DEFINE told == Append(answers, a)
             n == Len(answers)
  <1>0. answers \in Seq(AnswerRecord) BY DEF Answering
  <1>1. /\ n \in Nat /\ told \in Seq(AnswerRecord) /\ Len(told) = n + 1 /\ told[n + 1] = a
        /\ \A i \in 1..n : told[i] = answers[i]
        /\ answers = <<>> <=> n = 0
        /\ told # <<>>
    BY <1>0, OneMore
  <1>3. Upto \in Nat BY UptoIsNat
  <1>2. Upto = IF answers = <<>> THEN 0 ELSE answers[n].to BY DEF Answering, LastOf
  <1>4. \A k \in 1..Upto : \E i \in 1..n : answers[i].to = k BY DEF Answering
  <1>10. a.status = "closed" => answers # <<>> /\ answers[n].status = "200_SSE"
    BY DEF Answering, LastOf
  <1>11. \A i \in 1..n : Right(reqs, answers, i) BY DEF Answering
  <1> HIDE DEF told, n
  <1>5. Right(reqs, told, n + 1)
    <2>1. CASE n = 0
      <3>1. Upto = 0 /\ a.status # "closed" BY <1>1, <1>2, <1>10, <2>1
      <3> QED BY <1>1, <2>1, <3>1 DEF Right
    <2>2. CASE n # 0
      <3>1. /\ n + 1 > 1 /\ n + 1 # 1 /\ (n + 1) - 1 = n /\ told[n] = answers[n]
            /\ answers[n].to = Upto
        BY <1>1, <1>2, <2>2
      <3>2. a.status = "closed" => answers[n].status = "200_SSE" BY <1>10
      <3> QED BY <1>1, <3>1, <3>2 DEF Right
    <2> QED BY <2>1, <2>2
  <1>6. ASSUME NEW i \in 1..Len(told) PROVE Right(reqs, told, i)
    <2>1. CASE i = n + 1 BY <1>5, <2>1
    <2>2. CASE i # n + 1
      <3>1. i \in 1..n /\ (i > 1 => i - 1 \in 1..n) BY <1>1, <2>2
      <3>2. told[i] = answers[i] /\ (i > 1 => told[i - 1] = answers[i - 1]) BY <1>1, <3>1
      <3>3. Right(reqs, answers, i) BY <1>11, <3>1
      <3> QED BY <3>2, <3>3 DEF Right
    <2> QED BY <2>1, <2>2
  <1>7. ASSUME NEW k \in 1..a.to PROVE \E i \in 1..Len(told) : told[i].to = k
    <2>1. CASE k = a.to BY <1>1, <2>1
    <2>2. CASE k # a.to
      <3>1. k \in 1..Upto BY <1>3, <2>2
      <3>2. PICK i \in 1..n : answers[i].to = k BY <1>4, <3>1
      <3> QED BY <1>1, <3>2
    <2> QED BY <2>1, <2>2
  <1>8. LastOf(told) = a BY <1>1 DEF LastOf
  <1>9. answers' = told /\ reqs' = reqs BY DEF told
  <1> QED BY <1>1, <1>6, <1>7, <1>8, <1>9 DEF Answering

\* Every answer is right when it is given.
LEMMA AnsweringStep ==
  ASSUME Types, Types', Place, Stream, Answering, [Next]_vars
  PROVE  Answering'
  <1>0. /\ peer \in {"here", "gone"} /\ Len(reqs) \in Nat /\ cur \in Nat /\ Upto \in Nat
    BY UptoIsNat DEF Types
  <1>1. CASE Handle /\ ~Parse
    <2>1. UNCHANGED <<reqs, peer, cur>> BY <1>1, HandlerKeeps
    <2>2. CASE /\ answers' = answers
               /\ peer = "gone" \/ (Replied' <=> Replied)
               /\ peer = "here" /\ pc' = "answering" => ~_headers_sent'
      <3>1. peer = "here" => Upto' = Upto BY <2>1, <2>2 DEF Upto
      <3> QED BY <1>0, <2>1, <2>2, <3>1, SaysNothing
    <2>3. ASSUME NEW status \in Status, NEW tongue \in Tongue, peer = "here", Replied',
                 Says(status, tongue), answers' = Append(answers, Told(status, tongue)),
                 pc' = "answering" => status = "200_SSE"
          PROVE  Answering'
      <3> DEFINE a == Told(status, tongue)
      <3>1. a \in AnswerRecord /\ a.to = cur /\ a.status = status /\ a.tongue = tongue
        BY <1>0 DEF Told, AnswerRecord
      <3>2. cur \in 1..Len(reqs) BY <2>3 DEF Says, Types, Replied
      <3>3. Upto' = cur BY <2>1, <2>3 DEF Upto
      <3>4. status # "closed" => cur = Upto + 1
        <4>1. status # "closed" => ~Replied BY <2>3 DEF Says
        <4>2. ~Replied => Upto = cur - 1 BY DEF Upto
        <4> QED BY <1>0, <4>1, <4>2
      <3>5. status = "closed" => cur = Upto /\ pc = "answering" /\ _headers_sent
        BY <2>3 DEF Says, Upto, Replied
      <3>6. /\ tongue \in {Asked(reqs[cur]), "none", "html"}
            /\ status \in AtFault => Malformed(reqs[cur])
            /\ status = "500" /\ Readable => ~Malformed(reqs[cur])
        BY <2>3 DEF Says, r
      <3>7. tongue # "html"
        BY <2>3 DEF Says, Asked, Envelope
      <3> HIDE DEF a
      <3>8. answers' = Append(answers, a) BY <2>3 DEF a
      <3> QED BY <2>1, <2>3, <3>1, <3>2, <3>3, <3>4, <3>5, <3>6, <3>7, <3>8, SaysMore
    <2> QED BY <1>1, <2>2, <2>3, HandlerSays
  <1>2. CASE Parse
    <2>1. /\ pc = "idle" /\ inbox # <<>> /\ inbox' = Tail(inbox) /\ ~Done /\ ~Awaits
          /\ UNCHANGED <<reqs, owed, peer>>
      BY <1>2 DEF Parse, client, Done, Awaits
    <2>2. inbox[1] = Unit("head", cur + 1) BY <2>1 DEF Stream, Expected
    <2>3. Head(inbox) = inbox[1] /\ inbox \in Seq(Units) BY <2>1 DEF Types
    <2>4. Head(inbox).is = "head" /\ Head(inbox).of = cur + 1 BY <1>0, <2>2, <2>3, UnitsOf
    <2>5. cur' = cur + 1 BY <1>2, <2>4 DEF Parse
    <2>6. cur + 1 \in 1..Len(reqs)
      <3>1. 1 \in 1..Len(inbox) BY <2>1, <2>3
      <3>2. inbox[1].of \in 1..Len(reqs) BY <3>1 DEF Types
      <3> QED BY <2>3, <2>4, <3>2
    <2>7. Upto = cur BY <2>1 DEF Upto, Replied
    <2>8. CASE reqs[cur + 1].method = "PUT"
      <3> DEFINE a == [to |-> cur + 1, status |-> "4xx", tongue |-> "html"]
      <3>1. pc' = "between" /\ answers' = IF peer = "here" THEN Append(answers, a) ELSE answers
        BY <1>2, <2>4, <2>8 DEF Parse, send_error
      <3>2. /\ a \in AnswerRecord /\ a.to = cur + 1 /\ a.status = "4xx" /\ a.tongue = "html"
        BY <1>0 DEF AnswerRecord, Status, AtFault, Tongue
      <3>3. Upto' = cur + 1 BY <2>5, <3>1 DEF Upto, Replied
      <3>4. Malformed(reqs[cur + 1]) BY <2>8 DEF Malformed
      <3> HIDE DEF a
      <3>5. CASE peer = "here"
        BY <2>1, <2>6, <2>7, <2>8, <3>1, <3>2, <3>3, <3>4, <3>5, SaysMore
      <3>6. CASE peer # "here" BY <1>0, <2>1, <3>1, <3>6, SaysNothing
      <3> QED BY <3>5, <3>6
    <2>9. CASE reqs[cur + 1].method # "PUT"
      <3>1. pc' = reqs[cur + 1].method /\ answers' = answers
        BY <1>2, <2>4, <2>9 DEF Parse
      <3>2. pc' \in {"GET", "POST"}
        <4>1. reqs[cur + 1] \in Request BY <2>6 DEF Types
        <4> QED BY <2>9, <3>1, <4>1, ConnectionAssumption
      <3>3. Upto' = cur BY <1>0, <2>5, <3>2 DEF Upto, Replied
      <3> QED BY <1>0, <2>1, <2>7, <3>1, <3>2, <3>3, SaysNothing
    <2> QED BY <2>8, <2>9
  <1>3. ASSUME UNCHANGED <<reqs, cur, pc, _headers_sent, answers>>,
               peer' = peer \/ peer' = "gone"
        PROVE  Answering'
    <2>1. Upto' = Upto BY <1>3 DEF Upto, Replied
    <2> QED BY <1>0, <1>3, <2>1, SaysNothing
  <1>4. CASE SendRest \/ Depart
    BY <1>3, <1>4 DEF SendRest, Depart, flags
  <1>5. CASE UNCHANGED vars BY <1>3, <1>5 DEF vars
  <1>6. CASE Ask
    <2>1. /\ Len(reqs') = Len(reqs) + 1 /\ \A k \in 1..Len(reqs) : reqs'[k] = reqs[k]
          /\ peer = "here" /\ UNCHANGED <<peer, pc, cur, _headers_sent, answers>>
      BY <1>6, AskEffect DEF flags
    <2>2. Upto' = Upto /\ Len(reqs') >= Len(reqs) BY <1>0, <2>1 DEF Upto, Replied
    <2> QED BY <2>1, <2>2, SaysNothing
  <1> QED BY <1>1, <1>2, <1>4, <1>5, <1>6 DEF Next

\* If no GET comes with a body, the handler reads at the boundaries of what
\* was sent, and every answer is right, whatever is pipelined, left
\* unfinished or abandoned.
THEOREM AnsweringInvariant ==
  ASSUME PlainGets
  PROVE  Spec => [](Types /\ Place /\ Stream /\ Answering)
  <1>1. Init => Stream /\ Answering
    <2> SUFFICES ASSUME Init PROVE Stream /\ Answering OBVIOUS
    <2>1. /\ reqs = <<>> /\ inbox = <<>> /\ cur = 0 /\ pc = "idle" /\ owed = FALSE
          /\ answers = <<>>
      BY DEF Init
    <2>2. <<>> \in Seq(AnswerRecord) /\ Len(<<>>) = 0 OBVIOUS
    <2>3. Stream BY <2>1, <2>2 DEF Stream, Chain, Ends, Awaits
    <2>4. Upto = 0 BY <2>1 DEF Upto, Replied
    <2>5. Answering BY <2>1, <2>2, <2>4 DEF Answering
    <2> QED BY <2>3, <2>5
  <1>2. Types /\ Place /\ Types' /\ Stream /\ Answering /\ [Next]_vars => Stream' /\ Answering'
    BY StreamStep, AnsweringStep
  <1> QED BY <1>1, <1>2, PlaceInvariant, PTL DEF Spec

\* What is answered is what was asked, in that order, in the envelope of its
\* endpoint, with one status each; and a client that stays is owed none.
THEOREM AnsweredInStepHolds ==
  ASSUME PlainGets
  PROVE  Spec => []AnsweredInStep
  <1>1. Types /\ Answering => AnsweredInStep
    <2> SUFFICES ASSUME Types, Answering PROVE AnsweredInStep OBVIOUS
    <2>1. DOMAIN answers = 1..Len(answers)
      <3>1. answers \in Seq(AnswerRecord) BY DEF Answering
      <3> QED BY <3>1
    <2>2. \A i \in 1..Len(answers) : Right(reqs, answers, i) BY DEF Answering
    <2>3. ASSUME pc \in {"idle", "closed"}, peer = "here"
          PROVE  \A n \in 1..cur : \E i \in 1..Len(answers) : answers[i].to = n
      <3>1. Upto = cur BY <2>3 DEF Upto, Replied
      <3> QED BY <2>3, <3>1 DEF Answering
    <2> QED BY <2>1, <2>2, <2>3 DEF AnsweredInStep, Right
  <1> QED BY <1>1, AnsweringInvariant, PTL

\* If besides no request asks for an infinite sampler, a client is told that
\* it is at fault only when it is, and never that the server is when it is
\* not, whatever the requests before it left in the handler.
THEOREM BlameIsRightHolds ==
  ASSUME PlainGets, Readable
  PROVE  Spec => []BlameIsRight
  <1>1. Answering => BlameIsRight
    <2> SUFFICES ASSUME Answering PROVE BlameIsRight OBVIOUS
    <2>1. DOMAIN answers = 1..Len(answers)
      <3>1. answers \in Seq(AnswerRecord) BY DEF Answering
      <3> QED BY <3>1
    <2>2. \A i \in 1..Len(answers) : Right(reqs, answers, i) BY DEF Answering
    <2> QED BY <2>1, <2>2 DEF BlameIsRight, Right, AtFault
  <1> QED BY <1>1, AnsweringInvariant, PTL
=============================================================================
