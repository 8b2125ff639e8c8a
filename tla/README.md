# snapdragon-genie-server in TLA+

A verification project for `src/src/genie_server.py`, the HTTP server that puts
OpenAI- and Anthropic-shaped endpoints in front of one resident Genie dialog on
a Snapdragon NPU, for the launcher that restarts it
(`src/src/run-genie-server.ps1`) and for the tool that measures it against
another server (`src/src/bench_servers.py`). Line numbers below are lines of
`genie_server.py` unless another file is named. The modules model the code as it
is; where the code does something other than a comment of it says, a run or a
note in section 3 shows the difference.

## 1. The system

One process holds one native dialog, which can do one thing at a time, keeps
its KV cache between requests, and can hang. Everything else is about that.

| Part | State | Operations | Interacts with |
|---|---|---|---|
| `EngineHealth` (1313-1530) | clocks of the generation and of the host-side call in flight, when a stall was first signalled, failure streak | begin, progress, end, native_begin, native_end, note_stall_signalled, assess | called by the engine under its lock, read by the watchdog and `/health` with its own lock |
| `GenieEngine` (1556-2434) | engine lock, `_abort_lock`, `_live`, `_querying`, `_closing`, `_closed`, `_committed` (the text the KV is recorded to hold), two "dirty" flags, a `_Turn` per generation | query, query_stream (worker thread and generator), signal_abort, count_tokens, begin_shutdown, close | handlers, watchdog, main; the driver under it |
| `watchdog` (5101-5237) | its position in the loop | poll, abort a stall, start the grace clock, replace the process | EngineHealth, GenieEngine |
| Server and Handler (3373-5022) | in-flight semaphore, one socket per connection, two flags per request, the emitter's position in its protocol | do_GET, do_POST, _run, _answer_failure, emitters | engine, window |
| Window (3564-3972) | none of its own; a fit is a function of messages and token counter | _fit (bisection), build_windowed, transcript | count_tokens through the memo |
| Notes (3717-3904) | one slot, `_NOTE_STATE`: the last note, and which evicted turns it stands for | _summarize_turns, _remember_note, _recall_note, _split_note | one internal generation on the engine |
| Token memo (3494-3544) | bounded map under a lock | _tok_count | count_tokens |
| Reasoning strip (2442-2648) | the gate's held-back text | _strip_orphan_think, _OrphanGate | emitters |
| Request parsing, prompt rendering | none | validation, chat template | Handler |
| Start-up (3075-3372, 5281-5504) | the port, the bundle, the driver's handles | load_engine, port claim, main | everything, and other instances through the port |
| `run-genie-server.ps1` | the failures it counts and their times | run the child, restart on some exits, give up | the process exit code |
| `bench_servers.py` | its children, its rows, the results file | launch, wait, measure, stop; look for other servers | the two servers' ports, other sessions on the box |
| Driver (QAIRT, external) | KV, cap, stop sequences, sampler | query with a callback per token, reset, signal, free | GenieEngine |

The other benchmarks, the probes and the baseline server's launcher stand beside
the server and share no state with it.

### What is hard

Three kinds of thread meet at two locks: workers inside `_run_query` hold the
engine lock for a whole generation; consumers, the watchdog and shutdown take
`_abort_lock` to aim an abort at a turn; one native call (the signal) is made
under `_abort_lock`, every other under the engine lock. The signal is global to
the engine, so aiming it is bookkeeping. The KV survives a request, so every
path out of a turn (success, cap, stop sequence, abort, refusal, throw) must
leave a record of it that is true. Any native call may never return. The
watchdog acts on a verdict formed before it acts. Shutdown races all of them.
Around the process, a load takes half a minute during which the port is taken
and nothing answers; what a dead process held comes back only with its death;
and a process stuck in the driver may not be able to die in good order.

What makes each part correct:

- Engine: a query runs on its own prompt and settings; the KV record is true
  whenever the engine is free; an abort cuts only the turn it was meant for, and
  reaches it; nothing native is called after the free; every turn is answered.
- Health and watchdog: the clocks run exactly while the engine is held; a stall
  is never booked as a recovery; a holder that never lets go is replaced.
- Server: at most `MAX_INFLIGHT` requests past the door; the semaphore is given
  back on every path; one answer per request, and nothing after it; no fragment
  is an answer; a generation nobody reads is stopped.
- Window and notes: what is sent fits the budget and ends with the last turn; as
  little as possible is dropped, and a note speaks for exactly what it replaced,
  in its own conversation.
- Strip: streaming in any chunks gives the buffered result, but for the `<think>`
  pairs that only a buffered answer can take back.
- Connection: answers stay in step with requests, and each failure is put on the
  side it belongs to.
- Start-up and launcher: one model at a time; a port that answers has a model
  behind it; a stuck server is replaced, within the restart cap.
- Benchmark: one arm at a time, none left behind, and exit status 0 is an A/B.

## 2. Modules

| Module | Models |
|---|---|
| `EngineHealth` | `EngineHealth` as a record and one operator per method; no behaviour of its own |
| `GenieEngine` | `GenieEngine`, its workers, consumers, the tokenizer's callers, main's shutdown path, and the driver; EXTENDS `EngineHealth` |
| `Supervision` | `watchdog` over the engine; EXTENDS `GenieEngine` and implements it |
| `Turns` | what the engine promises its callers: the abstract specification |
| `EngineService` | `GenieEngine` mapped to `Turns`; EXTENDS `GenieEngine` |
| `Server` | concurrent handlers, emitters, the in-flight semaphore and the clients, over `Turns`, which it EXTENDS |
| `Connection` | one keep-alive connection and its handler: framing, refusals, blame |
| `Window` | `_fit`, `build_windowed`, `_summarize_turns` and the note slot |
| `Strip` | `_OrphanGate`, `_strip_orphan_think`, `_maybe_strip_think`, `parse_tool_calls` |
| `Startup` | `main` of several server processes, the port, and the launcher's restart loop |
| `BenchServers` | `main` of `bench_servers.py`, its children and the box they share |
| `GenieEngine_proofs` | theorems about the engine, in three parts: locks and clocks; aborts; settings and the KV record |
| `EngineRefinement_proofs` | that `GenieEngine` implements `Turns`, and `Supervision` `GenieEngine` |
| `Server_proofs`, `Connection_proofs`, `Window_proofs`, `Strip_proofs`, `Startup_proofs`, `BenchServers_proofs` | theorems about the module each is named after |
| `MCGenieEngine`, `MCSupervision`, `MCServer`, `MCWindow`, `MCConnection`, `MCStrip`, `MCStartup` | values for TLC |

`Supervision` composes the watchdog with the engine, `Server` the handlers with
what the engine promises; `EngineService` is the joint between the two. The
others leave their neighbours free: a handler runs `Window` while it is
`sizing` in `Server`; a request of `Connection` is admitted, fitted and answered
as `Server` and `Window` happen to; the chunks of `Strip` are any; the driver of
`Startup` is well or stuck.

### GenieEngine against the code

`pc[t]` is where turn t's worker is in `_run_query`:

| pc | the code has just | lines |
|---|---|---|
| queued | been started, waits for `self.lock` | 2042 |
| refusing / admitted | passed the gate one way or the other | 2043-2068 |
| live | set `_live` | 2069-2070 |
| stopSet, sampled, planned, capSet | made each native call before the query | 2079-2101 |
| armed | checked `aborted` and set `_querying` | 2103-2107 |
| querying | entered `GenieDialog_query` | 2120 |
| returned | come back, thrown, or honoured an early abort by not starting | 2119-2125 |
| left | cleared its window, set `done`, read its flags | 2127-2135 |
| ended | called `HEALTH.end` | 2146-2147 |
| recounting, recounted | re-encoded the text for a second opinion on the cap | 2172-2175 |
| released | recorded the KV and released the lock | 2176-2205 |
| done | told its consumer | 2281-2305 |

Atomicity. A step is what no other thread can see half of. An `_abort_lock`
block without a native call is one step, enabled when the lock is free. `_abort`
is two when it signals: it takes the lock and decides, and `SignalReturns`
gives the lock back, so `signaller` is the holder in between. Everything the
turn does to variables that only the holder of the engine lock reads is joined
to the next step that others can see.

The driver. `dialog` is what the native object holds: KV, cap, stop sequences,
sampler, whether it is inside a query, whether it was told to stop. Its
behaviour is whatever the code allows for: any call before the query may throw
or be refused (`Raise`), a sampler call may be ignored in silence, a query may
return any status, an abort may be honoured with ABORTED or too late to change
SUCCESS, a cut or a matched stop sequence may leave content in the KV that no
callback carried (`Junk`). What an ABORT does to a dialog that is not in a query
"is not knowable from here" (2114-2118): `SignalSticks` makes both answers
instances.

Abstractions. A text is a sequence of words; a token is a word. `Piece` are
tokens that end inside a UTF-8 character, which the decoder replaces when the
text ends there. The health timestamps are ages in ticks, saturating at
`MaxAge`. The failure streak saturates at the threshold it is compared with.
Logging and message texts are left out.

In `GenieEngine` the watchdog and the clock are free: it may abort, note a
stall, or let time pass whenever the code physically could. So its properties
do not rest on when the watchdog acts.

### Supervision against the code

`dog` is where `watchdog` is: asleep, or holding a verdict ("stalled" before
signal_abort, "barked" inside it or after it, "polled" when the loop is done;
"wedged" on the way to the exit), and `now` is the age of the clock it read.
Time passes only in `Pass`: not over a watchdog that has something to do, since
its poll is one tick, and not over a Python step that nothing holds up, since
ticks are seconds and limits are minutes. What takes ticks is the driver and
whoever waits for it. `Pass` is disabled while a verdict is unformed, so the
model has the watchdog poll at least once per tick; the code polls every
`interval` seconds against limits of minutes.

### Turns and EngineService against the code

A turn is idle, queued, running or ended. `aborted` is the flag of `_Turn`,
`named` is `shutdown` or `stalled`: the server's reason. `how` is what became of
the generation (whole, cut, raised, refused) and `told` is the item the worker
put in its consumer's queue. `EngineService` reads all of it off `GenieEngine`:
a turn runs while its worker holds the lock, `Seen(t)` is its `_Turn` and its
answer. Note that a turn asked to stop may still end `whole`, and that a cut turn
with no name is told "done": `_finish` reports ABORTED as a stop (1758-1783).

### Server against the code

`pc[c]` is where handler c is: at the `door` of do_POST (4550-4626), `checked`
by the health gate (4627-4649), then with a permit (4650): `sizing`
(4705-4775, or the Anthropic twin), `opening` (the headers, then start(),
4866-4873), `started`, `generating` (4888-4911), `billing` (inside finish(),
before its counts), `leaving` (on the way to the `finally`, 4671), `served`.
`em[c]` is the handler's locals: the emitter's latch `gone`, whether the gate is
open and what it holds, the chunks taken. `wire[c]` is what reached the client.

- One step is what happens between two points where another thread matters:
  writes of one moment go out together, a count under the engine lock is a
  step that takes the lock (`Borrow`) and one that gives it back.
- A write to a peer that has left may succeed (the kernel buffers it) or fail;
  failing sets the latch and aborts this thread's turn. `_client_gone` on a
  buffered response sees a departed peer for certain. Half-closed clients and
  `SOCKET_TIMEOUT_S` are departures too, as in the code.
- Headers are written around the latch (4798): their failure raises, and the
  request ends. The model lets the latch end it one step later.
- The gate only delays text here; which text it drops is `Strip`'s matter, and
  the shapes of requests and the reuse of a connection are `Connection`'s.
- Sizing collects validation, `build_windowed`, its token counts and a summary,
  each of which holds the engine for one native call; the summary's own turn is
  a `Borrow` like a count.
- What a handler does not anticipate ends in `_answer_failure` (`Fault`). It may
  raise at four places (`Breaks`), never with a count under way: while the
  request is read and sized, in the count that opens an Anthropic stream, in the
  strip and the tool parser behind the generation, in the counts of the finish.
  `Failure` is the answer: a 4xx or a 500 as long as there are no headers, for
  streams too, a closed connection once a stream has them, and a 500 for a buffered
  request once `_generating` is set. What raises inside the generation is caught
  there and told (`Fail`). A break between two frames of one step is not modelled.
- The health gate may refuse only while somebody holds the engine, since no
  clock runs otherwise. That it must is not modelled.
- The process's exit ends every behaviour and is not an action.
- A permit is given back when the handler leaves, and the aborted worker it left
  may hold the engine a while longer.

### Window against the code

A message is a role, a size and the facts it states; a note is a size and the
facts it stands for. `Fit` is `_fit` with its bisection, `Advance` its `_drop`,
`Tokens` the render of `ChatML.build` as far as it counts: a frame and a
content per block, tool results in a row sharing one, the leading system
messages merged and seeded with the default. `handler[h]` goes through
`build_windowed`: `Receive` is the first fit, `Recall` reads the slot under
`_NOTE_LOCK`, `Summarise` or `SummaryFails` the internal generation, `Remember`
writes the slot, `Assemble` fits again with the note. Between these anything
may happen to the slot.

Counts are exact and additive, which the real tokenizer is only nearly
(`_tok_count` may also estimate, 3536-3544). The generation prompt and the
tools' preamble are constants of a request and folded into `Budget`. A note is
modelled by what it stands for: what the capped transcript (3659-3706) left the
summariser to read is lost in the code and not in the model.

### Connection against the code

The byte stream is a sequence of units, the head and the body of each request
the client has sent; `inbox` is what the handler has not read. `pc` is where the
handler is: `idle` in the base class's loop, in `do_GET` or `do_POST`, reading a
body (`framing`), at the refusals that need the body (`read`), at the health
gate and the permit (`gate`, 4627-4650), reading fields (`fields`), building the
prompt (`build`), in `_run` (`run`, `answering`), on the way to the `finally`
that gives the permit back (`leaving`), `between` requests, `closed`. A body that
was refused unread stays in `inbox`: if the connection were kept, `Parse` would
meet it where a request line should be, as the base class does. The base
class itself (`http.server`) is modelled from how `Handler` uses it.

A field is abstracted to what its reader makes of it: a cap is unset, small,
huge, negative or nonsense; a sampler value is a number, text or infinite; a
message's inside is good or bad. `Read` is the order the two endpoints read
them in before they build the prompt, `Invalid` the checks that answer a 400
of their own, `Build` is what only the render finds. An empty body has no fields.
`Raise` is `_answer_failure`. The health verdict, a free permit, whether the
prompt fits, whether fitting took a summary and how the generation ends are
free choices.

### Strip against the code

A text is a sequence of symbols: newline, blank, word, tag. The closing think
tag is two symbols, so that a chunk can end inside it. `Closes` is the pair of
regular expressions (`_ORPHAN_CLOSE_RE`, and with `mid` `_ORPHAN_CLOSE_MID_RE`);
`feed`, `flush` and `_after_drop` are the methods of `_OrphanGate`, which give
the gate they leave and the text that is out. `parse_tool_calls` is the blocks
of `_TOOL_CALL_RE`, what `json.loads` and `_tool_arguments` make of each (a call,
a name without arguments, a scalar, no call), and the bare-JSON fallback.

### Startup against the code

One `Instance` is a launcher and the process it runs. `launcher[i]` is where the
restart loop is, `pc[i]` where the process's main thread is: `probing`
(`port_in_use`), `binding`, `reserved` (bound, ahead of the load), `loading`
(inside the native call), `loaded`, `listening`, `serving`, `stopping` (begun by
an interrupt), `unwinding` (an exception or `sys.exit` on the way out) or `dying`
(ended by the kernel). `sock` is what other processes can see of it, `model` what
it occupies of the device; both go when the process is gone (`Ends`) and not
before, which is why a slow exit matters. A `loopback` and a `wildcard`
`GENIE_HOST` collide in an exclusive bind and do not hide each other from it.
Python acts on an interrupt only between its own steps, so not inside the load.
The launcher's clock is in ticks; a failure older than `Horizon` is forgotten.
`recent` is a history variable for `GivesUpOverTheCap`: every failure within the
window, kept by the clock and not by the loop.

### BenchServers against the code

An arm-run is its index in `Order`, and the child it launched bears the same
index. `children` is main's dictionary, `warned` the children a kill did not
end, `pc` where main is: `stopping` (stop_all at the top of an arm-run, 1113),
`launching`, `waiting` (`wait_port`), `warming`, `sampling`, `ending` (the
`finally`'s stop_all), `writing`, `written`, `over`. The stranger is another
session's server on an arm's port. A row is who answered the sample: the
arm-run's own child, a child an earlier one left, or the stranger. `npu_check`
may miss a stranger, since processes may be unlistable or allowed by a flag.

## 3. What the runs show

| Run | Instance | Shows |
|---|---|---|
| `engine` | 2 turns of 2 different kinds out of 4, any consumer may leave, free watchdog, no shutdown | `AnswersOwnPrompt`, `RecordIsResident`, `OwnSettings`, `OnlyAskedTurnsAreCut`, `WholeAnswers`, `FlagsFinal`, `StallsAreFailures` |
| `answered` | 1 turn (plain or internal with a sampler), tokenizer, shutdown, sticky signals, fairness | `NoCallOnFreed`, `WholeAnswers` under shutdown, `ClocksFollowLock`, `AbortReachesQuery`, `EveryTurnAnswered`, `ShutdownEnds`, `ServiceKept` |
| `supervision` | 1 turn under the watchdog, limits of one tick | `Supervision` implements `GenieEngine` (property `Spec`), `NoHolderForEver` |
| `server` | 2 requests of 4 shapes, 1 permit, watchdog, shutdown, tokenizer, clients that leave | `NoPileUp`, `NoAbandonedTurn`, `OneAnswer`, `FinishesAreWhole`, `DepartureNoticed` |
| `served` | 2 Anthropic streams, the same, fairness | `EveryRequestServed` |
| `window` | 2 conversations of 9 shapes, 2 handlers, 3 requests, 1 slot | `FitIsBest`, `AnswersFit`, `SlotIsTrue`, `NoteIsOwn` |
| `startup` | 2 launchers, either address each, 1 restart within 1 tick, fairness | `OneModel`, `PortMeansItsModel`, `GivesUpOverTheCap`, `StuckIsReplaced` |
| `strip` | texts of up to 6 symbols in chunks of 1 and 2 under 5 settings of a stream, and whole; tool outputs of up to 6 | `StreamIsBuffered`, `NothingLost`, `CallsOrText` |
| `connection` | 2 requests out of 20 shapes on one connection, fairness | `AnsweredInStep`, `BlameIsRight`, `NothingSpent`, `ConnectionEnds` |
| `bench` | 4 arm-runs, 2 depths, 1 interrupt, 1 visit | `ArmsStopped`, `ZeroIsAnAB` |

Types are checked as a conjunct of the first invariant of each module that needs
one and of `SlotIsTrue`, `NoPileUp`, `NothingLost`, `NothingSpent` and
`ArmsStopped`; those of `Startup` are proved.

`ServiceKept` is the refinement: every step of `GenieEngine` is a step of
`Turns` or none, so what `server` and `served` show of handlers over `Turns`
holds of handlers over the engine. The run has one turn, with a signal that
sticks; the theorem (section 4) has any number, with one that does not.

Two runs find what the source denies:

- `late_query`. A turn that has passed the gate (2043) and not yet set `_live`
  (2070) is missed by both the mark and the abort of `begin_shutdown`; it starts
  its query during shutdown. `close` then waits for that generation, up to its
  timeout. The comment at 1656 says no new turn may take the dialog.
- `blame`. `top_k: 1e999` is parsed as infinity, `int()` of it (2819) raises
  OverflowError, and `_answer_failure` (4699) takes TypeError, ValueError,
  AttributeError and KeyError only for the client's: the answer is a 500, which
  its docstring (4684) says a router would take to the next engine.
  `_parse_token_cap` catches the same exception for the same reason (2724). The
  `connection` run has every other shape and finds the blame right.

Seen while modelling, and without a run:

- `_querying` is wider than the native call at both ends (2107 to 2121 and
  after), so the first abort of a consumer may be a signal to an idle dialog,
  which 1629 says cannot happen. On a driver where it sticks, the next request is
  cut; on one where it is dropped, an abort just before the query is lost. The
  docstring of `_abort` (2376-2382) knows the gap and closes it for a consumer's
  second abort only. `AbortReachesQuery` says what does hold;
- when the cap falls inside a UTF-8 character, the decoder's flush (2148) puts
  U+FFFD in the text `_commit` records, and the KV holds the partial bytes: the
  record that 1618 calls exact is not. `RecordIsResident` is checked with
  `Piece = {}`, and fails with a token that ends inside a character;
- between `assess` (5135) and `signal_abort` (5161) nothing is held, so the abort
  and the `stalled` mark may land on a turn that has just begun;
- a note makes the system turn longer, so the second fit of `build_windowed`
  (3966) may evict turns the note was not made from; they are neither sent nor
  condensed, which the docstring (3914) says does not happen;
- a server stopped by Ctrl-C while its driver is stuck leaves by the ordinary exit
  and not by `_terminate_self`, so DLL detach code may keep it for ever;
  `StuckIsReplaced` excludes exactly that. One that crashes or is found wedged
  during that stop leaves with a code the launcher restarts on, although
  docs/GENIE_SERVER.md:603 says an operator's Ctrl-C never becomes a restart;
- a load that fails after the dialog exists, or is interrupted then, gives the
  port back and frees nothing: until the process is gone another may load beside
  it. `OneModel` exempts it;
- after `close` has freed the dialog the port still accepts until the process is
  gone, so "an answering port always means a resident model"
  (docs/GENIE_SERVER.md:1109) holds of a server that is not leaving;
- another session's server that begins to listen while the arm-run's own child is
  dying can answer its samples: one that was mid-load when the run looked is
  seen by neither `port_open` nor `port_owner`, and a sample that succeeds is
  not checked against the child's death (`death_of` is asked after a failure).
  The docstring of `port_owner` (bench_servers.py:260-264) says nothing is
  measured against the wrong server for it. `ZeroIsAnAB` exempts a stranger that
  was not answering at the look;
- an interrupt in the stop_all of the benchmark's `finally` leaves its arms up;
  `ArmsStopped` exempts it;
- a finished stream still counts tokens under the engine lock (4122, 4281)
  before its last frames, so they wait behind whoever generates next;
- a client that leaves while its turn is queued is noticed at the first chunk
  or probe after it: nothing is consumed before, and the wait is not a probe;
- two requests of one conversation may both find the slot empty or another's,
  and the later writer's note, made from scratch, replaces one that had more;
- a turn that goes live between `begin_shutdown`'s mark and its abort is cut
  and not marked, so its fragment is reported as an ordinary "stop"; `WholeAnswers`
  exempts exactly that;
- `apply_sampler` does not read the status of `GenieSampler_applyConfig` (1857):
  a failed restore leaves the previous request's sampler, and `_sampler_dirty`
  says otherwise. `OwnSettings` is therefore about the cap and the stop sequences;
- `note_stall_signalled` (5194) may start the grace clock for a stall that has
  ended; if the next generation stalls without a `begin` or `native_begin` in
  between the clock is inherited. `begin` clears it, so this needs the note to
  land after the next turn's `begin`. The process is then replaced without an
  abort having been tried on that turn;
- a signal that never returns keeps `_abort_lock`, and the watchdog waits for it
  (5140-5148 say so): `NoHolderForEver` needs signals to return.

### Bounds

Two turns are the smallest number at which an abort can hit the wrong one, a KV
record can be continued by another request and a lock can be contended; a
third only queues behind the same lock. The `engine` requests are one
conversation, the same one continued after its answer, an internal one, and one of
another conversation with a stop sequence, so each way of touching the resident
state meets each other.
Caps of 1 and 2 make a generation end below, at and never above its cap. The
`answered` and `supervision` runs have one turn besides the tokenizer, which
contends for the same lock; either may be stuck in the driver
while the other waits and main shuts down. In runs not about time `MaxAge` is 0: a clock is
running or it is not, and `assess` is not asked. In `supervision` every limit is
1 and `MaxAge` is 2, the smallest values at which an age can be below, at and over
every limit. In `server` one permit and two requests are the smallest number
that can be one too many, two chunks the fewest of which the gate can hold one and
send one, and a probe every second chunk leaves one unprobed; the shapes are a
buffered response, an OpenAI stream with usage and an Anthropic stream with and
without tools, which between them take every branch of the emitters. `served`
has one shape, the one that counts at both ends, and one chunk. In `window` the
histories open without a system turn, with one, and with one that carries a note
and is followed by a developer message, before four messages that mix users,
assistants, tool results and a system message in the middle; the budget of 9 is below most of
their sizes, so that one fit, both or none succeed. Three requests let a note be
written by one conversation, replaced by another and asked for again.
Symmetry permutes turns in safety runs, whose requests are
chosen from the same set; liveness runs use none.

Two launchers are the fewest that can contend for a port and a device, one restart
within one tick the smallest cap and window that can be met, passed and aged out
of. In `strip` six symbols hold a line before the tag, the tag in its two halves,
and blanks and a word after it, and a hold of 3 falls before, inside and after
the tag; chunks of two put every boundary everywhere. Of a tool output six symbols are
two blocks with a body each, so a malformed one beside a good one, and every way
of nesting and tearing them. In `connection` the second
request is the one that can find what the first left behind: a flag, a body, a
permit; the shapes are a good one of each kind and one for each way of being
refused. `bench` has both orders of a pair (A/B/B/A), a second depth to be lost
in the middle of an arm-run, and one interrupt, one visit, which have every
place to come to; two interrupts add only one inside the `finally`, after which
nothing runs.

### Fairness

`FairSpec` of the engine asks that main's own steps happen and that
`GenieDialog_signal` and the free return, and nothing else: no worker, tokenizer or
consumer need move, so the holder of the engine may be the stuck driver that
`SHUTDOWN_FREE_TIMEOUT_S` is for, and `ShutdownEnds` holds all the same.
`EveryTurnAnswered` needs more and says so: `DriverReturns`, that workers and the
tokenizer's callers are scheduled and every native call returns. Lock acquisitions
are strongly fair, which `threading.Lock` does not promise and the source takes for
granted (`begin_shutdown`: "the lock goes to whoever has waited longest"). Nothing
asks a client to leave, the watchdog to abort or anyone to stop the server.
`SupervisedFairness` asks that Python's own steps, the watchdog's loop and the
passing of time happen, and that `GenieDialog_signal` returns. No other native call
need ever return, which is the case the watchdog exists for.

In `Server` a handler is strongly fair, since a phase makes finitely many counts
and gets past them, a native count returns, and the engine takes, ends and
reports each turn that waits long enough. Clients, the watchdog and shutdown
owe nothing.

In `Startup` Python, the launcher and the kernel take their steps, but a load may
take for ever, a process that is stuck in the driver need not get out of an
ordinary exit, and nobody owes a crash, an interrupt or a wedge. In `Connection`
the thread runs: its reads return or time out, since `SOCKET_TIMEOUT_S` is
positive by default (it has no timeout at 0, and the property is not claimed
there), and a generation ends, which `Server` and `Supervision` show. The
client owes nothing.

Deadlock is checked in every run in which nothing but the code can stop;
`Rest` is the process that has exited or has no turn or request left. It is not checked
in `window`, `connection` and `bench`, which end when their requests and
arm-runs do, nor in `strip`, whose generation ends, nor in `served`, where to
be stuck is the liveness property's business.

## 4. What is proved

With TLAPS, for every value of the constants that satisfies the named
assumptions, which TLC evaluates in the runs. Each theorem has an inductive
invariant, an initial-state lemma and one lemma per thread or group of
variables; a lemma names the actions that can disturb a part and shows that the
rest leave it alone.

### The engine

From `EngineAssumption` and `HealthAssumption` (what the code guarantees of its
configuration: requests with a non-empty prompt and a positive cap, a threshold
of at least 1, distinct sentinels), for any set of turns and requests, any
tokens and any limits, in `GenieEngine_proofs`:

Locks and clocks, for either kind of driver:

- `TypeInvariant`: `Spec => []TypeOK`.
- `LockInvariant`: `Spec => []Locking`. `Locking` is the strengthening the rest
  stands on: a worker is at a place inside `_run_query` exactly when it holds
  the engine lock (`Holders`), is in its window exactly when it is `_live`
  (`Live`), has `done` set exactly when it has left it (`Done`), and main holds
  the lock exactly while it closes (`MainHolds`). Without it, `close` could null
  the handles under a turn that no invariant puts anywhere.
- `NoCallOnFreedHolds`, by `Closing`, which adds that a freed dialog is a closed
  one and where main is when it is closed.
- `FlagsFinalHolds`: `Spec => FlagsFinal`, from `Done`.
- `ClocksFollowLockHolds`, by `Clocks`: which of the two clocks runs, said by who
  holds the lock and where it is.

Aborts, whom one may reach and what comes of it:

- `AskingInvariant`: a turn is marked when its consumer has left, a stall was
  found or shutdown has begun (`Marked`, `Asked`).
- `StallsAreFailuresHolds`, by `ReadOnce`: the flags the worker read as it left
  its window are still its turn's flags when it books the generation. An action
  property; it is `done` that makes the read final.
- `AimInvariant`: `Spec => []Aimed`. A native signal in flight is aimed at a turn
  that is live, aborted, and cannot leave its window, since leaving takes
  `_abort_lock` (`InFlight`, with `QueryInside` and `Armed` for `_querying`).
- `CuttingInvariant`, if `~SignalSticks`: wherever a cut shows, in the dialog,
  in what the worker holds, in what its consumer was told, the turn was aborted
  (`CutDialog`, `CutRun`, `CutAnswer`). The property alone says only the last of
  these, and no step that tells a consumer looks at the dialog.
- `OnlyAskedTurnsAreCutHolds`, if `~SignalSticks`: from `Cutting` and `Asking`.
- `TellingInvariant`, and with it and the two others `WholeAnswersHold`, if
  `~SignalSticks`.
- `AbortReachesQueryHolds`, if `SignalSticks`: by `Reached`, which says of an
  aborted turn about to query that the signal waits for it at the dialog.

The two assumptions exclude each other because the source knows neither:
what an ABORT does to an idle dialog "is not knowable from here" (2114-2118).
Where it is dropped an abort can be lost in the gap ahead of the query, and
where it sticks it can cut the next request; each half is proved of the driver
it holds for, and section 3 describes what is lost on the other.

The record, what a turn leaves behind:

- `OwnSettingsHold`, for either driver: from `Settings` (`StopTold`: a stop
  sequence nobody recorded is not set; `Prepared`: from the place that sets a
  value to the end of the query it is the request's).
- `ResidentInvariant`, if `~SignalSticks`: what `_committed` says is what the
  KV holds when nobody has the engine (`Recorded`), is what is being sent
  (`Sending`), prompt and tokens while generating (`Generating`) and until the
  lock is released (`Ended`). It is stated up to `Like`, equality but for an
  unfinished character that the decoder's flush replaced with U+FFFD, because
  that is how exact the record is.
- `RecordIsResidentHolds` and `AnswersOwnPromptHolds`, if `~SignalSticks` and
  `Piece = {}`: with no token that ends inside a character `Like` is equality.

`EngineRefinement_proofs`:

- `ServiceIsKept`, if `~SignalSticks`: `Spec => ServiceKept`, step by step. A
  cut turn of `Turns` is an aborted one, which is `Cutting`; a queued turn is
  refused only at shutdown, which is `Closing` with `RefusedLate`.
- `SupervisedIsEngine`: `Supervised => Spec`. The watchdog's steps are the free
  one's; `Reading` says what it holds of the clock it read. So every theorem
  about `Spec` is one about the engine under its watchdog.

### The front end

`Server_proofs`, from the assumptions of `Turns` and `Server`, for any requests,
clients, number of permits, chunks and probing distance:

- `CourseInvariant`: `Spec => [](Types /\ Course)`. `Course` says for each place
  of a handler what state its turn is in, whether it was aborted or told, and
  what its latch and its list of chunks say. `NoAbandonedTurnHolds` reads off it.
- `NoPileUpHolds`, if there are finitely many turns: by `Permits`, an equation
  between the semaphore and the number of handlers past the door, and
  `Counting`. `Counting` is on a cardinality, so the lemmas add and take one
  element.
- `DepartureNoticedHolds`, by `Noticed`: the chunks since the last probe.
- `FinishesAreWholeHolds`, by `Reasons` (why a finish was written) and `Sent`:
  what is on the wire, with what the gate holds, is what the turn has said, in
  order and each chunk once. What has been delivered is a recursive function over
  the wire; `Sent` carries the values of that recursion (`Carries`: a solution
  exists, and all agree), and each write extends them by one, so that the
  induction is that of the behaviour.
- `OneAnswerHolds`, by `Showing`, which says of each place of a handler what its
  client has been shown, text aside: nothing before the headers, `Opened` while
  the turn is consumed, `Complete` at the counts, a member of `Protocols`
  behind. `Protocols` has a lone status for any request, and for a stream also
  what breaks off at each of these places with its connection closed
  (`ShownFault`). The property alone is not inductive: the beginning of an answer does
  not say which frame may follow. `Shows` carries the recursion over the wire,
  as `Carries` does, and `Unclosed` is what lets text be written.
- `ServerUsesTurns`: `Spec => TurnsSpec`. With `ServiceIsKept` it closes the
  joint: handlers ask of the engine only what the engine gives.

`Connection_proofs`, for any set of request shapes and any number of them:

- `PlaceInvariant`: `Spec => [](Types /\ Place)`; what is known of the request at
  each place, and of the flags that outlive it. `NothingSpentHolds` reads off it.
- `AnsweringInvariant`, if `PlainGets`: the handler reads at the boundaries of
  what was sent (`Stream`), and the answers so far are the right ones in order,
  with one more than the requests done exactly when this one is answered
  (`Answering`). `AnsweredInStepHolds` follows.
- `BlameIsRightHolds`, if besides `Readable`.

`PlainGets` says that no GET carries a body. `do_GET` reads none, so what follows
on the connection would be read from the middle of one: a limit of the code
(section 6), and the properties are false there. `Readable` says that no
sampler value is infinite: the `blame` run is the counterexample.

### The window

`Window_proofs`, from `WindowAssumption` (histories are sequences of messages,
budgets are numbers, the empty note is none), for any conversations, histories,
sizes and number of handlers:

- `FitIs`: for every conversation and budget, the cut `_fit` makes is admissible,
  the least that is enough if one is, the furthest there is if none is, and
  `fits` says which. A bisection is right when what it searches is monotone.
  Here it is so only over cuts at which a unit starts: a tool result whose
  predecessor goes gets a frame of its own, so a cut in front of one may cost
  more than the cut before it. `BlocksFrom` and `KeptShrinks` are that argument, and
  `AdvanceIs` that the search meets no other cut. `Holding` is the loop's
  invariant: nothing below `lo` is enough, and `best` is the first above `hi` that
  is.
- `WindowInvariant`: `Spec => []WindowInv`, which says for each place of
  `build_windowed` what the note in hand stands for (`StandsFor`), of an answer
  that it is `Sound` and its note `Own`, and of the slot that it is true
  (`SlotInv`). The properties speak of answers and of the slot; the handlers between
  their read of the slot and their write are what connects the two.
- `FitIsBestHolds`, `AnswersFitHolds`, `NoteIsOwnHolds` and `SlotIsTrueHolds` are
  read off it.

`Total`, `Facts` and the search are recursive functions. The library's induction
theorems take an operator, which the provers cannot instantiate; `Induction` says
the same of sets of naturals, from the well-founded order on them. A sum or a
join is shown to exist and to be the only one by it (`SumsExist`, `SumsAgree`), which
is what the function's definition chooses, and then to add up over sequences
put together (`TotalConcat`, `FactsConcat`). `LoopRuns` and `LoopReturns` do the same
for a loop that counts down: it can be run, and what holds at its end of every
state with an invariant holds of what it returns.

### The text

`Strip_proofs`, from `StripAssumption` (a negative hold is not a number), for
any symbols, any lengths of a generation and its chunks, and any hold:

- `GateInvariantHolds`: `Spec => []GateInvariant`. A gate is `Holding` all that
  was said, in which no close has ended; or `Passing` all of it on, because
  there is nothing to strip, or because it is `Late`: the hold was over before a
  tag could end within it; or `Dropping`: it has cut what is up to the first
  close, and what is out is the rest from its first solid symbol.
- `StreamIsBufferedHolds`, which says nothing before the end, and
  `NothingLostHolds`, which says nothing of what is stripped, are both read off
  it. The first compares a stream with `_maybe_strip_think` of the same
  generation. They are the same unless `GENIE_STRIP_THINK` is set; then the
  buffered answer also loses the `<think>` pairs, which a frame already sent
  cannot be made to lose (4840-4846), and the theorem says that this is all they
  differ by.

What carries the invariant from chunk to chunk is `FirstStays`: a close whose line
has ended is the first close of whatever is said behind it, with the newline of
`_ORPHAN_CLOSE_MID_RE` or without, and `SameLine` is why. The same lemma shows that
the two patterns agree on it. `LstripMore` is `_after_drop`: blanks are taken
from chunk to chunk until something solid has come. `Least` says that a set of
naturals has a least element, from the well-founded order on them; `Close` and
`lstrip` choose by it.

- `CallsOrTextHolds`, read off `ParseAccounts`, which says of any text that what
  `parse_tool_calls` makes of it `Accounts` for it: the solid symbols within
  calls and the visible ones are together as many as were said, each call has
  the one body that can be called, and no call has anything else in it.

The argument goes through the shape of what is found. `BlocksAre`: whatever
`_TOOL_CALL_RE` finds is an opening tag and a closing one of its kind behind it.
`BodyIs`: where the body of such a block can be called, it is the only solid
symbol between the tags. `OutsideIs`: what is joined around the spans
has exactly the solid symbols outside of them. `StripKeeps`: stripping takes
blanks only. `SpansAccount` adds these up for blocks and `BareAccounts` for a
text that is itself a call. It holds of every sequence of symbols, so of what
the reasoning strip leaves of a generation, once `PairsIs` has shown that to be
one.

`Pairs` and `Blocks` recurse to where a match ends, not to the next symbol.
`Leaps` says that such a recursion has a solution when every jump is forward
(with `DropsExist` and `FindsExist` for the two), `Lands` that a set which is
closed under one step has all of its values.

### Start-up and benchmark

`Startup_proofs`, for any number of launchers, any cap and any window:

- `TypeInvariant`, for all that other processes see of one.
- `ClaimInvariant`: `Spec => []Claiming`. A process's place in `main` determines
  its socket and whether it may have a model, and at most one process has a
  socket. `OneModel` alone is not inductive: a process that binds says nothing
  of models, and a process that loads looks at nobody. The port in between is
  what carries it, and that is the argument of the code.
- `OneModelHolds` and `PortMeansItsModelHolds`, from `Claiming`.
- `CountInvariant`: `Spec => []Counting`. The loop prunes its list only when it
  adds to it, so `failures` may hold what is long over; `recent` is pruned by
  every tick. What connects them is `Young(failures[i]) = recent[i]`: pruned now,
  the list is what the window holds.
- `GivesUpOverTheCapHolds`, an action property, from `Counting`. Its lemmas are
  about pruning: `YoungMore` (one failure more), `AgedMore` (what a tick does to
  it) and `YoungTwice` (pruning late and pruning early come to the same).
  `KeepsExist` and `KeepsAgree` show the recursion of `Young` to have one
  solution, and `SeqInduct` is induction over the lengths of a list.

`BenchServers_proofs`, from `BenchAssumption`, for any number of passes, depths,
interrupts and visits:

- `TrackingInvariant`: `Spec => []Tracking`, which joins `Registering` (a live
  child is one main will stop or has warned of; it has one at a time, and none
  when it has ended), `Answering` (what is up while main measures) and
  `Outcomes` (what `outcome` says of how the loop ended).
- `ArmsStoppedHolds`: from `Registering`. The property says nothing of
  `children`, and no step that launches looks at processes; only the dictionary
  connects them.
- `ZeroIsAnABHolds`: from `Outcomes` and `Answering`.

### What is only model-checked

Every invariant and every safety property of a step that a passing run checks is
a theorem. What is left to the runs:

- Liveness, and anything under fairness: out of the provers' reach.
- That the transcript is halved often enough (`Askable`): no property is about it
  alone; the properties hold however a summary ends.
- `WholeAnswers` under signals that stick, for one turn (run `answered`); with
  two it is false there, since the next turn is cut by what was meant for the
  last.
- `NoQueryAfterShutdown` and `BlameIsRight` with an infinite sampler are the two
  violations of section 3.

## 5. Further work

- `Startup` over `Supervision`: the wedge exit as the watchdog's and not as a free
  step of a stuck process, which would make `StuckIsReplaced` one property from
  the hung call to the next server.
- A tokenizer that is not additive in `Window`, and with it the estimate that the
  token memo keeps after a failed count.
- Liveness of `Server` from that of the engine: the fairness `served` asks of
  `Turns` is what `answered` shows of `GenieEngine`, but only the safety part of
  the joint is formal.

## 6. Not modelled

- Engine: message texts, logging, the driver beyond what its callers see of it.
- Token memo (3494-3544): a failed count is replaced by an estimate and memoised;
  what that does to a fit is arithmetic over sizes `Window` does not have.
- Start-up: discovery of bundles, SDK and DLLs, the slow-load watcher, which only
  prints, addresses other than loopback and wildcard, and POSIX, where a bind is
  not exclusive and a listen can fail. The launcher's preparation of the
  environment and PowerShell's own reaction to Ctrl-C.
- Connection: a GET with a body (it is not read, and the next request line would
  be), a client that closes one half of its socket, and pipelined bytes that hide
  a departure from `_client_gone`, other than as units still in `inbox`. Text that
  cannot be encoded is refused after a summary may have been made for it:
  `NothingSpent` does not count it as a field.
- Benchmark: the measurement, refusals before the loop, an empty `--out`, the gap
  between `out_state` and the open in `write_results` with `--force`, and the one
  between the launch of a process and its registration, which is a step here.
- Beside the server: `run-llama-server.ps1` is configuration and a child process;
  `bench.py`, `bench_endpoint.py`, `bench_contention.py` and `prompt_depth.py`
  are clients whose matter is statistics; the probes and smoke tests run
  straight through.
