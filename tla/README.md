# A TLA+ development of vivary

vivary runs LLM agents in containers. A host daemon (`keeperd`) creates the
agents, starts a small supervisor (`ward`) in each container, decides which
capabilities an agent may use and executes them, and lets a command line tool
(`viv`) watch and steer everything. All parts talk MUS, a binary protocol of
frames with a sender, a receiver and a sequence number.

The modules here are translated from the Go source. TLC checks them on small
instances, TLAPS proves the theorems of the eight `*_proofs` modules for all
values of their constants. Paths below are relative to the repository.

## 1. Inventory

| Component | State | Operations | Talks to | What makes it correct |
|---|---|---|---|---|
| MUS router (`internal/switchboard`) | pipe per agent name, last sequence number and byte window per pipe | AddPipe, RemovePipe, readLoop, Send | reads Wards' stdout, calls keeperd's handler synchronously | frames handled in order, once, under the pipe's identity, within the budget; nothing lost silently; a Ward is never blocked for ever |
| Ward, tool calls (`cmd/ward/toolserver.go`, `musPipe`) | sequence counter, table of pending calls | executeTool, send, deliverCapabilityResponse | capability CLIs over a Unix socket, keeperd over the pipe | every call returns, with its own verdict or a timeout |
| Ward, prompts (`cmd/ward/main.go`) | activeLoop, activeCmd, activeAbort | handlePrompt, runLLMSubprocess, abortActivePrompt | LLM subprocess | one event per prompt that tells how its last attempt ended |
| keeperd, frame handler (`cmd/keeperd/dispatch.go`) | status fields of agents | handleFrame and what it calls | router, dispatcher, subscribers, audit database | replies reach the Ward that asked; a slow subscriber costs nobody else |
| keeperd, lifecycle (`cmd/keeperd/provisioning.go`, `internal/runtime`) | agents, ACLs, pipes, headless settings, subvolumes | agentCreate, agentDestroy, reaper | router, dispatcher, browser manager, runtime | all or nothing; a Ward runs with policy and root filesystem |
| keeperd, control socket (`cmd/keeperd/main.go`) | ctlSubs, a push queue per connection | handleCtlConn, pushToCtlSubscribers | viv | events in order, none for a connection forgotten |
| keeperd, browser (`cmd/keeperd/chromed.go`, `browser_proxy.go`) | proxyByID, headless, HTTP proxy per agent | ReadPage, Release, port allocation | chromed, Chrome | a session lives as long as its agent |
| chromed (`chromed/service.go`) | Chrome instances | Acquire, Release, reap, ReleaseAll, monitorContainer | keeperd, LXC | one Chrome per agent, none after shutdown |
| CDP proxy (`internal/chromproxy`) | targets, pending calls | ReadPage, call, readLoop, Allows | Chrome | a call returns; only allowed URLs are opened |
| capabilities (`internal/capabilities`) | registry, ACLs | Dispatch, Execute | file system, browser manager | what is executed is what was typed; a scope is kept; a failed write loses nothing it need not |
| CLI wrapper and generated types (`cmd/capwrap`, `cmd/vivgen`, `generated.go`) | none | flags to typed arguments, marshalling, printing | Ward's tool socket | a tool ends, and prints what the capability returned |
| viv and its TUI (`cmd/viv`) | message stream, snapshots | commands; readLoop, Update, handleKey | keeperd | shows what keeperd knows; nobody waits for ever |
| codec (`pkg/mus`, `switchboard/codec.go`) | none | varints, strings, frames | everyone | decodes what was encoded, rejects the rest |
| audit, configuration, migration | files | sequential | | |

What is hard in it: every pipe has a read goroutine that runs handlers
synchronously, every tool call, prompt and control connection its own
goroutine; sequence numbers are allocated apart from the writes they number;
maps are keyed by agent name while the objects behind a name are replaced; Wards
and LLM subprocesses may die or hang at any time; Chrome sessions are shared
between two processes that time out independently. `PROJECT.json` lists the
hazards line by line.

## 2. The modules

### Switchboard

The router (`internal/switchboard/router.go`). A frame is a record of sender,
sequence number and size; `Garbage` is what does not decode. `ReadStep(p)` is
one iteration of `readLoop`: `PeekFlood`, `ReadGarbage`, `DropRewind`,
`DropFlood` and `Dispatch` are its ways out, in the order of the code's tests,
and each does all the iteration does, security events included. Between
`Dispatch` and `HandlerReturns` the loop is inside a handler. The limiter's
clock is the choice, at each of the two calls of `Allow`, whether a second has
passed. A pipe may carry anything (`Arrive`), which covers every Ward.
`handled`, `passed`, `sent` and `security` are history. The test for a rewind is
skipped while the last number is 0, so a frame numbered 0 is handled again and
again; `HandledInOrder` says so, `docs/MUS_PROTOCOL.md:364` does not.

### CapabilityCalls, refining CapabilityContract

`CapabilityContract` is what a capability call promises its tool: at most one
decision, one outcome, and the outcome is the call's own verdict, `decode_error`
for a verdict in more words than the Ward reads, `pipe_error` for a call that
keeperd never decides, or a timeout. It has one exception, `MistakenFor`: calls
are told apart by numbers that are unique in one Ward only. A reply goes to
whichever pipe the agent's name has when its capability has executed
(`dispatch.go:124`); after a destroy and a create that is the new Ward's, whose
numbers start at 1 again, and a call there with the old request's number takes
the reply for its own.
`CapabilityCalls` EXTENDS `Switchboard` and composes its read loop with the
Ward (`executeTool`, the pipe, the pending table) and keeperd's handler, with
one action for each access to shared state: `Allocate` (the number),
`Register`, `Transmit` or `TransmitFails`, `Receive`/`TimeOut`, `Return`;
`TakeReply` and `Deliver` for the Ward's run loop; `Decide`, `Lookup`, `Answer`
for keeperd, split where `Router.Send` gives up its lock. `Create` and `Destroy`
move the agent's name between pipes, one for each Ward. `ContractSpec` is the
refinement: the contract's `number` is `seqOf`, `verdict` and `outcome` are the
variables of the same name.

### AgentLifecycle

`agentCreate`, `agentDestroy`, the Ward and its reaper, for one agent name:
everything is kept in maps by name, and different names touch different
entries. An incarnation (the number of the create) stands for the objects of
one create. Every access to shared state is an action; every step that may fail
has its failing alternative, which enters the deferred cleanup at the right
place. `survivors` is history.

### PromptRun

`handlePrompt`, `runLLMSubprocess(Once)`, the tool server's reasons to abort
and the two halves of `abortActivePrompt`. One action per atomic store or load
of the Ward's three shared fields. A detector that was replaced is unreachable,
so only the published count is kept. The text of an abort
(`activeAbortDetail`), the LLM's output and its token counts are left out: no
property is about wording.

### CtlFanout

`daemon.ctlSubs` with Go's slice semantics: arrays, a slice as array and
length, `append` in place or into a new array, removal by shifting in place
(`Shift`, one element per step) under the lock, and a fan-out that copied the
slice and reads the array without the lock. It covers the fan-outs of one
pipe, which its read loop runs one after another.

### ChromePool and BrowserSession

`ChromePool` is chromed for one agent: an acquire request stands for the Chrome
and the debug socket it makes. `Lookup`, `ClearPath`, `Listen`, `Start`,
`WaitReady`, `CloseUnready`/`KillUnready` and `Insert` are the steps of
`manager.Acquire` between its two critical sections; `Take`, `Kill`, `Close`,
`RemovePath` those of `Release`; `ReaperWaits` and `Forget` the reaper. `Stop`,
`ReleaseAll` and `Exit` are the end of the server, which waits for none of its
goroutines. `listening` has the open debug sockets, each with its forwarder, and
`path` is the file all debug sockets of an agent share: closing a listener
unlinks it, whoever's socket it is by then. The reaper closes no socket, nor does
a release that finds no instance or cannot kill its process, nor an acquire
whose Chrome does not start; `DestroyLeavesNothing` says that these are the only
ones that outlive their agent. `BrowserSession` EXTENDS it
with keeperd's side: page reads (`ReadOn`), the HTTP proxy they acquire, the
time-out after which keeperd gives an acquire up while chromed goes on, and a
destroy (`DestroyOn`). A page read is the acquire request it may send.
`replaced`, `killed`, `inFlight` and `raced` are history.

### CdpTarget

A page read over Chrome's debugging protocol, for one agent. `read` is the place
in `ReadPage`: after `Begin`, `Dial` and `StoreTarget` (`openTarget`) every
phase is one or more calls, and `OnFailure` and `OnAnswer` say where a read
goes on from each. A call is `BeginCall`, `Send` or `SendFails`, then
`TakeResult` or `ContextDone`; the read loop of a target is `Recv`, `Deliver`
and `Drain`. A call keeps the identity of its channel (`pending` leads to calls,
not to reads), so an answer given to the wrong one is visible. Chrome is
external: it may refuse a command, answer late or never, and, since
`navigate` discards the result of `Page.navigate`, also answer a navigation that
it does not carry out (`Navigate`: a download, no content, an error page). `page`
is what it shows; `landed` (where a read's own navigation left it) and
`overlapped` are history.

### MusCodec, CapabilityTypes and ToolCall

`MusCodec` is the wire format as functions on sequences of bytes: varints,
strings, lists, and the header of a frame with its limits. A reader returns a
value and the rest, or an error; where one reader follows another (`ReadEach`)
they are a function of the place and the bytes. Where a length has no limit of its own
the code makes the array before it reads (`capability.go:112`, `149`,
`toolproto.go:47`, the generated lists); a length that no array can have panics
(`Allocated`). `MaxAlloc` is the longest array that can be made; what memory
there is for a shorter one is not modelled. The bits of a byte and of a word
are parameters (7 and 64 in the code): with 2 and 7 TLC looks at every word, and,
as in the code, the longest varint has bits that no word has room for. Go's
conversions between `int` and `uint64` are `ToUint` and `ToInt`. `IsText`,
`IsInt`, `IsTexts` and `IsOf` say what a variable of a type may hold.

`CapabilityTypes` has one definition for each of the 54 capabilities of
`generated.go`: the fields of its arguments in wire order and those of its
result. What is generated for it (schema, registries, struct, `MarshalMUS`,
`UnmarshalMUS`) follows from the fields by `MarshalArgs`, `UnmarshalArgs`,
`MarshalResult` and `DecodeResult`, which say what `vivgen` emits for each type.
`DecodeResultToJSON` is what is printed of a result: `encoding/json` writes
U+FFFD for ill-formed text (`ThroughJSON`), in an argument on its way in and in
the texts of objects and cells on the way out. A result that is a string is
printed byte for byte.

`ToolCall` is one call of a tool from its command line to the text it prints:
`capwrap` (`Invoked`, `AskForSchema`, `ReadAnswer`), the Ward's handler
(`RejectMalformed`, `AnswerSchema`, `DetectLoop`, `RejectArguments`, `WardPanics`,
`Forward`),
keeperd (`Deny`, `Execute` with the two registered capabilities and their
scopes), and the way back (`TakeReply`, `ReplyTooLong`, `GiveUpWaiting`).
Everything between them is bytes. Two capabilities have an implementation in the repository
(`Browser_Page_Read`, `Filesystem_File_Write`); any other one is an
implementation that uses its generated types. What it shows that the reader of
the code should know:

* a field of a list type has no line in the generated `MarshalMUS` of a result
  (attendees, columns and rows, tags, groups), so it is not in the bytes,
  although the descriptions in `generated.go` promise it (`ResultShown` says
  what is left, `Carried`);
* a length in a request that no array can have panics in the handler's goroutine,
  which ends the Ward, and the tool has no answer (`WardPanics`);
  `OnlyTooLongIsInvalid` says that no request of `capwrap` does;
* defaults, minima and maxima of a schema are text for the reader: an omitted
  field has the zero value, and `Filesystem_File_Write` ignores its `encoding`;
* a denial whose detail is over 1024 bytes is written and cannot be read, and
  the tool is told `decode_error` (`capability.go:156`); a request over 256 KiB
  aborts the prompt as malformed and the tool sees a reset connection;
* keeperd does not ask how long a reply is (`codec.go:154`); one over 4 MiB is
  refused by the Ward's reader, and a frame it cannot read ends the Ward with
  the call (`ReplyTooLong`);
* the Ward's answer that keeperd took too long can never reach its tool, whose
  own deadline is earlier or the same; a scope of `/` denies every write.

### CtlSession

The control socket as its users see it: a TUI and one call of `viv`, the
request loop and the push goroutine of their connections, the entry of one
agent, its Ward's events. `Serve` is the request loop (`Subscribe`, `Answer`,
`Lookup`, `Record`, `Forward`, `Forget`, `Teardown`, `WriteReply`: a lookup, a
record and a send are apart because the code gives up its lock between them),
`Handle` the two halves of an event (the entry, then the push). The TUI is
`Send` (its commands, which Bubble Tea runs in no particular order: the first
status may be requested before the subscription), `ReadFrame`, `Update` and its
keys. An event is its place in the order keeperd handled them. The TUI keeps two
things of an agent (`shown`): its status, which an event changes and a status
replaces, and its last event, which a status leaves alone; `OutcomeLine` and
`LastEventLine` are the two lines made of them. A status with a cost of more than
32 characters, which an event may carry (`TooLong`), is refused by its reader
(`Undecodable`); the error becomes a message, after which no command waits for
the next one, and the TUI is frozen with its connection alive. `excused` (events
the TUI may not know of), `queued` and `garbled` are history. Left out: editing the text of a
prompt (an acknowledgement of an earlier prompt clears what was typed since,
and a second Enter before it sends the text again), and the selection among
several agents.

### MC modules, faulty variants

`MC*.tla` name the model values of the instances. Each module has a section of
faulty variants: definitions the specification does not use, each of them a
plausible slip in one action or helper (a dropped guard, an omitted reset, an
ignored error) that the property named in `PROJECT.json` must notice.

## 3. The runs

| Run | Instance | Checks | Shows |
|---|---|---|---|
| switchboard | 1 pipe, senders Alice and Mallory, numbers 0 to 2, sizes 1 and 4, budget 5, peek 2, 3 frames | TypeOK, HandledInOrder, Stamped, WithinBudget, AccountedFor, WriterNeverWedged | the read loop against any traffic |
| calls | 2 successive Wards with a call and an event each, frames and budget of 1, wire of 1 | EventsNeverRewound, ContractSpec, CallsReturn | the round trip keeps the contract although requests and replies are lost, fail, or come to the wrong Ward |
| lifecycle | 1 control connection, 4 creates | TypeOK, AllOrNothing, EquippedWhileRunning, RootOutlivesWard, RegisteredIsCurrent | every failing step, every order of exits and reapers |
| prompt | 2 prompts, 2 tool calls, threshold 2, 1 retry | TypeOK, AbortIsFresh, ReportTellsLastAttempt, ReportedUnlessHung | overlapping runs over shared fields |
| fanout | 3 connections, 2 events, queues of 1 | SubsExact, PushedInOrder, NoneForgotten, FanoutEnds | the shared slice |
| browser | 2 page reads, 1 destroy, 2 Wards, chromed may stop | ChromeAccounted, InstanceReachable, DestroyLeavesNothing, OnlyOwnReaped | a session kept by two processes |
| cdp | 2 page reads, alike (symmetry), 1 poll | OwnAnswer, PendingExact, TextWhereLanded | late answers, lost connections, two dials |
| toolcall | 1 call of any of the 54 capabilities or of another client, 4 grants, words of 7 bits in groups of 2 | ExecutedAsTyped, FramesDelimited, OnlyTooLongIsInvalid, ResultShown, FailureShown, FileKept, ToolEnds | what was typed is what is executed, what is returned is what is printed |
| ctl | a TUI and a viv, 2 prompts, the first event with a long cost, 1 key, buffers of 1 | ShownIsCurrent, PromptsTruthful, CliAnswered, TuiAnswered | what operators see, and that nobody waits for ever |

Three more runs each end in a counterexample to something the repository says
of itself (`findings` in `PROJECT.json` quotes the lines): `reservation` (a
destroy that frees the name of a create in progress), `stale_reaper` (the reaper
of an old Ward removes the new Ward's pipe) and `ctl_loss` (a subscriber skipped
because another one left).

Seven more findings are disagreements between a document, or a comment, and the
code where the property of a passing run states exactly what the code does, with
the exception the document does not have:

* `HandledInOrder`: frames numbered 0 are not in order (`router.go:196`);
* `ContractSpec`: a reply that outlives its Ward may be matched to a call of the
  next one (`dispatch.go:124`);
* `DestroyLeavesNothing`: the debug socket of a Chrome that did not start or had
  ended by itself stays (`service.go:155`, `195-206`, `221-223`);
* `TextWhereLanded`: after a navigation that Chrome did not carry out a read
  returns the text of an earlier page or of an error page (`proxy.go:219`);
* `ResultShown`: the list fields of a result are never on the wire;
* `ShownIsCurrent`: the line of the last event may tell an older event than the
  line of the outcome (`tui.go:498`);
* `TuiAnswered`: one status that cannot be decoded freezes the TUI (`tui.go:226`).

Two more limits have no run of their own. Two writers of one Ward take their
numbers apart from the lock that orders their writes if one of them is a tool
call (`toolserver.go:178`, `main.go:134`), so they may be written in the other
order; the router drops the lower one as a rewind and its tool waits for its
timeout. `CapabilityCalls` has these steps, and `ContractSpec` and
`CallsReturn` say what still holds. And a session may be handed a Chrome that
chromed started for an acquire keeperd gave up on, configured with an HTTP proxy
keeperd has closed (`chromed.go:64`, `service.go:105`); `InstanceReachable` says
in its last conjunct when an instance surely has the current proxy.

### Bounds, and why they are enough

* Pipes of the router share nothing but the map of names, so one pipe shows
  what a pipe can do; the theorems cover any number. Sizes 1 and 4 against a
  budget of 5 and a peek of 2 reach every combination of the two charges:
  neither, the second, or the first over the budget, in an old or a new window.
* Numbers 0 to 2 are below, at and above the last one, and 0 is the case the
  code treats apart. Three frames are needed for: accepted, dropped for size,
  sent again.
* A call and an event are the smallest set of concurrent writers of a Ward that
  differ in how they take their number; a second Ward with a call of the same
  number is what a reply can be mistaken in. With frames of 1 and a budget of 1
  the router drops the second frame of a window. Two calls of one Ward are
  covered by the theorems, which are for any calls and Wards.
* Four creates let three incarnations' reapers be late at once. With a second
  control connection the properties of `lifecycle` do not hold, which is what
  `reservation` shows; `lifecycle` therefore has one connection, which handles
  its requests one by one, while Wards and reapers interleave with it.
* Threshold 2 is the smallest at which a loop exists; one retry gives a first
  and a last attempt.
* Two page reads are an acquire keeperd gave up and the one after it, or those
  of two Wards; with a destroy and a second Ward between them the reaper of the
  first Chrome can be late for the second.
* Two calls of a target under way at once need two reads; one poll stands for
  the up to fifty of the code, since a poll leaves nothing behind but an answer.
* Three connections give the array a first, a middle and a last element, and
  its growth from 0 to 1, 2 and 4 places; a queue of 1 fills at once. 64 is the
  code's value.
* Words of 7 bits in groups of 2 have varints of one to four bytes, the last
  with bits beyond the word, as 64 bits in groups of 7 have; `MCToolCall` gives
  every type its boundary values, every capability a command line with and
  without each of its flags, and other clients bytes that are cut off, too long,
  or name what does not exist. Of the pages to read, one has a text as long as a
  payload may be (60 bytes), so that the reply around it is too long. One byte
  is ill-formed text, on the way in and on the way out; 51 is the longest array,
  above every length of the samples but those of two requests of another client,
  127 bytes and a list of 52 texts.
* Two prompts give a second event that may meet the first one in a queue, and
  with queues of one an event that is dropped behind another; one key is a
  second status, which ends what the first left stale. The cost of the first
  event is too long for a status and that of the second is not, so a TUI may be
  frozen by the first or get past it. One TUI and one viv are
  the two kinds of client; they share only the entry and the Ward.
* `MaxSent`, `WireCap`, `MaxEvents`, `MaxCreates`, `MaxWards`, `MaxPolls` only bound the state space.

Deadlock is not checked: every instance may stop when its bound is used up, or
when no tool calls, no Ward exits and nobody asks for anything.

### Fairness

Weak fairness, and only of what the Go runtime or the code itself carries on: a
read loop and its handlers (each capability runs under a context of 30 s), a
tool call once begun (it has a timer of 60 s), a create or
destroy once begun, a reaper whose process has ended, a deregistration and a
fan-out, an acquire or release chromed has accepted, and its reapers, the loops
of a control connection, and `viv` and `capwrap` once started. The TUI may be
stopped by its terminal, so its loops are fair only in the hypothesis of
`TuiAnswered`. Nothing external is fair: no tool has to call, no Ward or LLM
subprocess to exit, no client to read its connection, nobody to create or
destroy. `TimeOut` is enabled as soon as a call waits: time is abstracted to
"may have passed".

## 4. Proofs

The first half of `CapabilityCalls_proofs` is about `Switchboard` alone. It has
the safety properties of the run `switchboard`, its type invariant
(`TypeCorrect`) among them, for every set of agents, pipes and frames, every
budget and peek. The assumption is `SwitchboardAssumption`: numbers and sizes are natural,
stamping a frame yields a frame that differs only in its sender.

`UsedOnce` and `CancelStops` prove two more (`NumberUsedOnce`, that the number of
a frame dropped for its size is never handled, and `NoNewIterationAfterCancel`),
which no run checks any more because the theorems cover every instance.

None of the properties is inductive alone. `HandledInOrder` and
`NumberUsedOnce` need that the last accepted number bounds every number handled
or dropped for size so far (`Accepted`): a new number is above it, hence above
all of them. `WithinBudget` needs that the limiter counts at least the bytes it
let pass (`Charged`). A pipe that is not in use has no history (`Fresh`), so
that `AddPipe` may give it an owner without breaking `Stamped`, and a used pipe
has an agent for owner (`Owned`). `IInv` is their conjunction. The proof states
the invariant pipe by pipe (`PipeInv`), shows that a step of one pipe leaves
the others alone (`PipeInvFrame`) and takes each action's effect on its own
pipe from lemmas about `Append` and the limiter (`AppendFacts`, `AppendApart`,
`ChargeFacts`), which keep sequences away from the arithmetic.

`AgentLifecycle_proofs` has `TypeOK` for any control connections and any number
of creates. It needs (`TInv`) that a request in progress has an incarnation, and
that it has started a Ward once it is past `Spawn`: only then may it register a
pipe and start a reaper. The four safety invariants of the run `lifecycle` are
proved for one connection (`OneAdmin`) and any number of creates; for two they
are false, as the runs `reservation` and `stale_reaper` show. The inductive
invariant says for every place the connection can be in what keeperd holds under
the name: the entry (`EntryInv`), the policy and the browser setting
(`GrantInv`), the pipe (`PipeInv`), the root filesystem and the Wards on it
(`WardInv`). It is needed because the properties speak of the moments between
requests or of running Wards, and say nothing of what a half-done create or
destroy has still to undo. `AdminStep` takes the actions one by one and the four
parts under each. The assumption is `LifecycleAssumption`.

`CdpTarget_proofs` has `OwnAnswer`, `PendingExact` and `TextWhereLanded` for any number
of page reads and polls. The numbers of a target only grow, so a number stands for one
call for ever (`Numbered`, `Distinct`); an entry of the table is that of a call in
progress whose channel is empty (`Entries`), so an answer that finds an entry
finds its own call (`Answers`). `Held` is about the moment in which the read loop
has taken an entry and not yet used it: the call may have returned and its read
read may have begun another one by then. `TextWhereLanded` needs `PageInv` besides:
until two reads overlap one read is under way (`Alone`); Chrome shows the page its
navigation left it at from the phase after the navigation on; and the answers that
Chrome may still give to its current call, that the read loop holds or that lie in
its channel have the text of that page (`Promised`), whatever earlier reads left on
their targets. The assumption is `CdpAssumption`: the absent
target is not a read, and a wait polls at least once.

`PromptRun_proofs` has `TypeOK`, `AbortIsFresh` and `ReportTellsLastAttempt` for
any prompts and tool calls, any threshold and any number of retries
(`PromptAssumption`). An abort is kept with the attempts under way when it was
stored; `Fresh` says that the one a scanning run will find has its own attempt
among them, since the run cleared the field when it began. `Stage` ties the
outcome to the process for every place of a run, which `ReportTellsLastAttempt`
only does at its end, and `Called` gives a tool call under way its caller.

The second half of `CapabilityCalls_proofs` proves that the round trip
implements `CapabilityContract` (`Refinement`), and `EventsNeverRewound`, for any number of
Wards, calls and events, any traffic, budget and pipe capacity. A
request is in one place until it is decided, on its pipe
or before the handler (`Requests`), hence decided once; a number is that of one
call of its Ward (`Numbers`), hence every reply on its way back carries the verdict
on the call it is given to, or on one of the same number in another Ward
(`Replies`), and a call that has not been written has neither
verdict nor outcome but a `pipe_error` (`Progress`). `StepRefines` maps `Decide` to
the contract's decision, `Receive`, `TransmitFails` and `TimeOut` to its outcomes,
`Allocate` to its call, and every other step to a stutter. `OwnInOneWard` says what
the contract comes to when all calls are made in one Ward: the exception does not
arise, and an outcome is the call's own verdict. `EventsPass` needs besides that an event on the
pipe is above all that was written before it (`Ascending`); of a request this is
not true. The inductive invariant is `CallsInv`; the assumptions are
`SwitchboardAssumption` and `CallsAssumption`.

`BrowserSession_proofs` has the properties of the run `browser` for any number
of page reads, destroys and Wards. `PoolInv` is chromed's half and holds
whatever keeperd does: a Chrome is started once, by its own acquire, and an
instance is that of an acquire that succeeded (`Chromes`); and when chromed
stops, whatever `ReleaseAll` did not find is known to have been in flight
(`Stopping`), which `ChromeAccounted` needs for the exit. `ReaperIsOwn` follows
from it step by step: a late reaper compares the process, and a process is that
of one request; and the open debug sockets of killed Chromes are those that a
release or an acquire is about to close. `SessionInv` is about both halves. `InstanceReachable` and
`DestroyLeavesNothing` speak of a session at rest; while an acquire, a read or a
destroy is under way each holds only because of what the others are not doing
(`OneAtATime`), so the invariant says for each place what the Chrome, the path
and the two proxies are by then (`Session`), and what a destroy has already
taken away (`TornDown`). This half holds until a read is given up or outlives
its agent (`Calm`); what happens afterwards is the limit of section 3. The
assumption is `PoolAssumption`: the absent request is none, the shutdown is no
destroy.

`CtlFanout_proofs` has the invariants of the run `fanout` for any connections,
events and queue slots. `SubsExact` is about the slice between removals; in the
middle of one an element stands twice, at the position of the removal, and
leaving this position out the slice is exact at every moment (`Slice`). A
fan-out reads its array without the lock, so it is shown to find connections
only, whatever was appended or shifted under it (`Copied`, theorem
`CopyNamesConnections`). `NoneForgotten` needs that, as long as nothing changed,
exactly the connections before the index of the fan-out were offered the event
(`Offered`), and `PushedInOrder` needs the same to exclude that one is offered
it twice, and that no queue is ahead of keeperd (`Ordered`). The assumption is
`FanoutAssumption`: `NoConn` is no connection, a queue has room for an event.

`CtlSession_proofs` has `PromptsTruthful` and `ShownIsCurrent` for any number of
prompts and keys and any room in the sockets, the queue and the TUI's channel.
For the prompts (`PromptInv`): a prompt is in one place, not sent yet, on a
socket or in a request loop, until keeperd has decided it (`OnePlace`), so it is
neither written nor acknowledged twice, and every acknowledgement, wherever it
is, tells what the Ward got (`AcksRight`). For the events (`EventInv`), as long
as keeperd runs and knows the agent: nothing under way to the TUI is newer than
the agent's entry, and statuses follow each other in the order they were built
(`InTurn`); and the event of the entry, unless excused, is about to be queued,
is the last in the queue, or is what the TUI shows after the last frame it has
coming (`Coming`). The last event queued is, likewise, the last one on its way or
the one the TUI has kept. `ShownIsCurrent` is the case in which nothing is coming
any more, and says nothing of the two writers of one connection that make it hard.
A frame the TUI cannot decode leaves it waiting for nothing, with what comes
after it for ever on the way.
The assumption is `CtlSessionAssumption`.

TLC finds the inductive invariants of the last three modules, and `PageInv`, to
hold on the instance of their run, `PageInv` also with two polls and that of
`CtlSession` also with buffers of 2.

`ToolCall_proofs` has the six invariants of the run `toolcall` for bytes and
words of any width, any callers, grants, samples and limits, and every capability
of `generated.go`. Its first half is the codec. A varint is read as the word that
was written and no byte of what follows is touched (`VarintRoundTrip`); so is a
field of every type (`FieldRoundTrip`), the arguments (`ArgsRoundTrip`) and
result (`ResultRoundTrip`) of every capability, a request of a tool and one of
the Ward, a response (`ResponseRoundTrip`), a header and a frame
(`FrameRoundTrip`). A request or a frame that is cut off anywhere is not read
(`ToolRequestCut`, `FrameCut`), nor is a frame or a detail over its limit
(`FrameTooLong`, the third part of `ResponseRoundTrip`): each reader takes all of
its part before the next one begins, so a cut is a cut of one part. These are
inductions over the value of a word and over the length of a list. They are made
over a set of numbers: one that has 0 and the successor of each of its members
has every number, because `<` is well-founded (`Induction`, from `WFMin`). That a
schema is a list of fields of known types is read off the 54 definitions
(`InfosOK`).

The second half is the call. The properties relate the two ends of it, so the
inductive invariant says for each piece of bytes under way what it encodes: the
request is what the caller made (`Asked`); the frame is that of a request the
Ward let pass (`Forwarded`) and the reply that of keeperd's verdict (`Replied`);
the verdict is that of a capability that ran with the decoded arguments, or a
refusal with one of keeperd's codes (`Decided`); and the answer is keeperd's
response as it was, the Ward's for one it could not read, one the Ward gave
before keeperd saw the call, its time-out, or a schema (`Answered`). `Fresh`
says that none of it is there before the Ward has read the request, `Shown` that
the tool shows what the answer decodes to, `Aborted` for what a prompt is
aborted, `FileIs` how the file differs. The round trips then turn each encoding
back into the value: `ArgumentsArrive` needs two of them, for the request and for
the frame, `ResultArrives` three, one of them with the fields that no bytes are
written for. What capwrap builds passes the Ward's validation (`CapwrapReceived`),
hence `CapwrapIsValid`, also that the Ward does not panic over it: a reader whose
bytes are all there never makes an array of more than there are (`AllocatedIs`).
`ResultArrives` relates the two sides by `ResultToJSON`, so it says exactly which
bytes the JSON of a result has in place of the capability's.

The assumptions of `ToolCall_proofs` are `CodecAssumption` and `LimitAssumption`
(the limits fit in an `int`, and names and numbers within theirs),
`CallAssumption` and `ResultAssumption` (a command line, a page and the values a
capability returns are such as Go's variables hold, and what is wrapped around
them still leaves a length that is an `int`), and `PowerAssumption`, which says
of powers of two that each is twice the one before. It is true of every instance
and TLC evaluates it; it is stated because the provers know of `^` only its type.

Only model-checked: the liveness properties, `WriterNeverWedged`, `CallsReturn`,
`ReportedUnlessHung`, `FanoutEnds`, `ToolEnds`, `CliAnswered` and `TuiAnswered`
(the prover has no ENABLED). Every invariant and every other action property of
a passing run is a theorem.

## 5. Not modelled

* The configuration (`internal/config`, `cmd/keeperd/config.go`): text parsed
  once, at start or in a create. Its failure is a failing step of
  `AgentLifecycle` (`Configure`).
* The audit database and `vivlog`: rows appended to SQLite and printed. Which
  frames are audited changes no other state.
* The migration from OpenClaw: one sequential conversion of files.
* The text of the system prompt, of help, lists and errors, and the layout of
  the TUI: no property is about wording.
* The parser of capability definitions in `vivgen`: what it emits is modelled
  (`CapabilityTypes`), not how it reads.
* The search for a free port and the URL patterns of the HTTP and CDP proxies;
  the bytes they and the forwarders of chromed copy; the WebSocket encoding.
* The sequence numbers of replies on the control socket: nobody reads them.
* Pings, which keeperd and a Ward never send each other.

## 6. Plan

Done: `Switchboard`, `CapabilityContract`, `CapabilityCalls`, `AgentLifecycle`,
`PromptRun`, `CtlFanout`, `ChromePool`, `BrowserSession`, `CdpTarget`,
`MusCodec`, `CapabilityTypes`, `ToolCall`, `CtlSession`, and the proofs of
`Switchboard`, `AgentLifecycle`, `CdpTarget`, `PromptRun`, `CapabilityCalls`,
`BrowserSession` (with `ChromePool`), `CtlFanout`, `CtlSession` and `ToolCall`
(with `MusCodec` and `CapabilityTypes`).

Next, in this order:

1. The port search with its wrap and the matching of URLs (`Allows`), each
   against a reference definition, in one algorithm run.
2. Lifecycle safety for several connections: what still holds of `lifecycle`
   when two of them work on one name.
