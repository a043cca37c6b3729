----------------------------- MODULE CtlSession -----------------------------
(***************************************************************************)
(* What an operator sees and does: the TUI (cmd/viv/tui.go) and one call   *)
(* of viv (cmd/viv/main.go), their connections to keeperd's control socket *)
(* (handleCtlConn, cmd/keeperd/main.go), the entry of one agent there, and *)
(* the events of its Ward.                                                 *)
(*                                                                         *)
(* keeperd serves each connection with two goroutines: the request loop,   *)
(* and the push goroutine of a subscriber; the agent's pipe has a read     *)
(* loop that handles the Ward's events (cmd/keeperd/dispatch.go).  The TUI *)
(* has a read loop, commands that send, and Bubble Tea's loop, for which a *)
(* command waits for the next message.                                     *)
(*                                                                         *)
(* An event is known by its place in the order keeperd handled the agent's *)
(* events, and carries what the views show of a prompt's outcome.  The     *)
(* fan-out over several subscribers is the subject of CtlFanout, creating  *)
(* and destroying agents that of AgentLifecycle.                           *)
(***************************************************************************)
EXTENDS Integers, Sequences, FiniteSets

CONSTANTS
  Tui, Cli,      (* the two connections                                     *)
  MaxPrompts,    (* prompts the operators may give, by number               *)
  TuiKeys,       (* what the TUI's keys ask for: "status", "ping"           *)
  CliTypes,      (* what viv may be called for besides a prompt             *)
  TooLong,       (* events whose cost is longer than a status may carry     *)
  None,
  BufCap,        (* frames a socket buffers in one direction                *)
  QueueCap,      (* pushCh (64), and the event its goroutine holds          *)
  MsgCap,        (* msgs, the TUI's channel (64), and the message its read  *)
                 (* loop holds                                              *)
  MaxKeys        (* how often the operator presses them                     *)

ASSUME CtlSessionAssumption ==
  /\ Tui # Cli /\ MaxPrompts \in Nat /\ None \notin 1..MaxPrompts
  /\ TuiKeys \subseteq {"status", "ping"}
  /\ CliTypes \subseteq {"status", "list", "ping", "destroy", "unreadable"}
  /\ {BufCap, QueueCap, MsgCap} \subseteq Nat \ {0} /\ MaxKeys \in Nat

Conns == {Tui, Cli}

VARIABLES
  ward,       (* "up" or "exited"                                           *)
  running,    (* prompts the Ward has and has not reported                  *)
  reported,   (* how many events it wrote                                   *)
  pipe,       (* those the pipe's loop has not read                         *)
  handling,   (* the event it handles, or 0                                 *)
  entry,      (* d.agents[id]: the last prompt and the last event           *)
  keeperd,    (* "up" or "gone"                                             *)
  toKeeperd, toClient,   (* the connections                                 *)
  serving,    (* what the request loop of a connection is doing             *)
  subscribed, pushCh,    (* the TUI's subscription                          *)
  sends,      (* requests the TUI's commands have not written yet           *)
  msgs,
  closed,     (* whether the TUI's read loop has ended                      *)
  waiting,    (* whether a command waits for the next message               *)
  connected, shown,      (* the TUI's model                                 *)
  keys,
  cli,        (* viv: "idle", what it waits for an answer to, "done",       *)
              (* "failed"                                                   *)
  given,      (* history: how many prompts were given                       *)
  unanswered, (* history: the TUI's requests it has no answer to            *)
  acked,      (* history: the acknowledgements that the clients took        *)
  delivered,  (* history: the prompts written to the Ward                   *)
  excused,    (* history: events the TUI may not know of                    *)
  queued,     (* history: the last event queued for the TUI                 *)
  garbled     (* history: whether the TUI read a frame it cannot decode     *)

wardVars == <<ward, running, reported>>
keeperVars == <<pipe, handling, entry>>
connVars == <<toKeeperd, toClient, serving>>
pushVars == <<subscribed, pushCh>>
tuiVars == <<sends, msgs, closed, waiting, connected, shown, keys>>
history == <<given, unanswered, acked, delivered, excused, queued, garbled>>
vars == <<wardVars, keeperVars, keeperd, connVars, pushVars, tuiVars, cli, history>>

Request(type, p) == [type |-> type, prompt |-> p]
Frame(type, body) == [type |-> type, body |-> body]
Ack(p, ok) == Frame("prompt", [prompt |-> p, ok |-> ok])
Lost == Frame("error", None)
Idle == [step |-> "read"]
At(c, step) == keeperd = "up" /\ serving[c].step = step
Replies(c, f) == serving' = [serving EXCEPT ![c] = [step |-> "write", frame |-> f]]

Init ==
  (* the agent runs, or there is no such agent *)
  /\ \/ ward = "up" /\ entry = [prompt |-> None, event |-> 0]
     \/ ward = "exited" /\ entry = None
  /\ running = {} /\ reported = 0 /\ pipe = <<>> /\ handling = 0
  /\ keeperd = "up"
  /\ toKeeperd = [c \in Conns |-> <<>>] /\ toClient = [c \in Conns |-> <<>>]
  /\ serving = [c \in Conns |-> Idle]
  /\ subscribed = FALSE /\ pushCh = <<>>
  (* tuiModel.Init: tea.Batch *)
  /\ sends = {Request("subscribe", None), Request("status", None)}
  /\ msgs = <<>> /\ closed = FALSE /\ waiting = TRUE
  /\ connected = FALSE /\ shown = [known |-> FALSE, status |-> 0, last |-> 0] /\ keys = 0
  /\ cli = "idle"
  /\ given = 0 /\ unanswered = 2 /\ acked = {} /\ delivered = {}
  /\ excused = {} /\ queued = 0 /\ garbled = FALSE

-----------------------------------------------------------------------------
(* Faulty variants of definitions below.  The specification does not use   *)
(* them.                                                                   *)

(* An event is pushed before it is noted in the agent's entry.             *)
HandlePushFirst ==
  /\ keeperd = "up"
  /\ \/ /\ handling = 0 /\ pipe # <<>>
        /\ handling' = Head(pipe) /\ pipe' = Tail(pipe)
        /\ LET room == subscribed /\ Len(pushCh) < QueueCap IN
           /\ pushCh' = IF room THEN Append(pushCh, Head(pipe)) ELSE pushCh
           /\ queued' = IF room THEN Head(pipe) ELSE queued
           /\ excused' = IF room THEN excused ELSE excused \cup {Head(pipe)}
        /\ UNCHANGED entry
     \/ /\ handling # 0 /\ handling' = 0
        /\ entry' = IF entry = None THEN None ELSE [entry EXCEPT !.event = handling]
        /\ UNCHANGED <<pipe, pushCh, excused, queued>>
  /\ UNCHANGED <<wardVars, keeperd, connVars, subscribed, tuiVars, cli,
                 given, unanswered, acked, delivered, garbled>>

(* Send's error is logged and forgotten.                                   *)
ForwardUnchecked(c) ==
  LET p == serving[c].prompt IN
  /\ At(c, "forward")
  /\ Replies(c, Ack(p, TRUE))
  /\ delivered' = IF ward = "up" THEN delivered \cup {p} ELSE delivered
  /\ running' = IF ward = "up" THEN running \cup {p} ELSE running
  /\ UNCHANGED <<ward, reported, keeperVars, keeperd, toKeeperd, toClient, pushVars,
                 tuiVars, cli, given, unanswered, acked, excused, queued, garbled>>

(* A prompt for an agent that is not there has no answer.                  *)
LookupSilent(c) ==
  LET p == Head(toKeeperd[c]).prompt IN
  /\ At(c, "read") /\ toKeeperd[c] # <<>> /\ Head(toKeeperd[c]).type = "prompt"
  /\ toKeeperd' = [toKeeperd EXCEPT ![c] = Tail(@)]
  /\ serving' = [serving EXCEPT ![c] =
       IF entry = None THEN Idle ELSE [step |-> "record", prompt |-> p]]
  /\ UNCHANGED <<wardVars, keeperVars, keeperd, toClient, pushVars, tuiVars, cli, history>>

(* Update sends by itself, in place of a command.                          *)
ReadyWhenSent == waiting /\ msgs # <<>> /\ sends = {}

-----------------------------------------------------------------------------
(* The Ward.                                                               *)

(* A prompt ended, and its event is written (handlePrompt).                *)
Report(p) ==
  /\ ward = "up"
  /\ running' = running \ {p}
  /\ reported' = reported + 1 /\ pipe' = Append(pipe, reported + 1)
  /\ UNCHANGED <<ward, handling, entry, keeperd, connVars, pushVars, tuiVars, cli, history>>

(* What it wrote last may be lost with it (see Switchboard).               *)
Dies ==
  /\ ward' = "exited" /\ running' = {}
  /\ \E n \in 0..Len(pipe) : pipe' = SubSeq(pipe, 1, n)

(* It exits by itself; its entry in keeperd stays as it is.                *)
WardExits ==
  /\ ward = "up" /\ Dies
  /\ UNCHANGED <<reported, handling, entry, keeperd, connVars, pushVars, tuiVars,
                 cli, history>>

-----------------------------------------------------------------------------
(* keeperd: the events.                                                    *)

(* updateAgentCompletionState, updateAgentFailureState                     *)
NoteEvent ==
  /\ handling = 0 /\ pipe # <<>>
  /\ handling' = Head(pipe) /\ pipe' = Tail(pipe)
  /\ entry' = IF entry = None THEN None ELSE [entry EXCEPT !.event = Head(pipe)]
  /\ UNCHANGED <<pushCh, excused, queued>>

(* pushToCtlSubscribers                                                    *)
PushEvent ==
  LET room == subscribed /\ Len(pushCh) < QueueCap IN
  /\ handling # 0 /\ handling' = 0
  /\ pushCh' = IF room THEN Append(pushCh, handling) ELSE pushCh
  /\ queued' = IF room THEN handling ELSE queued
  /\ excused' = IF room THEN excused ELSE excused \cup {handling}
  /\ UNCHANGED <<pipe, entry>>

Handle ==
  /\ keeperd = "up"
  /\ NoteEvent \/ PushEvent
  /\ UNCHANGED <<wardVars, keeperd, connVars, subscribed, tuiVars, cli,
                 given, unanswered, acked, delivered, garbled>>

(* The push goroutine writes the next event when there is room.  A status  *)
(* that the request loop has built before and writes after it will take    *)
(* its place in the TUI.                                                   *)
Overtakes(e) ==
  /\ serving[Tui].step = "write" /\ serving[Tui].frame.type = "status"
  /\ serving[Tui].frame.body # None => serving[Tui].frame.body.event < e

WritePush ==
  LET e == Head(pushCh) IN
  /\ keeperd = "up" /\ pushCh # <<>> /\ Len(toClient[Tui]) < BufCap
  /\ pushCh' = Tail(pushCh)
  /\ toClient' = [toClient EXCEPT ![Tui] = Append(@, Frame("event", e))]
  /\ excused' = IF Overtakes(e) THEN excused \cup {e} ELSE excused
  /\ UNCHANGED <<wardVars, keeperVars, keeperd, toKeeperd, serving, subscribed,
                 tuiVars, cli, given, unanswered, acked, delivered, queued, garbled>>

-----------------------------------------------------------------------------
(* keeperd: the request loop of a connection.                              *)

Dispatching(c, types) ==
  At(c, "read") /\ toKeeperd[c] # <<>> /\ Head(toKeeperd[c]).type \in types
Take(c) == toKeeperd' = [toKeeperd EXCEPT ![c] = Tail(@)]

Subscribe(c) ==
  /\ Dispatching(c, {"subscribe"}) /\ Take(c)
  /\ subscribed' = TRUE
  /\ Replies(c, Frame("subscribe", TRUE))
  /\ UNCHANGED <<wardVars, keeperVars, keeperd, toClient, pushCh, tuiVars, cli, history>>

(* buildStatus, buildAgentList; Ping; and a create or a destroy whose      *)
(* payload is over the limits of its reader, which has no reply.           *)
Answer(c) ==
  /\ Dispatching(c, {"status", "list", "ping", "unreadable"}) /\ Take(c)
  /\ LET type == Head(toKeeperd[c]).type IN
     CASE type \in {"status", "list"} -> Replies(c, Frame(type, entry))
       [] type = "ping" -> Replies(c, Frame("pong", None))
       [] type = "unreadable" -> UNCHANGED serving
  /\ UNCHANGED <<wardVars, keeperVars, keeperd, toClient, pushVars, tuiVars, cli, history>>

(* dispatchPrompt: look up, record, forward.  An entry that exists has a   *)
(* pipe here: a name that is only reserved is in AgentLifecycle.           *)
Lookup(c) ==
  LET p == Head(toKeeperd[c]).prompt IN
  /\ Dispatching(c, {"prompt"}) /\ Take(c)
  /\ IF entry = None THEN Replies(c, Ack(p, FALSE))
     ELSE serving' = [serving EXCEPT ![c] = [step |-> "record", prompt |-> p]]
  /\ UNCHANGED <<wardVars, keeperVars, keeperd, toClient, pushVars, tuiVars, cli, history>>

Record(c) ==
  /\ At(c, "record")
  /\ entry' = IF entry = None THEN None ELSE [entry EXCEPT !.prompt = serving[c].prompt]
  /\ serving' = [serving EXCEPT ![c].step = "forward"]
  /\ UNCHANGED <<wardVars, pipe, handling, keeperd, toKeeperd, toClient, pushVars,
                 tuiVars, cli, history>>

Forward(c) ==
  LET p == serving[c].prompt IN
  /\ At(c, "forward")
  /\ Replies(c, Ack(p, ward = "up"))
  /\ delivered' = IF ward = "up" THEN delivered \cup {p} ELSE delivered
  /\ running' = IF ward = "up" THEN running \cup {p} ELSE running
  /\ UNCHANGED <<ward, reported, keeperVars, keeperd, toKeeperd, toClient, pushVars,
                 tuiVars, cli, given, unanswered, acked, excused, queued, garbled>>

(* agentDestroy: the entry goes first, and later the Ward.                 *)
Forget(c) ==
  /\ Dispatching(c, {"destroy"}) /\ Take(c)
  /\ entry' = None
  /\ IF entry = None THEN Replies(c, Frame("destroy", FALSE))
     ELSE serving' = [serving EXCEPT ![c] = [step |-> "teardown"]]
  /\ UNCHANGED <<wardVars, pipe, handling, keeperd, toClient, pushVars, tuiVars, cli, history>>

Teardown(c) ==
  /\ At(c, "teardown")
  /\ Dies
  /\ Replies(c, Frame("destroy", TRUE))
  /\ UNCHANGED <<reported, handling, entry, keeperd, toKeeperd, toClient, pushVars,
                 tuiVars, cli, history>>

WriteReply(c) ==
  /\ At(c, "write") /\ Len(toClient[c]) < BufCap
  /\ toClient' = [toClient EXCEPT ![c] = Append(@, serving[c].frame)]
  /\ serving' = [serving EXCEPT ![c] = Idle]
  /\ UNCHANGED <<wardVars, keeperVars, keeperd, toKeeperd, pushVars, tuiVars, cli, history>>

Serve(c) ==
  \/ Subscribe(c) \/ Answer(c)
  \/ Lookup(c) \/ Record(c) \/ Forward(c)
  \/ Forget(c) \/ Teardown(c) \/ WriteReply(c)

(* keeperd stops; its memory goes with it, and what it has written to its  *)
(* connections can still be read.                                          *)
KeeperdStops ==
  /\ keeperd = "up" /\ keeperd' = "gone"
  /\ ward' = "exited" /\ running' = {}
  /\ pipe' = <<>> /\ handling' = 0 /\ entry' = None
  /\ toKeeperd' = [c \in Conns |-> <<>>] /\ serving' = [c \in Conns |-> Idle]
  /\ subscribed' = FALSE /\ pushCh' = <<>>
  /\ UNCHANGED <<reported, toClient, tuiVars, cli, history>>

-----------------------------------------------------------------------------
(* The TUI.                                                                *)

(* A command writes its request (liveTransport.send, one at a time and in  *)
(* no particular order), or reports that it could not.                     *)
Send(r) ==
  /\ r \in sends /\ sends' = sends \ {r}
  /\ \/ /\ keeperd = "up" /\ Len(toKeeperd[Tui]) < BufCap
        /\ toKeeperd' = [toKeeperd EXCEPT ![Tui] = Append(@, r)]
        /\ UNCHANGED connected
     \/ /\ keeperd = "gone"
        /\ connected' = FALSE
        /\ UNCHANGED toKeeperd
  /\ UNCHANGED <<wardVars, keeperVars, keeperd, toClient, serving, pushVars,
                 msgs, closed, waiting, shown, keys, cli, history>>

(* decodeTUIFrame.  A status is written with whatever the agent's last     *)
(* events said, and a cost of more than 32 characters, which an event may  *)
(* have, is refused by its reader.  Of all that keeperd writes to the TUI  *)
(* nothing else is refused.                                                *)
Undecodable(f) == f.type = "status" /\ f.body # None /\ f.body.event \in TooLong
Decoded(f) == IF Undecodable(f) THEN Lost ELSE f

(* readLoop: the next frame, decoded, or the error of decoding it, after   *)
(* which it reads on; or the end of the connection, after which it closes  *)
(* the channel.                                                            *)
ReadFrame ==
  /\ ~closed /\ Len(msgs) < MsgCap
  /\ \/ /\ toClient[Tui] # <<>>
        /\ msgs' = Append(msgs, Decoded(Head(toClient[Tui])))
        /\ toClient' = [toClient EXCEPT ![Tui] = Tail(@)]
        /\ garbled' = (garbled \/ Undecodable(Head(toClient[Tui])))
        /\ UNCHANGED closed
     \/ /\ toClient[Tui] = <<>> /\ keeperd = "gone"
        /\ msgs' = Append(msgs, Lost)
        /\ closed' = TRUE
        /\ UNCHANGED <<toClient, garbled>>
  /\ UNCHANGED <<wardVars, keeperVars, keeperd, toKeeperd, serving, pushVars, sends,
                 waiting, connected, shown, keys, cli,
                 given, unanswered, acked, delivered, excused, queued>>

Ready == waiting /\ msgs # <<>>

(* An earlier event is still to come, and will take the place of this one. *)
OlderComing(e) ==
  \/ \E i \in DOMAIN pushCh : pushCh[i] < e
  \/ \E s \in {toClient[Tui], msgs} : \E i \in DOMAIN s :
       s[i].type = "event" /\ s[i].body < e

(* Bubble Tea's loop gets what the waiting command received.  Only after   *)
(* an error, or a message it does not know, no command waits again.  An    *)
(* event changes the agent's status and is kept as its last event; a       *)
(* status replaces the status alone (syncSnapshots), and one that names no *)
(* agent leaves what is known of it for later.                             *)
Update ==
  LET m == Head(msgs) IN
  /\ Ready
  /\ msgs' = Tail(msgs)
  /\ waiting' = (m.type \in {"subscribe", "status", "prompt", "pong", "event"})
  /\ connected' = CASE m.type \in {"status", "event", "subscribe"} -> TRUE
                    [] m.type \in {"prompt", "pong"} -> connected
                    [] OTHER -> FALSE
  /\ shown' = CASE m.type = "event" -> [shown EXCEPT !.status = m.body, !.last = m.body]
                [] m.type = "status" ->
                     IF m.body = None THEN [shown EXCEPT !.known = FALSE]
                     ELSE [shown EXCEPT !.known = TRUE, !.status = m.body.event]
                [] OTHER -> shown
  /\ excused' = IF m.type = "status" /\ m.body # None /\ ~OlderComing(m.body.event)
                  THEN excused \ (1..m.body.event) ELSE excused
  /\ unanswered' = IF m.type \in {"event", "error"} THEN unanswered ELSE unanswered - 1
  /\ acked' = IF m.type = "prompt" THEN acked \cup {m.body} ELSE acked
  /\ UNCHANGED <<wardVars, keeperVars, keeperd, connVars, pushVars, sends, closed, keys,
                 cli, given, delivered, queued, garbled>>

(* lastOutcomeSummary, and with it the model, cost, tokens and detail of a *)
(* failure; and lastEventSummary, which prefers the last event itself to   *)
(* the time of it that a status names.                                     *)
OutcomeLine == shown.status
LastEventLine == IF shown.last # 0 THEN shown.last ELSE shown.status

(* handleKey.  A command that is waiting to be written is not given again. *)
Command(r) ==
  /\ r \notin sends /\ sends' = sends \cup {r}
  /\ unanswered' = unanswered + 1
  /\ UNCHANGED <<wardVars, keeperVars, keeperd, connVars, pushVars, msgs, closed, waiting,
                 connected, shown, cli, acked, delivered, excused, queued, garbled>>

KeyRefresh ==
  /\ keys < MaxKeys /\ keys' = keys + 1
  /\ \E t \in TuiKeys : Command(Request(t, None))
  /\ UNCHANGED given

(* The prompt typed for the agent that is shown.  Editing the text, and    *)
(* clearing it when an acknowledgement comes, is left out.                 *)
KeyEnter ==
  /\ shown.known /\ given < MaxPrompts
  /\ given' = given + 1
  /\ Command(Request("prompt", given + 1))
  /\ UNCHANGED keys

-----------------------------------------------------------------------------
(* viv with a command: one request, and then it waits for one reply.       *)

CliSend ==
  /\ cli = "idle" /\ keeperd = "up"
  /\ \E r \in {Request(t, None) : t \in CliTypes}
              \cup {Request("prompt", p) : p \in {given + 1} \cap 1..MaxPrompts} :
       /\ toKeeperd' = [toKeeperd EXCEPT ![Cli] = Append(@, r)]
       /\ cli' = r.type
       /\ given' = IF r.type = "prompt" THEN given + 1 ELSE given
  /\ UNCHANGED <<wardVars, keeperVars, keeperd, toClient, serving, pushVars, tuiVars,
                 unanswered, acked, delivered, excused, queued, garbled>>

CliRecv ==
  /\ cli \notin {"idle", "done", "failed"}
  /\ \/ /\ toClient[Cli] # <<>>
        /\ cli' = "done"
        /\ toClient' = [toClient EXCEPT ![Cli] = Tail(@)]
        /\ acked' = IF cli = "prompt" THEN acked \cup {Head(toClient[Cli]).body} ELSE acked
     \/ /\ toClient[Cli] = <<>> /\ keeperd = "gone"
        /\ cli' = "failed"
        /\ UNCHANGED <<toClient, acked>>
  /\ UNCHANGED <<wardVars, keeperVars, keeperd, toKeeperd, serving, pushVars, tuiVars,
                 given, unanswered, delivered, excused, queued, garbled>>

-----------------------------------------------------------------------------
Next ==
  \/ \E p \in running : Report(p)
  \/ WardExits \/ KeeperdStops
  \/ Handle \/ WritePush
  \/ \E c \in Conns : Serve(c)
  \/ \E r \in sends : Send(r)
  \/ ReadFrame \/ Update \/ KeyRefresh \/ KeyEnter
  \/ CliSend \/ CliRecv

(* keeperd's goroutines run, and so does viv.  Operators, the Ward and the *)
(* TUI, which its terminal may stop, need not do anything.                 *)
Fairness ==
  /\ WF_vars(Handle) /\ WF_vars(WritePush)
  /\ \A c \in Conns : WF_vars(Serve(c))
  /\ WF_vars(CliRecv)

Spec == Init /\ [][Next]_vars /\ Fairness

TuiRuns ==
  /\ WF_vars(\E r \in sends : Send(r))
  /\ WF_vars(ReadFrame) /\ WF_vars(Update)

-----------------------------------------------------------------------------
(* Properties.                                                             *)

(* Nothing of the agent's events, and no status, is on its way to the TUI. *)
Arrived ==
  /\ pipe = <<>> /\ handling = 0 /\ pushCh = <<>>
  /\ serving[Tui].step # "write" /\ toClient[Tui] = <<>> /\ msgs = <<>>

(* The outcome that the TUI shows is the one keeperd has, unless the TUI   *)
(* cannot know better: it was not subscribed yet, its queue was full, or a *)
(* status that was built before the event was written after it (the push   *)
(* goroutine and the request loop write without a common lock).  A status  *)
(* that no earlier event follows ends the excuse.  The line of the last    *)
(* event is another matter: it tells the last event that was queued for    *)
(* the TUI, however many statuses told of a later one since, and only when *)
(* none was ever queued what the status says.                              *)
ShownIsCurrent ==
  keeperd = "up" /\ Arrived =>
    /\ entry # None /\ entry.event \notin excused => OutcomeLine = entry.event
    /\ LastEventLine = IF queued # 0 THEN queued ELSE OutcomeLine

(* A prompt is acknowledged if and only if the Ward got it, and the prompt *)
(* that a status names is one the Ward got, is about to get, or could not  *)
(* get because it had exited (dispatchPrompt records before it sends).     *)
PromptsTruthful ==
  /\ \A a \in acked : a.ok <=> a.prompt \in delivered
  /\ entry # None /\ entry.prompt # None =>
       \/ entry.prompt \in delivered \/ ward = "exited"
       \/ \E c \in Conns : serving[c].step = "forward" /\ serving[c].prompt = entry.prompt

(* viv does not wait for ever, however long the TUI does not read, except  *)
(* for a create or destroy that keeperd cannot decode (dispatchCtl leaves  *)
(* the type of its reply at zero, which means no reply).                   *)
CliAnswered ==
  cli \in (CliTypes \ {"unreadable"}) \cup {"prompt"} ~> cli \in {"done", "failed"}

(* A TUI that runs gets an answer to every request, although both sockets, *)
(* its channel and its queue in keeperd may be full at once; and when      *)
(* keeperd is gone it says so.  It never stops waiting before, except for  *)
(* a frame that it cannot decode: after that it takes nothing more, and    *)
(* says already that the connection is lost.                               *)
TuiAnswered ==
  TuiRuns =>
    <>[](IF keeperd = "up" /\ ~garbled THEN unanswered = 0 ELSE ~connected)
=============================================================================
