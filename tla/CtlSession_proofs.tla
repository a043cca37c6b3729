------------------------- MODULE CtlSession_proofs -------------------------
(***************************************************************************)
(* Theorems about an operator's session with keeperd, for any number of    *)
(* prompts and keys and any room in the sockets, the queue and the TUI's   *)
(* channel.                                                                *)
(***************************************************************************)
EXTENDS CtlSession, TLAPS

Prompts == 1..MaxPrompts
Requests ==
  [type : {"subscribe", "status", "list", "ping", "destroy", "unreadable"}, prompt : {None}]
    \cup [type : {"prompt"}, prompt : Prompts]
Entries == [prompt : Prompts \cup {None}, event : Nat]
AckBodies == [prompt : Prompts, ok : BOOLEAN]
Frames ==
  [type : {"prompt"}, body : AckBodies] \cup [type : {"status", "list"}, body : Entries \cup {None}]
    \cup [type : {"pong", "error"}, body : {None}] \cup [type : {"subscribe", "destroy"}, body : BOOLEAN]
    \cup [type : {"event"}, body : Nat]
Steps ==
  [step : {"read", "teardown"}] \cup [step : {"record", "forward"}, prompt : Prompts]
    \cup [step : {"write"}, frame : Frames]

Typed ==
  /\ ward \in {"up", "exited"} /\ keeperd \in {"up", "gone"} /\ entry \in Entries \cup {None}
  /\ toKeeperd \in [Conns -> Seq(Requests)] /\ toClient \in [Conns -> Seq(Frames)]
  /\ serving \in [Conns -> Steps]
  /\ sends \subseteq Requests /\ msgs \in Seq(Frames)
  /\ given \in 0..MaxPrompts /\ delivered \subseteq 1..given /\ acked \subseteq AckBodies

EventsTyped ==
  /\ reported \in Nat /\ pipe \in Seq(Nat) /\ handling \in Nat /\ pushCh \in Seq(Nat) /\ queued \in Nat
  /\ shown \in [known : BOOLEAN, status : Nat, last : Nat]

(***************************************************************************)
(* The inductive invariant of the prompts.  A prompt is in one place at a  *)
(* time until keeperd decides it (OnePlace), and has neither been written  *)
(* to the Ward nor acknowledged before (Fresh); viv, which makes one       *)
(* request in its life, finds only its answer (CliOnce).                   *)
(***************************************************************************)
Asked(p) == Request("prompt", p) \in sends
Sent(c, i, p) == i \in 1..Len(toKeeperd[c]) /\ toKeeperd[c][i] = Request("prompt", p)
Held(c, p) == serving[c].step \in {"record", "forward"} /\ serving[c].prompt = p

InLoop(c, a) == serving[c] = [step |-> "write", frame |-> Frame("prompt", a)]
OnWire(c, a) == \E i \in 1..Len(toClient[c]) : toClient[c][i] = Frame("prompt", a)
InChannel(a) == \E i \in 1..Len(msgs) : msgs[i] = Frame("prompt", a)

Acks ==
  {a \in AckBodies : \/ a \in acked \/ InChannel(a)
                     \/ \E c \in Conns : InLoop(c, a) \/ OnWire(c, a)}

Fresh(p) == p <= given /\ p \notin delivered /\ \A a \in Acks : a.prompt # p

OnePlaceOf(p) ==
  /\ Asked(p) => /\ Fresh(p)
                 /\ \A c \in Conns : ~Held(c, p) /\ \A i \in Nat : ~Sent(c, i, p)
  /\ \A c \in Conns : \A i \in Nat :
       Sent(c, i, p) => /\ Fresh(p)
                        /\ \A d \in Conns :
                             ~Held(d, p) /\ \A j \in Nat : Sent(d, j, p) => c = d /\ i = j
  /\ \A c \in Conns : Held(c, p) => Fresh(p) /\ \A d \in Conns : Held(d, p) => c = d

OnePlace == \A p \in Prompts : OnePlaceOf(p)

AcksRight == \A a \in Acks : a.prompt <= given /\ (a.ok <=> a.prompt \in delivered)

CliOnce ==
  /\ cli = "idle" => toKeeperd[Cli] = <<>> /\ toClient[Cli] = <<>> /\ serving[Cli] = Idle
  /\ cli = "prompt" =>
       /\ \A i \in 1..Len(toKeeperd[Cli]) : toKeeperd[Cli][i].type = "prompt"
       /\ \A i \in 1..Len(toClient[Cli]) : toClient[Cli][i].type = "prompt"
       /\ serving[Cli].step # "teardown"
       /\ serving[Cli].step = "write" => serving[Cli].frame.type = "prompt"

Recorded ==
  entry # None /\ entry.prompt # None =>
    \/ entry.prompt \in delivered \/ ward = "exited"
    \/ \E c \in Conns : serving[c].step = "forward" /\ serving[c].prompt = entry.prompt

PromptInv == Typed /\ OnePlace /\ AcksRight /\ CliOnce /\ Recorded

(***************************************************************************)
(* The inductive invariant of the events, as long as keeperd runs and      *)
(* knows the agent.  Nothing on its way to the TUI is newer than the       *)
(* agent's entry, and statuses follow each other in the order they were    *)
(* built (InTurn); the event the entry names, unless it is excused, is     *)
(* about to be queued, the last one queued, or the last that the TUI will  *)
(* show of all it has coming (Coming).  What a connection buffers counts   *)
(* as the TUI will decode it.                                              *)
(***************************************************************************)
AsRead(s) == [i \in 1..Len(s) |-> Decoded(s[i])]
Stream == msgs \o AsRead(toClient[Tui])
Pushes == {"event"}
Shows == {"event", "status"}
Value(f) == IF f.type = "event" THEN f.body ELSE f.body.event
StatusAtHand == serving[Tui].step = "write" /\ serving[Tui].frame.type = "status"

Known(f, e) ==
  /\ f.type = "event" => f.body <= e
  /\ f.type = "status" => f.body # None /\ f.body.event <= e

Ordered(s, e) ==
  \A i \in 1..Len(s) :
    /\ Known(s[i], e)
    /\ \A j \in 1..Len(s) :
         i < j /\ s[i].type = "status" /\ s[j].type = "status" => s[i].body.event <= s[j].body.event

Precede(s, f) == \A i \in 1..Len(s) : s[i].type = "status" => s[i].body.event <= f.body.event

PipeInTurn ==
  /\ \A i \in 1..Len(pipe) : entry.event < pipe[i] /\ pipe[i] <= reported
  /\ \A i, j \in 1..Len(pipe) : i < j => pipe[i] < pipe[j]
  /\ entry.event <= reported
  /\ handling \in {0, entry.event}

WireInTurn ==
  /\ \A i \in 1..Len(pushCh) : pushCh[i] <= entry.event
  /\ Ordered(Stream, entry.event)
  /\ serving[Tui].step = "write" => /\ serving[Tui].frame.type # "event"
                                    /\ Known(serving[Tui].frame, entry.event)
  /\ StatusAtHand => Precede(Stream, serving[Tui].frame)

InTurn == PipeInTurn /\ WireInTurn

(* Of x and then the frames of s of the types in T, the last has e.        *)
EndsWith(T, x, s, e) ==
  /\ x # e => \E j \in 1..Len(s) : s[j].type \in T /\ Value(s[j]) = e
  /\ \A i \in 1..Len(s) :
       s[i].type \in T /\ Value(s[i]) # e =>
         \E j \in 1..Len(s) : i < j /\ s[j].type \in T /\ Value(s[j]) = e

Coming ==
  handling = 0 /\ entry.event \notin excused =>
    IF pushCh # <<>> THEN pushCh[Len(pushCh)] = entry.event
    ELSE /\ StatusAtHand => serving[Tui].frame.body.event = entry.event
         /\ EndsWith(Shows, shown.status, Stream, entry.event)

EventInv == keeperd = "up" /\ entry # None => InTurn /\ Coming

(* The last event of all that was pushed and has not been shown is the     *)
(* last that was queued; statuses have no part in it.                      *)
LastComing ==
  /\ serving[Tui].step = "write" => serving[Tui].frame.type # "event"
  /\ IF pushCh # <<>> THEN pushCh[Len(pushCh)] = queued
     ELSE EndsWith(Pushes, shown.last, Stream, queued)

LastInv == keeperd = "up" => LastComing

Inv == PromptInv /\ EventsTyped /\ EventInv /\ LastInv

-----------------------------------------------------------------------------
(* Sequences.                                                              *)

LEMMA AppendElems ==
  ASSUME NEW S, NEW s \in Seq(S), NEW e \in S
  PROVE  /\ Append(s, e) \in Seq(S) /\ Len(Append(s, e)) = Len(s) + 1
         /\ Append(s, e)[Len(s) + 1] = e /\ \A i \in 1..Len(s) : Append(s, e)[i] = s[i]
         /\ \A i \in 1..Len(Append(s, e)) : i \in 1..Len(s) \/ i = Len(s) + 1
OBVIOUS

LEMMA TailElems ==
  ASSUME NEW S, NEW s \in Seq(S), s # <<>>
  PROVE  /\ Tail(s) \in Seq(S) /\ Len(Tail(s)) = Len(s) - 1 /\ Len(s) \in Nat \ {0}
         /\ Head(s) \in S /\ Head(s) = s[1] /\ 1 \in 1..Len(s)
         /\ \A i \in 1..Len(Tail(s)) : i + 1 \in 1..Len(s) /\ Tail(s)[i] = s[i + 1]
OBVIOUS

LEMMA Elems ==
  ASSUME NEW S, NEW s \in Seq(S)
  PROVE  Len(s) \in Nat /\ \A i \in 1..Len(s) : s[i] \in S
OBVIOUS

-----------------------------------------------------------------------------
(* Types.                                                                  *)

LEMMA FrameTypes ==
  /\ \A a \in AckBodies : Frame("prompt", a) \in Frames
  /\ \A t \in {"status", "list"} : \A e \in Entries \cup {None} : Frame(t, e) \in Frames
  /\ \A t \in {"pong", "error"} : Frame(t, None) \in Frames
  /\ \A t \in {"subscribe", "destroy"} : \A b \in BOOLEAN : Frame(t, b) \in Frames
  /\ \A n \in Nat : Frame("event", n) \in Frames
BY DEF Frame, Frames

LEMMA StepTypes ==
  /\ Idle \in Steps /\ [step |-> "teardown"] \in Steps
  /\ \A p \in Prompts : \A s \in {"record", "forward"} : [step |-> s, prompt |-> p] \in Steps
  /\ \A f \in Frames : [step |-> "write", frame |-> f] \in Steps
BY DEF Steps, Idle

LEMMA RequestTypes ==
  /\ \A t \in {"subscribe", "status", "list", "ping", "destroy", "unreadable"} : Request(t, None) \in Requests
  /\ \A p \in Prompts : Request("prompt", p) \in Requests
BY DEF Request, Requests

LEMMA HeldTypes ==
  ASSUME NEW s \in Steps
  PROVE  /\ s.step \in {"record", "forward"} => s.prompt \in Prompts /\ s = [step |-> s.step, prompt |-> s.prompt]
         /\ s.step = "write" => s.frame \in Frames /\ s = [step |-> "write", frame |-> s.frame]
BY DEF Steps

LEMMA RequestPrompt ==
  ASSUME NEW r \in Requests
  PROVE  r.type = "prompt" => r.prompt \in Prompts /\ r = Request("prompt", r.prompt)
BY DEF Requests, Request

LEMMA FramePrompt ==
  ASSUME NEW f \in Frames
  PROVE  /\ f.type = "prompt" => f.body \in AckBodies /\ f = Frame("prompt", f.body)
         /\ f.type = "event" => f.body \in Nat
         /\ f.type = "status" => f.body \in Entries \cup {None}
BY DEF Frames, Frame

LEMMA TakeTyped ==
  ASSUME Typed, NEW c \in Conns, toKeeperd[c] # <<>>, Take(c)
  PROVE  toKeeperd' \in [Conns -> Seq(Requests)] /\ Head(toKeeperd[c]) \in Requests
<1>1. toKeeperd \in [Conns -> Seq(Requests)] /\ toKeeperd[c] \in Seq(Requests)
  BY DEF Typed
<1>2. Tail(toKeeperd[c]) \in Seq(Requests) /\ Head(toKeeperd[c]) \in Requests
  BY <1>1, TailElems
<1> QED
  BY <1>1, <1>2 DEF Take

LEMMA RepliesTyped ==
  ASSUME Typed, NEW c \in Conns, NEW f \in Frames, Replies(c, f)
  PROVE  serving' \in [Conns -> Steps]
BY StepTypes DEF Typed, Replies

LEMMA EntryTyped ==
  ASSUME entry \in Entries \cup {None}
  PROVE  /\ \A p \in Prompts :
              (IF entry = None THEN None ELSE [entry EXCEPT !.prompt = p]) \in Entries \cup {None}
         /\ \A n \in Nat :
              (IF entry = None THEN None ELSE [entry EXCEPT !.event = n]) \in Entries \cup {None}
BY DEF Entries

LEMMA TypedServe ==
  ASSUME Typed, OnePlace, NEW c \in Conns, Serve(c)
  PROVE  Typed'
<1>1. CASE Subscribe(c)
  <2>1. toKeeperd' \in [Conns -> Seq(Requests)]
    BY <1>1, TakeTyped DEF Subscribe, Dispatching
  <2>2. serving' \in [Conns -> Steps]
    BY <1>1, FrameTypes, RepliesTyped DEF Subscribe
  <2> QED
    BY <1>1, <2>1, <2>2 DEF Subscribe, wardVars, keeperVars, tuiVars, history, Typed
<1>2. CASE Answer(c)
  <2>1. toKeeperd' \in [Conns -> Seq(Requests)]
    BY <1>2, TakeTyped DEF Answer, Dispatching
  <2>2. serving' \in [Conns -> Steps]
    <3>1. CASE Head(toKeeperd[c]).type \in {"status", "list"}
      BY <1>2, <3>1, FrameTypes, RepliesTyped DEF Answer, Typed
    <3>2. CASE Head(toKeeperd[c]).type = "ping"
      BY <1>2, <3>2, FrameTypes, RepliesTyped DEF Answer, Typed
    <3>3. CASE Head(toKeeperd[c]).type = "unreadable"
      BY <1>2, <3>3 DEF Answer, Typed
    <3> QED
      BY <1>2, <3>1, <3>2, <3>3 DEF Answer, Dispatching
  <2> QED
    BY <1>2, <2>1, <2>2 DEF Answer, wardVars, keeperVars, tuiVars, history, Typed
<1>3. CASE Lookup(c)
  <2>1. toKeeperd' \in [Conns -> Seq(Requests)] /\ Head(toKeeperd[c]) \in Requests
    BY <1>3, TakeTyped DEF Lookup, Dispatching
  <2>2. Head(toKeeperd[c]).prompt \in Prompts
    BY <1>3, <2>1, RequestPrompt DEF Lookup, Dispatching
  <2>3. serving' \in [Conns -> Steps]
    <3>1. CASE entry = None
      <4>1. Ack(Head(toKeeperd[c]).prompt, FALSE) \in Frames
        BY <2>2, FrameTypes DEF Ack, AckBodies
      <4> QED
        BY <1>3, <3>1, <4>1, RepliesTyped DEF Lookup
    <3>2. CASE entry # None
      BY <1>3, <2>2, <3>2, StepTypes DEF Lookup, Typed
    <3> QED
      BY <3>1, <3>2
  <2> QED
    BY <1>3, <2>1, <2>3 DEF Lookup, wardVars, keeperVars, tuiVars, history, Typed
<1>4. CASE Record(c)
  <2>1. serving[c] \in Steps /\ serving[c].step = "record" /\ serving \in [Conns -> Steps]
    BY <1>4 DEF Record, At, Typed
  <2>2. serving[c].prompt \in Prompts /\ serving[c] = [step |-> "record", prompt |-> serving[c].prompt]
    BY <2>1, HeldTypes
  <2>3. serving' = [serving EXCEPT ![c] = [step |-> "forward", prompt |-> serving[c].prompt]]
    <3>1. [serving[c] EXCEPT !.step = "forward"] = [step |-> "forward", prompt |-> serving[c].prompt]
      BY <2>2
    <3> QED
      BY <1>4, <3>1 DEF Record
  <2>4. serving' \in [Conns -> Steps]
    BY <2>1, <2>2, <2>3, StepTypes
  <2>5. entry' \in Entries \cup {None}
    BY <1>4, <2>2, EntryTyped DEF Record, Typed
  <2> QED
    BY <1>4, <2>4, <2>5 DEF Record, wardVars, tuiVars, history, Typed
<1>5. CASE Forward(c)
  <2>1. serving[c].prompt \in Prompts /\ keeperd = "up" /\ serving[c].step = "forward"
    BY <1>5, HeldTypes DEF Forward, At, Typed
  <2>2. Ack(serving[c].prompt, ward = "up") \in Frames
    BY <2>1, FrameTypes DEF Ack, AckBodies
  <2>3. serving' \in [Conns -> Steps]
    BY <1>5, <2>2, RepliesTyped DEF Forward
  <2>4. serving[c].prompt \in 1..given
    <3>1. Held(c, serving[c].prompt)
      BY <2>1 DEF Held
    <3>2. Fresh(serving[c].prompt)
      BY <2>1, <3>1 DEF OnePlace, OnePlaceOf
    <3> QED
      BY <2>1, <3>2 DEF Fresh, Prompts, Typed
  <2>5. delivered' \subseteq 1..given
    BY <1>5, <2>4 DEF Forward, Typed
  <2> QED
    BY <1>5, <2>3, <2>5 DEF Forward, keeperVars, tuiVars, Typed
<1>6. CASE Forget(c)
  <2>1. toKeeperd' \in [Conns -> Seq(Requests)]
    BY <1>6, TakeTyped DEF Forget, Dispatching
  <2>2. serving' \in [Conns -> Steps]
    <3>1. CASE entry = None
      BY <1>6, <3>1, FrameTypes, RepliesTyped DEF Forget
    <3>2. CASE entry # None
      BY <1>6, <3>2, StepTypes DEF Forget, Typed
    <3> QED
      BY <3>1, <3>2
  <2> QED
    BY <1>6, <2>1, <2>2 DEF Forget, wardVars, tuiVars, history, Typed
<1>7. CASE Teardown(c)
  <2>1. serving' \in [Conns -> Steps]
    BY <1>7, FrameTypes, RepliesTyped DEF Teardown
  <2> QED
    BY <1>7, <2>1 DEF Teardown, Dies, tuiVars, history, Typed
<1>8. CASE WriteReply(c)
  <2>1. serving[c].frame \in Frames
    BY <1>8, HeldTypes DEF WriteReply, At, Typed
  <2>2. toClient \in [Conns -> Seq(Frames)] /\ toClient[c] \in Seq(Frames)
    BY DEF Typed
  <2>3. Append(toClient[c], serving[c].frame) \in Seq(Frames)
    BY <2>1, <2>2
  <2>4. toClient' \in [Conns -> Seq(Frames)]
    BY <1>8, <2>2, <2>3 DEF WriteReply
  <2>5. serving' \in [Conns -> Steps]
    BY <1>8, StepTypes DEF WriteReply, Typed
  <2> QED
    BY <1>8, <2>4, <2>5 DEF WriteReply, wardVars, keeperVars, tuiVars, history, Typed
<1> QED
  BY <1>1, <1>2, <1>3, <1>4, <1>5, <1>6, <1>7, <1>8 DEF Serve

LEMMA DecodedTypes ==
  ASSUME NEW f \in Frames
  PROVE  /\ Decoded(f) \in Frames
         /\ \/ Decoded(f) = f
            \/ Decoded(f) = Lost /\ Decoded(f).type = "error" /\ f.type = "status"
BY FrameTypes DEF Decoded, Undecodable, Lost, Frame

LEMMA TypedTui ==
  ASSUME Typed, (\E r \in sends : Send(r)) \/ ReadFrame \/ Update \/ KeyRefresh \/ KeyEnter
  PROVE  Typed'
<1>1. ASSUME NEW r \in sends, Send(r) PROVE Typed'
  <2>1. r \in Requests /\ sends' \subseteq Requests
    BY <1>1 DEF Send, Typed
  <2>2. toKeeperd' \in [Conns -> Seq(Requests)]
    <3>1. toKeeperd \in [Conns -> Seq(Requests)] /\ Append(toKeeperd[Tui], r) \in Seq(Requests)
      BY <2>1 DEF Typed, Conns
    <3> QED
      BY <1>1, <3>1 DEF Send
  <2> QED
    BY <1>1, <2>1, <2>2 DEF Send, wardVars, keeperVars, history, Typed
<1>2. CASE ReadFrame
  <2>1. toClient \in [Conns -> Seq(Frames)] /\ toClient[Tui] \in Seq(Frames) /\ msgs \in Seq(Frames)
    BY DEF Typed, Conns
  <2>2. CASE /\ toClient[Tui] # <<>> /\ msgs' = Append(msgs, Decoded(Head(toClient[Tui])))
             /\ toClient' = [toClient EXCEPT ![Tui] = Tail(@)]
    <3>1. Decoded(Head(toClient[Tui])) \in Frames /\ Tail(toClient[Tui]) \in Seq(Frames)
      BY <2>1, <2>2, TailElems, DecodedTypes
    <3>2. msgs' \in Seq(Frames)
      BY <2>1, <2>2, <3>1
    <3>3. toClient' \in [Conns -> Seq(Frames)]
      BY <2>1, <2>2, <3>1
    <3> QED
      BY <1>2, <3>2, <3>3 DEF ReadFrame, wardVars, keeperVars, history, Typed
  <2>3. CASE msgs' = Append(msgs, Lost) /\ UNCHANGED toClient
    <3>1. Lost \in Frames
      BY FrameTypes DEF Lost
    <3>2. msgs' \in Seq(Frames)
      BY <2>1, <2>3, <3>1
    <3> QED
      BY <1>2, <2>3, <3>2 DEF ReadFrame, wardVars, keeperVars, history, Typed
  <2> QED
    BY <1>2, <2>2, <2>3 DEF ReadFrame
<1>3. CASE Update
  <2>1. msgs \in Seq(Frames) /\ msgs # <<>>
    BY <1>3 DEF Update, Ready, Typed
  <2>2. msgs' \in Seq(Frames) /\ Head(msgs) \in Frames
    BY <1>3, <2>1, TailElems DEF Update
  <2>3. acked' \subseteq AckBodies
    BY <1>3, <2>2, FramePrompt DEF Update, Typed
  <2> QED
    BY <1>3, <2>2, <2>3 DEF Update, wardVars, keeperVars, connVars, Typed
<1>4. CASE KeyRefresh
  <2>1. PICK t \in TuiKeys : Command(Request(t, None))
    BY <1>4 DEF KeyRefresh
  <2>2. Request(t, None) \in Requests
    BY CtlSessionAssumption, RequestTypes
  <2> QED
    BY <1>4, <2>1, <2>2 DEF KeyRefresh, Command, wardVars, keeperVars, connVars, Typed
<1>5. CASE KeyEnter
  <2>1. given + 1 \in Prompts /\ given' = given + 1 /\ given' \in 0..MaxPrompts /\ 1..given \subseteq 1..given'
    BY <1>5, CtlSessionAssumption DEF KeyEnter, Prompts, Typed
  <2>2. Request("prompt", given + 1) \in Requests
    BY <2>1, RequestTypes
  <2> QED
    BY <1>5, <2>1, <2>2 DEF KeyEnter, Command, wardVars, keeperVars, connVars, Typed
<1> QED
  BY <1>1, <1>2, <1>3, <1>4, <1>5

LEMMA TypedCli ==
  ASSUME Typed, CliOnce, CliSend \/ CliRecv
  PROVE  Typed'
<1>1. CASE CliSend
  <2>1. PICK r \in {Request(t, None) : t \in CliTypes}
                     \cup {Request("prompt", p) : p \in {given + 1} \cap 1..MaxPrompts} :
          /\ toKeeperd' = [toKeeperd EXCEPT ![Cli] = Append(@, r)]
          /\ given' = IF r.type = "prompt" THEN given + 1 ELSE given
    BY <1>1 DEF CliSend
  <2>2. r \in Requests /\ given' \in 0..MaxPrompts /\ 1..given \subseteq 1..given'
    <3>1. CASE r \in {Request(t, None) : t \in CliTypes}
      <4>1. r \in Requests /\ r.type # "prompt"
        BY <3>1, CtlSessionAssumption, RequestTypes DEF Request
      <4> QED
        BY <2>1, <4>1 DEF Typed
    <3>2. CASE r \in {Request("prompt", p) : p \in {given + 1} \cap 1..MaxPrompts}
      <4>1. given + 1 \in 1..MaxPrompts /\ r = Request("prompt", given + 1) /\ given \in Nat
        BY <3>2, CtlSessionAssumption DEF Typed
      <4>2. r \in Requests /\ r.type = "prompt"
        BY <4>1, RequestTypes DEF Request, Prompts
      <4> QED
        BY <2>1, <4>1, <4>2, CtlSessionAssumption
    <3> QED
      BY <3>1, <3>2
  <2>3. toKeeperd' \in [Conns -> Seq(Requests)]
    <3>1. toKeeperd \in [Conns -> Seq(Requests)] /\ Append(toKeeperd[Cli], r) \in Seq(Requests)
      BY <2>2 DEF Typed, Conns
    <3> QED
      BY <2>1, <3>1
  <2> QED
    BY <1>1, <2>2, <2>3 DEF CliSend, wardVars, keeperVars, tuiVars, Typed
<1>2. CASE CliRecv
  <2>1. toClient \in [Conns -> Seq(Frames)] /\ toClient[Cli] \in Seq(Frames)
    BY DEF Typed, Conns
  <2>2. CASE /\ toClient[Cli] # <<>>
             /\ toClient' = [toClient EXCEPT ![Cli] = Tail(@)]
             /\ acked' = IF cli = "prompt" THEN acked \cup {Head(toClient[Cli]).body} ELSE acked
    <3>1. /\ Tail(toClient[Cli]) \in Seq(Frames) /\ Head(toClient[Cli]) \in Frames
          /\ Head(toClient[Cli]) = toClient[Cli][1] /\ 1 \in 1..Len(toClient[Cli])
      BY <2>1, <2>2, TailElems
    <3>2. toClient' \in [Conns -> Seq(Frames)]
      BY <2>1, <2>2, <3>1
    <3>3. cli = "prompt" => Head(toClient[Cli]).type = "prompt"
      BY <3>1 DEF CliOnce
    <3>4. acked' \subseteq AckBodies
      BY <2>2, <3>1, <3>3, FramePrompt DEF Typed
    <3> QED
      BY <1>2, <3>2, <3>4 DEF CliRecv, wardVars, keeperVars, tuiVars, Typed
  <2>3. CASE UNCHANGED <<toClient, acked>>
    BY <1>2, <2>3 DEF CliRecv, wardVars, keeperVars, tuiVars, Typed
  <2> QED
    BY <1>2, <2>2, <2>3 DEF CliRecv
<1> QED
  BY <1>1, <1>2

LEMMA TypedEvents ==
  ASSUME Typed, EventsTyped,
         (\E p \in running : Report(p)) \/ WardExits \/ KeeperdStops \/ Handle \/ WritePush
  PROVE  Typed'
<1>1. ASSUME NEW p \in running, Report(p) PROVE Typed'
  BY <1>1 DEF Report, connVars, tuiVars, history, Typed
<1>2. CASE WardExits
  BY <1>2 DEF WardExits, Dies, connVars, tuiVars, history, Typed
<1>3. CASE KeeperdStops
  <2>1. toKeeperd' \in [Conns -> Seq(Requests)] /\ serving' \in [Conns -> Steps]
    BY <1>3, StepTypes DEF KeeperdStops
  <2> QED
    BY <1>3, <2>1 DEF KeeperdStops, tuiVars, history, Typed
<1>4. CASE Handle
  <2>1. entry' \in Entries \cup {None}
    <3>1. CASE NoteEvent
      <4>1. Head(pipe) \in Nat
        BY <3>1, TailElems DEF NoteEvent, EventsTyped
      <4> QED
        BY <3>1, <4>1, EntryTyped DEF NoteEvent, Typed
    <3>2. CASE PushEvent
      BY <3>2 DEF PushEvent, Typed
    <3> QED
      BY <1>4, <3>1, <3>2 DEF Handle
  <2> QED
    BY <1>4, <2>1 DEF Handle, wardVars, connVars, tuiVars, Typed
<1>5. CASE WritePush
  <2>1. Head(pushCh) \in Nat
    BY <1>5, TailElems DEF WritePush, EventsTyped
  <2>2. Frame("event", Head(pushCh)) \in Frames
    BY <2>1, FrameTypes
  <2>3. toClient \in [Conns -> Seq(Frames)] /\ Append(toClient[Tui], Frame("event", Head(pushCh))) \in Seq(Frames)
    BY <2>2 DEF Typed, Conns
  <2>4. toClient' \in [Conns -> Seq(Frames)]
    BY <1>5, <2>3 DEF WritePush
  <2> QED
    BY <1>5, <2>4 DEF WritePush, wardVars, keeperVars, tuiVars, Typed
<1> QED
  BY <1>1, <1>2, <1>3, <1>4, <1>5

LEMMA EventsTypedStep ==
  ASSUME Typed, EventsTyped, [Next]_vars
  PROVE  EventsTyped'
<1>1. CASE \E p \in running : Report(p)
  BY <1>1 DEF Report, EventsTyped, pushVars, tuiVars, history
<1>2. CASE Handle
  <2>1. CASE NoteEvent
    BY <1>2, <2>1, TailElems DEF NoteEvent, Handle, EventsTyped, wardVars, tuiVars, history
  <2>2. CASE PushEvent
    BY <1>2, <2>2 DEF PushEvent, Handle, EventsTyped, wardVars, tuiVars, history
  <2> QED
    BY <1>2, <2>1, <2>2 DEF Handle
<1>3. CASE WritePush
  BY <1>3, TailElems DEF WritePush, EventsTyped, wardVars, keeperVars, tuiVars, history
<1>4. CASE KeeperdStops
  BY <1>4 DEF KeeperdStops, EventsTyped, tuiVars, history
<1>5. CASE Update
  <2>1. Head(msgs) \in Frames
    BY <1>5, TailElems DEF Update, Ready, Typed
  <2>2. shown' \in [known : BOOLEAN, status : Nat, last : Nat]
    <3>1. CASE Head(msgs).type = "event"
      BY <1>5, <2>1, <3>1, FramePrompt DEF Update, EventsTyped
    <3>2. CASE Head(msgs).type = "status" /\ Head(msgs).body = None
      BY <1>5, <3>2 DEF Update, EventsTyped
    <3>3. CASE Head(msgs).type = "status" /\ Head(msgs).body # None
      <4>1. Head(msgs).body.event \in Nat
        BY <2>1, <3>3, FramePrompt DEF Entries
      <4> QED
        BY <1>5, <3>3, <4>1 DEF Update, EventsTyped
    <3>4. CASE Head(msgs).type \notin {"event", "status"}
      BY <1>5, <3>4 DEF Update, EventsTyped
    <3> QED
      BY <3>1, <3>2, <3>3, <3>4
  <2> QED
    BY <1>5, <2>2 DEF Update, EventsTyped, wardVars, keeperVars, pushVars
<1>6. CASE WardExits
  <2>1. pipe' \in Seq(Nat)
    BY <1>6 DEF WardExits, Dies, EventsTyped
  <2> QED
    BY <1>6, <2>1 DEF WardExits, EventsTyped, pushVars, tuiVars, history
<1>7. ASSUME NEW c \in Conns, Serve(c) PROVE EventsTyped'
  <2>1. CASE Teardown(c)
    <3>1. pipe' \in Seq(Nat)
      BY <2>1 DEF Teardown, Dies, EventsTyped
    <3> QED
      BY <2>1, <3>1 DEF Teardown, EventsTyped, pushVars, tuiVars, history
  <2>2. CASE Subscribe(c) \/ Answer(c) \/ Lookup(c) \/ Record(c) \/ Forward(c) \/ Forget(c) \/ WriteReply(c)
    BY <2>2 DEF Subscribe, Answer, Lookup, Record, Forward, Forget, WriteReply, EventsTyped,
                wardVars, keeperVars, pushVars, tuiVars, history
  <2> QED
    BY <1>7, <2>1, <2>2 DEF Serve
<1>8. CASE (\E r \in sends : Send(r)) \/ ReadFrame \/ KeyRefresh \/ KeyEnter \/ CliSend \/ CliRecv
  BY <1>8 DEF Send, ReadFrame, KeyRefresh, KeyEnter, Command, CliSend, CliRecv, EventsTyped,
              wardVars, keeperVars, pushVars, tuiVars, history
<1>9. CASE UNCHANGED vars
  BY <1>9 DEF vars, EventsTyped, wardVars, keeperVars, pushVars, tuiVars, history
<1> QED
  BY <1>1, <1>2, <1>3, <1>4, <1>5, <1>6, <1>7, <1>8, <1>9 DEF Next

-----------------------------------------------------------------------------
(* The prompts.  First what any step keeps that moves no prompt: it may    *)
(* take requests from the front of a connection, by k.                     *)

LEMMA StaysInPlace ==
  ASSUME NEW p \in Prompts, OnePlaceOf(p), NEW k \in [Conns -> Nat],
         Asked(p)' => Asked(p),
         \A c \in Conns : \A i \in Nat : Sent(c, i, p)' => Sent(c, i + k[c], p),
         \A c \in Conns : Held(c, p)' => Held(c, p),
         Fresh(p) => Fresh(p)'
  PROVE  OnePlaceOf(p)'
<1>1. ASSUME Asked(p)'
      PROVE  Fresh(p)' /\ \A c \in Conns : ~Held(c, p)' /\ \A i \in Nat : ~Sent(c, i, p)'
  <2>1. \A c \in Conns : \A i \in Nat : i + k[c] \in Nat
    OBVIOUS
  <2> QED
    BY <1>1, <2>1 DEF OnePlaceOf
<1>2. ASSUME NEW c \in Conns, NEW i \in Nat, Sent(c, i, p)', NEW d \in Conns
      PROVE  Fresh(p)' /\ ~Held(d, p)' /\ \A j \in Nat : Sent(d, j, p)' => c = d /\ i = j
  <2>1. i + k[c] \in Nat /\ Sent(c, i + k[c], p) /\ k[c] \in Nat
    BY <1>2
  <2>2. Fresh(p) /\ ~Held(d, p) /\ \A j \in Nat : Sent(d, j, p) => c = d /\ i + k[c] = j
    BY <2>1 DEF OnePlaceOf
  <2>3. ASSUME NEW j \in Nat, Sent(d, j, p)' PROVE c = d /\ i = j
    <3>1. j + k[d] \in Nat /\ Sent(d, j + k[d], p) /\ k[d] \in Nat
      BY <2>3
    <3>2. c = d /\ i + k[c] = j + k[d]
      BY <2>2, <3>1
    <3> QED
      BY <2>1, <3>1, <3>2
  <2> QED
    BY <2>2, <2>3
<1>3. ASSUME NEW c \in Conns, Held(c, p)', NEW d \in Conns
      PROVE  Fresh(p)' /\ (Held(d, p)' => c = d)
  BY <1>3 DEF OnePlaceOf
<1>4. \A c \in Conns : \A i \in Nat :
        Sent(c, i, p)' => /\ Fresh(p)'
                          /\ \A d \in Conns :
                               ~Held(d, p)' /\ \A j \in Nat : Sent(d, j, p)' => c = d /\ i = j
  BY <1>2
<1>5. \A c \in Conns : Held(c, p)' => Fresh(p)' /\ \A d \in Conns : Held(d, p)' => c = d
  BY <1>3
<1> QED
  BY <1>1, <1>4, <1>5 DEF OnePlaceOf

LEMMA StaysFresh ==
  ASSUME NEW p \in Prompts, Fresh(p), given \in Nat, given' \in Nat, given <= given', p \notin delivered',
         \A a \in Acks' : a \in Acks \/ a.prompt # p
  PROVE  Fresh(p)'
BY DEF Fresh, Prompts

(* A step that decides no prompt keeps what is known of those decided.     *)
LEMMA AcksStay ==
  ASSUME Typed, AcksRight, given <= given', given' \in Nat, delivered' = delivered, Acks' \subseteq Acks
  PROVE  AcksRight'
<1>1. \A a \in Acks : a.prompt \in Nat /\ a.prompt <= given /\ (a.ok <=> a.prompt \in delivered)
  BY DEF AcksRight, Acks, AckBodies, Prompts
<1>2. given \in Nat
  BY CtlSessionAssumption DEF Typed
<1> QED
  BY <1>1, <1>2 DEF AcksRight

(* Where an acknowledgement can be after a step, by what the step does to  *)
(* the place.                                                              *)
LEMMA AcksSame ==
  ASSUME UNCHANGED <<acked, serving, toClient, msgs>>
  PROVE  Acks' = Acks
BY DEF Acks, InLoop, OnWire, InChannel

LEMMA AcksServing ==
  ASSUME UNCHANGED <<acked, toClient, msgs>>, NEW c \in Conns, serving \in [Conns -> Steps], NEW s,
         serving' = [serving EXCEPT ![c] = s]
  PROVE  \A a \in Acks' : a \in Acks \/ s = [step |-> "write", frame |-> Frame("prompt", a)]
<1>1. ASSUME NEW a \in AckBodies, NEW d \in Conns, InLoop(d, a)'
      PROVE  InLoop(d, a) \/ s = [step |-> "write", frame |-> Frame("prompt", a)]
  BY <1>1 DEF InLoop
<1> QED
  BY <1>1 DEF Acks, OnWire, InChannel

LEMMA NotAnAck ==
  ASSUME NEW a
  PROVE  /\ Idle # [step |-> "write", frame |-> Frame("prompt", a)]
         /\ [step |-> "teardown"] # [step |-> "write", frame |-> Frame("prompt", a)]
         /\ \A s \in {"record", "forward"} : \A p :
              [step |-> s, prompt |-> p] # [step |-> "write", frame |-> Frame("prompt", a)]
         /\ \A f : [step |-> "write", frame |-> f] = [step |-> "write", frame |-> Frame("prompt", a)] =>
              f.type = "prompt" /\ f.body = a
<1>1. /\ Idle.step = "read" /\ [step |-> "teardown"].step = "teardown"
      /\ [step |-> "write", frame |-> Frame("prompt", a)].step = "write"
      /\ \A s, p : [step |-> s, prompt |-> p].step = s
  BY DEF Idle
<1>2. ASSUME NEW f, [step |-> "write", frame |-> f] = [step |-> "write", frame |-> Frame("prompt", a)]
      PROVE  f.type = "prompt" /\ f.body = a
  <2>1. f = Frame("prompt", a)
    <3>1. /\ [step |-> "write", frame |-> f].frame = f
          /\ [step |-> "write", frame |-> Frame("prompt", a)].frame = Frame("prompt", a)
      OBVIOUS
    <3> QED
      BY <1>2, <3>1
  <2> QED
    BY <2>1 DEF Frame
<1> QED
  BY <1>1, <1>2

LEMMA AcksWritten ==
  ASSUME Typed, UNCHANGED <<acked, msgs>>, NEW c \in Conns, NEW f \in Frames,
         toClient' = [toClient EXCEPT ![c] = Append(toClient[c], f)],
         \A d \in Conns : \A a \in AckBodies : InLoop(d, a)' => InLoop(d, a),
         \A a \in AckBodies : f = Frame("prompt", a) => InLoop(c, a)
  PROVE  Acks' \subseteq Acks
<1>1. toClient \in [Conns -> Seq(Frames)] /\ toClient[c] \in Seq(Frames)
  BY DEF Typed
<1>2. ASSUME NEW a \in AckBodies, NEW d \in Conns, OnWire(d, a)'
      PROVE  OnWire(d, a) \/ InLoop(c, a)
  <2>1. CASE d # c
    <3>1. toClient'[d] = toClient[d]
      BY <1>1, <2>1
    <3> QED
      BY <1>2, <3>1 DEF OnWire
  <2>2. CASE d = c
    <3>1. toClient'[c] = Append(toClient[c], f)
      BY <1>1
    <3>2. PICK i \in 1..Len(toClient'[c]) : toClient'[c][i] = Frame("prompt", a)
      BY <1>2, <2>2 DEF OnWire
    <3>3. (i \in 1..Len(toClient[c]) /\ toClient[c][i] = Frame("prompt", a)) \/ f = Frame("prompt", a)
      BY <1>1, <3>1, <3>2, AppendElems
    <3> QED
      BY <2>2, <3>3 DEF OnWire
  <2> QED
    BY <2>1, <2>2
<1> QED
  BY <1>2 DEF Acks, InChannel

(* The next frame of a connection is taken, and an acknowledgement goes on *)
(* to the TUI's channel or to what the clients took.                       *)
LEMMA AcksRead ==
  ASSUME Typed, UNCHANGED serving, NEW c \in Conns, toClient[c] # <<>>,
         toClient' = [toClient EXCEPT ![c] = Tail(toClient[c])],
         acked' \subseteq acked \cup {a \in AckBodies : Head(toClient[c]) = Frame("prompt", a)},
         \A a \in AckBodies : InChannel(a)' => InChannel(a) \/ Head(toClient[c]) = Frame("prompt", a)
  PROVE  Acks' \subseteq Acks
<1>1. toClient \in [Conns -> Seq(Frames)] /\ toClient[c] \in Seq(Frames)
  BY DEF Typed
<1>2. /\ Head(toClient[c]) = toClient[c][1] /\ 1 \in 1..Len(toClient[c])
      /\ \A i \in 1..Len(Tail(toClient[c])) :
           i + 1 \in 1..Len(toClient[c]) /\ Tail(toClient[c])[i] = toClient[c][i + 1]
  BY <1>1, TailElems
<1>3. \A a : Head(toClient[c]) = Frame("prompt", a) => OnWire(c, a)
  BY <1>2 DEF OnWire
<1>4. ASSUME NEW a \in AckBodies, NEW d \in Conns, OnWire(d, a)' PROVE OnWire(d, a)
  <2>1. CASE d = c
    <3>1. toClient'[d] = Tail(toClient[c])
      BY <1>1, <2>1
    <3> QED
      BY <1>2, <1>4, <2>1, <3>1 DEF OnWire
  <2>2. CASE d # c
    <3>1. toClient'[d] = toClient[d]
      BY <1>1, <2>2
    <3> QED
      BY <1>4, <3>1 DEF OnWire
  <2> QED
    BY <2>1, <2>2
<1> QED
  BY <1>3, <1>4 DEF Acks, InLoop

(* Taking the next request of a connection.                                *)
LEMMA Taken ==
  ASSUME Typed, NEW c \in Conns, toKeeperd[c] # <<>>, Take(c), NEW p
  PROVE  /\ \A d \in Conns : \A i \in Nat : Sent(d, i, p)' => Sent(d, i + (IF d = c THEN 1 ELSE 0), p)
         /\ Head(toKeeperd[c]) = Request("prompt", p) => Sent(c, 1, p)
         /\ \A i \in Nat : Sent(c, i, p)' => i # 0
<1>1. toKeeperd \in [Conns -> Seq(Requests)] /\ toKeeperd[c] \in Seq(Requests)
  BY DEF Typed
<1>2. /\ Head(toKeeperd[c]) = toKeeperd[c][1] /\ 1 \in 1..Len(toKeeperd[c])
      /\ \A i \in 1..Len(Tail(toKeeperd[c])) :
           i + 1 \in 1..Len(toKeeperd[c]) /\ Tail(toKeeperd[c])[i] = toKeeperd[c][i + 1]
  BY <1>1, TailElems
<1>3. ASSUME NEW d \in Conns, NEW i \in Nat, Sent(d, i, p)'
      PROVE  Sent(d, i + (IF d = c THEN 1 ELSE 0), p)
  <2>1. CASE d = c
    <3>1. toKeeperd'[d] = Tail(toKeeperd[c])
      BY <1>1, <2>1 DEF Take
    <3> QED
      BY <1>2, <1>3, <2>1, <3>1 DEF Sent
  <2>2. CASE d # c
    <3>1. toKeeperd'[d] = toKeeperd[d] /\ i + 0 = i
      BY <1>1, <2>2 DEF Take
    <3> QED
      BY <1>3, <2>2, <3>1 DEF Sent
  <2> QED
    BY <2>1, <2>2
<1> QED
  BY <1>2, <1>3 DEF Sent

LEMMA Undecided ==
  ASSUME Typed, OnePlace, AcksRight, NEW k \in [Conns -> Nat],
         \A p \in Prompts :
           /\ Asked(p)' => Asked(p)
           /\ \A d \in Conns : \A i \in Nat : Sent(d, i, p)' => Sent(d, i + k[d], p)
           /\ \A d \in Conns : Held(d, p)' => Held(d, p),
         Acks' \subseteq Acks, given' \in Nat, given <= given', delivered' = delivered
  PROVE  OnePlace' /\ AcksRight'
<1>1. AcksRight'
  BY AcksStay
<1>2. ASSUME NEW p \in Prompts PROVE OnePlaceOf(p)'
  <2>1. Fresh(p) => Fresh(p)'
    <3>1. given \in Nat
      BY CtlSessionAssumption DEF Typed
    <3>2. Fresh(p) => p \notin delivered'
      BY DEF Fresh
    <3> QED
      BY <3>1, <3>2, StaysFresh
  <2> QED
    BY <2>1, StaysInPlace DEF OnePlace
<1> QED
  BY <1>1, <1>2 DEF OnePlace

(* The same, for the prompts other than q, when a step decides q or moves  *)
(* it on.                                                                  *)
LEMMA OthersStay ==
  ASSUME Typed, OnePlace, NEW k \in [Conns -> Nat], NEW q \in Prompts,
         \A p \in Prompts \ {q} :
           /\ Asked(p)' => Asked(p)
           /\ \A d \in Conns : \A i \in Nat : Sent(d, i, p)' => Sent(d, i + k[d], p)
           /\ \A d \in Conns : Held(d, p)' => Held(d, p),
         \A a \in Acks' : a \in Acks \/ a.prompt = q,
         given' \in Nat, given <= given', delivered' \subseteq delivered \cup {q}
  PROVE  \A p \in Prompts \ {q} : OnePlaceOf(p)'
<1> SUFFICES ASSUME NEW p \in Prompts \ {q} PROVE OnePlaceOf(p)'
  OBVIOUS
<1>1. Fresh(p) => Fresh(p)'
  <2>1. given \in Nat
    BY CtlSessionAssumption DEF Typed
  <2>2. Fresh(p) => p \notin delivered'
    BY DEF Fresh
  <2>3. \A a \in Acks' : a \in Acks \/ a.prompt # p
    OBVIOUS
  <2> QED
    BY <2>1, <2>2, <2>3, StaysFresh
<1> QED
  BY <1>1, StaysInPlace DEF OnePlace

LEMMA PlacesServe ==
  ASSUME Typed, OnePlace, AcksRight, NEW c \in Conns, Serve(c)
  PROVE  OnePlace' /\ AcksRight'
<1> DEFINE k == [d \in Conns |-> IF d = c THEN 1 ELSE 0]
           none == [d \in Conns |-> 0]
<1>1. k \in [Conns -> Nat] /\ none \in [Conns -> Nat] /\ given \in Nat /\ serving \in [Conns -> Steps]
  BY CtlSessionAssumption DEF Typed
<1>2. UNCHANGED <<sends, given, acked, msgs>>
  BY DEF Serve, Subscribe, Answer, Lookup, Record, Forward, Forget, Teardown, WriteReply, tuiVars,
     history
<1>3. ASSUME NEW p PROVE Asked(p)' => Asked(p)
  BY <1>2 DEF Asked
<1>4. ASSUME UNCHANGED toKeeperd, NEW p, NEW d \in Conns, NEW i \in Nat, Sent(d, i, p)' PROVE Sent(d, i + none[d], p)
  BY <1>4 DEF Sent
<1>5. ASSUME toKeeperd[c] # <<>>, Take(c), NEW p, NEW d \in Conns, NEW i \in Nat, Sent(d, i, p)'
      PROVE  Sent(d, i + k[d], p)
  BY <1>5, Taken
<1>6. ASSUME NEW s \in Steps, serving' = [serving EXCEPT ![c] = s], s.step \notin {"record", "forward"},
             NEW p, NEW d \in Conns, Held(d, p)'
      PROVE  Held(d, p) /\ d # c
  BY <1>1, <1>6 DEF Held
<1> HIDE DEF k, none
<1>10. CASE Subscribe(c) \/ Answer(c) \/ Forget(c)
  <2>1. /\ Take(c) /\ toKeeperd[c] # <<>> /\ delivered' = delivered /\ UNCHANGED toClient
        /\ \/ serving' = serving
           \/ \E s \in Steps : /\ serving' = [serving EXCEPT ![c] = s]
                               /\ s.step \notin {"record", "forward"}
                               /\ \A a : s # [step |-> "write", frame |-> Frame("prompt", a)]
    <3>1. CASE Subscribe(c)
      <4> DEFINE s == [step |-> "write", frame |-> Frame("subscribe", TRUE)]
      <4>1. s \in Steps /\ s.step = "write" /\ \A a : s # [step |-> "write", frame |-> Frame("prompt", a)]
        BY FrameTypes, StepTypes, NotAnAck DEF Frame
      <4> QED
        BY <3>1, <4>1 DEF Subscribe, Dispatching, Replies, history
    <3>2. CASE Answer(c)
      <4>1. CASE Head(toKeeperd[c]).type \in {"status", "list"}
        <5> DEFINE s == [step |-> "write", frame |-> Frame(Head(toKeeperd[c]).type, entry)]
        <5>1. s \in Steps /\ s.step = "write"
          BY <4>1, FrameTypes, StepTypes DEF Typed
        <5>2. \A a : s # [step |-> "write", frame |-> Frame("prompt", a)]
          BY <4>1, NotAnAck DEF Frame
        <5>3. serving' = [serving EXCEPT ![c] = s]
          BY <3>2, <4>1 DEF Answer, Replies
        <5> HIDE DEF s
        <5> QED
          BY <3>2, <5>1, <5>2, <5>3 DEF Answer, Dispatching, history
      <4>2. CASE Head(toKeeperd[c]).type = "ping"
        <5> DEFINE s == [step |-> "write", frame |-> Frame("pong", None)]
        <5>1. s \in Steps /\ s.step = "write" /\ \A a : s # [step |-> "write", frame |-> Frame("prompt", a)]
          BY FrameTypes, StepTypes, NotAnAck DEF Frame
        <5>2. serving' = [serving EXCEPT ![c] = s]
          BY <3>2, <4>2 DEF Answer, Replies
        <5> HIDE DEF s
        <5> QED
          BY <3>2, <5>1, <5>2 DEF Answer, Dispatching, history
      <4>3. CASE Head(toKeeperd[c]).type = "unreadable"
        BY <3>2, <4>3 DEF Answer, Dispatching, history
      <4> QED
        BY <3>2, <4>1, <4>2, <4>3 DEF Answer, Dispatching
    <3>3. CASE Forget(c)
      <4> DEFINE s == IF entry = None THEN [step |-> "write", frame |-> Frame("destroy", FALSE)]
                      ELSE [step |-> "teardown"]
      <4>1. s \in Steps /\ s.step \notin {"record", "forward"}
        BY FrameTypes, StepTypes
      <4>2. \A a : s # [step |-> "write", frame |-> Frame("prompt", a)]
        BY NotAnAck DEF Frame
      <4>3. serving' = [serving EXCEPT ![c] = s]
        BY <3>3 DEF Forget, Replies
      <4> HIDE DEF s
      <4> QED
        BY <3>3, <4>1, <4>2, <4>3 DEF Forget, Dispatching, history
    <3> QED
      BY <1>10, <3>1, <3>2, <3>3
  <2>2. Acks' \subseteq Acks
    <3>1. CASE serving' = serving
      BY <1>2, <2>1, <3>1, AcksSame
    <3>2. CASE serving' # serving
      BY <1>1, <1>2, <2>1, <3>2, AcksServing
    <3> QED
      BY <3>1, <3>2
  <2>3. \A p \in Prompts : \A d \in Conns : Held(d, p)' => Held(d, p)
    <3>1. CASE serving' = serving
      BY <3>1 DEF Held
    <3>2. CASE serving' # serving
      BY <1>6, <2>1, <3>2
    <3> QED
      BY <3>1, <3>2
  <2>4. \A p \in Prompts : /\ Asked(p)' => Asked(p)
                           /\ \A d \in Conns : \A i \in Nat : Sent(d, i, p)' => Sent(d, i + k[d], p)
    BY <1>3, <1>5, <2>1
  <2> QED
    BY SMTT(30), <1>1, <1>2, <2>1, <2>2, <2>3, <2>4, Undecided
<1>11. CASE Lookup(c)
  <2> DEFINE q == Head(toKeeperd[c]).prompt
  <2>1. /\ Take(c) /\ toKeeperd[c] # <<>> /\ delivered' = delivered /\ UNCHANGED toClient
        /\ Head(toKeeperd[c]).type = "prompt"
    BY <1>11 DEF Lookup, Dispatching, history
  <2>2. q \in Prompts /\ Head(toKeeperd[c]) = Request("prompt", q)
    <3>1. Head(toKeeperd[c]) \in Requests
      BY <2>1, TakeTyped
    <3> QED
      BY <2>1, <3>1, RequestPrompt
  <2> SUFFICES ASSUME NEW r \in Prompts, r = q PROVE OnePlace' /\ AcksRight'
    BY <2>2
  <2>3. Sent(c, 1, r) /\ \A i \in Nat : Sent(c, i, r)' => i # 0
    BY <2>1, <2>2, Taken
  <2>4. Fresh(r) /\ ~Asked(r) /\ \A d \in Conns : ~Held(d, r) /\ \A j \in Nat : Sent(d, j, r) => d = c /\ j = 1
    BY <2>3 DEF OnePlace, OnePlaceOf
  <2>5. ~Asked(r)' /\ \A d \in Conns : \A j \in Nat : ~Sent(d, j, r)'
    <3>1. ASSUME NEW d \in Conns, NEW j \in Nat, Sent(d, j, r)' PROVE FALSE
      <4>1. Sent(d, j + (IF d = c THEN 1 ELSE 0), r)
        BY <2>1, <3>1, Taken
      <4>2. d = c /\ j + 1 = 1
        BY <2>4, <4>1
      <4> QED
        BY <2>3, <3>1, <4>2
    <3> QED
      BY <1>3, <2>4, <3>1
  <2>6. \A p \in Prompts : /\ Asked(p)' => Asked(p)
                           /\ \A d \in Conns : \A i \in Nat : Sent(d, i, p)' => Sent(d, i + k[d], p)
    BY <1>3, <1>5, <2>1
  <2>20. given' \in Nat /\ given <= given' /\ delivered' \subseteq delivered \cup {r}
    BY <1>1, <1>2, <2>1
  <2> HIDE DEF q
  <2>7. CASE entry = None
    <3> DEFINE s == [step |-> "write", frame |-> Ack(r, FALSE)]
    <3>1. s \in Steps /\ s.step = "write" /\ s.frame = Frame("prompt", [prompt |-> r, ok |-> FALSE])
      BY FrameTypes, StepTypes DEF Ack, AckBodies
    <3>2. serving' = [serving EXCEPT ![c] = s]
      BY <1>11, <2>7 DEF Lookup, Replies, q
    <3>3. \A a \in Acks' : a \in Acks \/ a = [prompt |-> r, ok |-> FALSE]
      <4>1. \A a \in Acks' : a \in Acks \/ s = [step |-> "write", frame |-> Frame("prompt", a)]
        BY <1>1, <1>2, <2>1, <3>2, AcksServing
      <4>2. \A a : s = [step |-> "write", frame |-> Frame("prompt", a)] => a = [prompt |-> r, ok |-> FALSE]
        BY NotAnAck DEF Ack, Frame
      <4> QED
        BY <4>1, <4>2
    <3> HIDE DEF s
    <3>4. \A p \in Prompts : \A d \in Conns : Held(d, p)' => Held(d, p)
      BY <1>6, <3>1, <3>2
    <3>20. \A a \in Acks' : a \in Acks \/ a.prompt = r
      BY <3>3
    <3>5. \A p \in Prompts \ {r} : OnePlaceOf(p)'
      <4>1. \A p \in Prompts \ {r} :
              /\ Asked(p)' => Asked(p)
              /\ \A d \in Conns : \A i \in Nat : Sent(d, i, p)' => Sent(d, i + k[d], p)
              /\ \A d \in Conns : Held(d, p)' => Held(d, p)
        BY <2>6, <3>4
      <4> QED
        BY <1>1, <2>20, <3>20, <4>1, OthersStay
    <3>6. OnePlaceOf(r)'
      BY <2>4, <2>5, <3>4 DEF OnePlaceOf
    <3>7. AcksRight'
      BY <1>2, <2>1, <2>4, <3>3 DEF AcksRight, Fresh
    <3> QED
      BY <3>5, <3>6, <3>7 DEF OnePlace
  <2>8. CASE entry # None
    <3> DEFINE s == [step |-> "record", prompt |-> r]
    <3>1. s \in Steps /\ s.step = "record" /\ s.prompt = r /\ \A a : s # [step |-> "write", frame |-> Frame("prompt", a)]
      BY StepTypes, NotAnAck
    <3>2. serving' = [serving EXCEPT ![c] = s]
      BY <1>11, <2>8 DEF Lookup, q
    <3>3. Acks' \subseteq Acks
      BY <1>1, <1>2, <2>1, <3>1, <3>2, AcksServing
    <3> HIDE DEF s
    <3>4. \A p \in Prompts \ {r} : \A d \in Conns : Held(d, p)' => Held(d, p)
      BY <1>1, <3>1, <3>2 DEF Held
    <3>5. \A d \in Conns : Held(d, r)' => d = c
      BY <1>1, <2>4, <3>1, <3>2 DEF Held
    <3>6. \A p \in Prompts \ {r} : OnePlaceOf(p)'
      <4>1. \A p \in Prompts \ {r} :
              /\ Asked(p)' => Asked(p)
              /\ \A d \in Conns : \A i \in Nat : Sent(d, i, p)' => Sent(d, i + k[d], p)
              /\ \A d \in Conns : Held(d, p)' => Held(d, p)
        BY <2>6, <3>4
      <4>2. \A a \in Acks' : a \in Acks \/ a.prompt = r
        BY <3>3
      <4> QED
        BY <1>1, <2>20, <4>1, <4>2, OthersStay
    <3>7. Fresh(r)'
      BY <1>2, <2>1, <2>4, <3>3 DEF Fresh
    <3>8. OnePlaceOf(r)'
      BY <2>5, <3>5, <3>7 DEF OnePlaceOf
    <3>9. AcksRight'
      BY <1>1, <1>2, <2>1, <3>3, AcksStay
    <3> QED
      BY <3>6, <3>8, <3>9 DEF OnePlace
  <2> QED
    BY <2>7, <2>8
<1>12. CASE Record(c)
  <2>1. serving[c] \in Steps /\ serving[c].step = "record" /\ UNCHANGED <<toKeeperd, toClient, delivered>>
    BY <1>12 DEF Record, At, Typed, history
  <2>2. serving[c].prompt \in Prompts /\ serving[c] = [step |-> "record", prompt |-> serving[c].prompt]
    BY <2>1, HeldTypes
  <2> SUFFICES ASSUME NEW r \in Prompts, r = serving[c].prompt PROVE OnePlace' /\ AcksRight'
    BY <2>2
  <2> DEFINE s == [step |-> "forward", prompt |-> r]
  <2>3. serving' = [serving EXCEPT ![c] = s]
    <3>1. [serving[c] EXCEPT !.step = "forward"] = s
      BY <2>2
    <3> QED
      BY <1>12, <3>1 DEF Record
  <2>4. s.step = "forward" /\ s.prompt = r /\ \A a : s # [step |-> "write", frame |-> Frame("prompt", a)]
    BY NotAnAck
  <2>5. Acks' \subseteq Acks
    BY <1>1, <1>2, <2>1, <2>3, <2>4, AcksServing
  <2> HIDE DEF s
  <2>6. \A p \in Prompts : \A d \in Conns : Held(d, p)' => Held(d, p)
    BY <1>1, <2>1, <2>3, <2>4 DEF Held
  <2>7. \A p \in Prompts : /\ Asked(p)' => Asked(p)
                           /\ \A d \in Conns : \A i \in Nat : Sent(d, i, p)' => Sent(d, i + none[d], p)
    BY <1>3, <1>4, <2>1
  <2> QED
    BY <1>1, <1>2, <2>1, <2>5, <2>6, <2>7, Undecided
<1>13. CASE Forward(c)
  <2>1. serving[c] \in Steps /\ serving[c].step = "forward" /\ UNCHANGED <<toKeeperd, toClient>>
    BY <1>13 DEF Forward, At, Typed
  <2>2. serving[c].prompt \in Prompts
    BY <2>1, HeldTypes
  <2> SUFFICES ASSUME NEW r \in Prompts, r = serving[c].prompt PROVE OnePlace' /\ AcksRight'
    BY <2>2
  <2>3. Held(c, r)
    BY <2>1 DEF Held
  <2>4. /\ Fresh(r) /\ ~Asked(r) /\ \A d \in Conns : Held(d, r) => d = c
        /\ \A d \in Conns : \A j \in Nat : ~Sent(d, j, r)
    BY <2>3 DEF OnePlace, OnePlaceOf
  <2> DEFINE up == ward = "up"
             s == [step |-> "write", frame |-> Ack(r, up)]
  <2>5. s \in Steps /\ s.step = "write" /\ s.frame = Frame("prompt", [prompt |-> r, ok |-> up])
    BY FrameTypes, StepTypes DEF Ack, AckBodies
  <2>6. serving' = [serving EXCEPT ![c] = s] /\ delivered' = IF up THEN delivered \cup {r} ELSE delivered
    BY <1>13 DEF Forward, Replies
  <2>7. \A a \in Acks' : a \in Acks \/ a = [prompt |-> r, ok |-> up]
    <3>1. \A a \in Acks' : a \in Acks \/ s = [step |-> "write", frame |-> Frame("prompt", a)]
      BY <1>1, <1>2, <2>1, <2>6, AcksServing
    <3>2. \A a : s = [step |-> "write", frame |-> Frame("prompt", a)] => a = [prompt |-> r, ok |-> up]
      BY NotAnAck DEF Ack, Frame
    <3> QED
      BY <3>1, <3>2
  <2> HIDE DEF s
  <2>8. \A p \in Prompts : \A d \in Conns : Held(d, p)' => Held(d, p) /\ d # c
    BY <1>6, <2>5, <2>6
  <2>9. \A p \in Prompts : /\ Asked(p)' => Asked(p)
                           /\ \A d \in Conns : \A i \in Nat : Sent(d, i, p)' => Sent(d, i + none[d], p)
    BY <1>3, <1>4, <2>1
  <2>10. \A p \in Prompts \ {r} : OnePlaceOf(p)'
    BY <1>1, <1>2, <2>6, <2>7, <2>8, <2>9, OthersStay
  <2>11. \A d \in Conns : \A j \in Nat : ~Sent(d, j, r)'
    BY <1>4, <2>1, <2>4 DEF Sent
  <2>12. OnePlaceOf(r)'
    BY <2>4, <2>8, <2>9, <2>11 DEF OnePlaceOf
  <2>13. AcksRight'
    <3>1. \A a \in Acks : a.prompt # r /\ a.prompt <= given /\ (a.ok <=> a.prompt \in delivered)
      BY <2>4 DEF Fresh, AcksRight
    <3>2. r <= given /\ r \notin delivered
      BY <2>4 DEF Fresh
    <3>3. ASSUME NEW a \in Acks' PROVE a.prompt <= given /\ (a.ok <=> a.prompt \in delivered')
      <4>1. CASE a \in Acks
        BY <2>6, <3>1, <4>1
      <4>2. CASE a = [prompt |-> r, ok |-> up]
        BY <2>6, <3>2, <4>2
      <4> QED
        BY <2>7, <4>1, <4>2
    <3> QED
      BY <1>2, <3>3 DEF AcksRight
  <2> QED
    BY <2>10, <2>12, <2>13 DEF OnePlace
<1>14. CASE Teardown(c)
  <2> DEFINE s == [step |-> "write", frame |-> Frame("destroy", TRUE)]
  <2>1. s \in Steps /\ s.step = "write" /\ \A a : s # [step |-> "write", frame |-> Frame("prompt", a)]
    BY FrameTypes, StepTypes, NotAnAck DEF Frame
  <2>2. serving' = [serving EXCEPT ![c] = s] /\ UNCHANGED <<toKeeperd, toClient, delivered>>
    BY <1>14 DEF Teardown, Replies, history
  <2> HIDE DEF s
  <2>3. Acks' \subseteq Acks
    BY <1>1, <1>2, <2>1, <2>2, AcksServing
  <2>4. \A p \in Prompts : \A d \in Conns : Held(d, p)' => Held(d, p)
    BY <1>6, <2>1, <2>2
  <2>5. \A p \in Prompts : /\ Asked(p)' => Asked(p)
                           /\ \A d \in Conns : \A i \in Nat : Sent(d, i, p)' => Sent(d, i + none[d], p)
    BY <1>3, <1>4, <2>2
  <2> QED
    BY <1>1, <1>2, <2>2, <2>3, <2>4, <2>5, Undecided
<1>15. CASE WriteReply(c)
  <2>1. serving[c] \in Steps /\ serving[c].step = "write" /\ UNCHANGED <<toKeeperd, delivered>>
    BY <1>15 DEF WriteReply, At, Typed, history
  <2>2. serving[c].frame \in Frames /\ serving[c] = [step |-> "write", frame |-> serving[c].frame]
    BY <2>1, HeldTypes
  <2>3. /\ serving' = [serving EXCEPT ![c] = Idle] /\ Idle \in Steps /\ Idle.step = "read"
        /\ toClient' = [toClient EXCEPT ![c] = Append(toClient[c], serving[c].frame)]
    BY <1>15, StepTypes DEF WriteReply, Idle
  <2>4. \A d \in Conns : \A a \in AckBodies : InLoop(d, a)' => InLoop(d, a)
    <3>1. ASSUME NEW d \in Conns, NEW a \in AckBodies, InLoop(d, a)' PROVE InLoop(d, a)
      <4>1. d # c
        BY <1>1, <2>3, <3>1, NotAnAck DEF InLoop
      <4> QED
        BY <1>1, <2>3, <3>1, <4>1 DEF InLoop
    <3> QED
      BY <3>1
  <2>5. \A a \in AckBodies : serving[c].frame = Frame("prompt", a) => InLoop(c, a)
    BY <2>2 DEF InLoop
  <2>6. Acks' \subseteq Acks
    BY <1>2, <2>2, <2>3, <2>4, <2>5, AcksWritten
  <2>7. \A p \in Prompts : \A d \in Conns : Held(d, p)' => Held(d, p)
    BY <1>6, <2>3
  <2>8. \A p \in Prompts : /\ Asked(p)' => Asked(p)
                           /\ \A d \in Conns : \A i \in Nat : Sent(d, i, p)' => Sent(d, i + none[d], p)
    BY <1>3, <1>4, <2>1
  <2> QED
    BY <1>1, <1>2, <2>1, <2>6, <2>7, <2>8, Undecided
<1> QED
  BY <1>10, <1>11, <1>12, <1>13, <1>14, <1>15 DEF Serve

LEMMA PlacesTui ==
  ASSUME Typed, OnePlace, AcksRight,
         (\E r \in sends : Send(r)) \/ ReadFrame \/ Update \/ KeyRefresh \/ KeyEnter
  PROVE  OnePlace' /\ AcksRight'
<1> DEFINE none == [d \in Conns |-> 0]
<1>1. none \in [Conns -> Nat] /\ given \in Nat /\ delivered \subseteq 1..given /\ Tui \in Conns
  BY CtlSessionAssumption DEF Typed, Conns
<1>2. ASSUME UNCHANGED toKeeperd
      PROVE  \A p \in Prompts : \A d \in Conns : \A i \in Nat : Sent(d, i, p)' => Sent(d, i + none[d], p)
  BY <1>2 DEF Sent
<1>3. ASSUME UNCHANGED serving
      PROVE  \A p \in Prompts : \A d \in Conns : Held(d, p)' => Held(d, p)
  BY <1>3 DEF Held
<1>4. ASSUME UNCHANGED sends
      PROVE  \A p \in Prompts : Asked(p)' => Asked(p)
  BY <1>4 DEF Asked
<1> HIDE DEF none
<1>5. ASSUME NEW r \in sends, Send(r) PROVE OnePlace' /\ AcksRight'
  <2>1. /\ UNCHANGED <<acked, serving, toClient, msgs, given, delivered>> /\ sends' = sends \ {r} /\ r \in Requests
    BY <1>5 DEF Send, history, Typed
  <2>2. Acks' = Acks
    BY <2>1, AcksSame
  <2>3. \A p \in Prompts : \A d \in Conns : Held(d, p)' => Held(d, p)
    BY <1>3, <2>1
  <2>4. \A p \in Prompts : Asked(p)' => Asked(p) /\ r # Request("prompt", p)
    BY <2>1 DEF Asked
  <2>5. CASE UNCHANGED toKeeperd
    BY <1>1, <1>2, <2>1, <2>2, <2>3, <2>4, <2>5, Undecided
  <2>6. CASE toKeeperd' = [toKeeperd EXCEPT ![Tui] = Append(@, r)]
    <3>1. toKeeperd \in [Conns -> Seq(Requests)] /\ toKeeperd[Tui] \in Seq(Requests)
      BY <1>1 DEF Typed
    <3>2. /\ toKeeperd'[Tui] = Append(toKeeperd[Tui], r)
          /\ \A d \in Conns : d # Tui => toKeeperd'[d] = toKeeperd[d]
      BY <1>1, <2>6, <3>1
    <3>3. /\ Len(Append(toKeeperd[Tui], r)) = Len(toKeeperd[Tui]) + 1 /\ Len(toKeeperd[Tui]) \in Nat
          /\ Append(toKeeperd[Tui], r)[Len(toKeeperd[Tui]) + 1] = r
          /\ \A i \in 1..Len(toKeeperd[Tui]) : Append(toKeeperd[Tui], r)[i] = toKeeperd[Tui][i]
          /\ \A i \in 1..Len(Append(toKeeperd[Tui], r)) :
               i \in 1..Len(toKeeperd[Tui]) \/ i = Len(toKeeperd[Tui]) + 1
      BY <2>1, <3>1, AppendElems, Elems
    <3>4. \A p \in Prompts : \A d \in Conns : \A i \in Nat :
            Sent(d, i, p)' => Sent(d, i, p) \/ (d = Tui /\ i = Len(toKeeperd[Tui]) + 1 /\ r = Request("prompt", p))
      <4> SUFFICES ASSUME NEW p \in Prompts, NEW d \in Conns, NEW i \in Nat, Sent(d, i, p)'
                   PROVE  Sent(d, i, p) \/ (d = Tui /\ i = Len(toKeeperd[Tui]) + 1 /\ r = Request("prompt", p))
        OBVIOUS
      <4>1. CASE d # Tui
        BY <3>2, <4>1 DEF Sent
      <4>2. CASE d = Tui
        <5>1. i \in 1..Len(Append(toKeeperd[Tui], r)) /\ Append(toKeeperd[Tui], r)[i] = Request("prompt", p)
          BY <3>2, <4>2 DEF Sent
        <5>2. CASE i \in 1..Len(toKeeperd[Tui])
          BY <3>3, <4>2, <5>1, <5>2 DEF Sent
        <5>3. CASE i = Len(toKeeperd[Tui]) + 1
          BY <3>3, <4>2, <5>1, <5>3
        <5> QED
          BY <3>3, <5>1, <5>2, <5>3
      <4> QED
        BY <4>1, <4>2
    <3>5. ASSUME NEW p \in Prompts PROVE OnePlaceOf(p)'
      <4>1. CASE r # Request("prompt", p)
        <5>1. \A d \in Conns : \A i \in Nat : Sent(d, i, p)' => Sent(d, i, p)
          BY <3>4, <4>1
        <5>2. Fresh(p) <=> Fresh(p)'
          BY <2>1, <2>2 DEF Fresh
        <5> QED
          BY <2>3, <2>4, <5>1, <5>2 DEF OnePlace, OnePlaceOf
      <4>2. CASE r = Request("prompt", p)
        <5>1. Asked(p)
          BY <4>2 DEF Asked
        <5>2. Fresh(p) /\ \A c \in Conns : ~Held(c, p) /\ \A i \in Nat : ~Sent(c, i, p)
          BY <5>1 DEF OnePlace, OnePlaceOf
        <5>3. Fresh(p)'
          BY <2>1, <2>2, <5>2 DEF Fresh
        <5>4. ~Asked(p)' /\ \A c \in Conns : ~Held(c, p)'
          BY <2>3, <2>4, <4>2, <5>2
        <5>5. \A d \in Conns : \A i \in Nat : Sent(d, i, p)' => d = Tui /\ i = Len(toKeeperd[Tui]) + 1
          BY <3>4, <5>2
        <5> QED
          BY <5>3, <5>4, <5>5 DEF OnePlaceOf
      <4> QED
        BY <4>1, <4>2
    <3>6. AcksRight'
      BY <2>1, <2>2 DEF AcksRight
    <3> QED
      BY <3>5, <3>6 DEF OnePlace
  <2> QED
    BY <1>5, <2>5, <2>6 DEF Send
<1>6. CASE ReadFrame
  <2>1. UNCHANGED <<acked, serving, toKeeperd, sends, given, delivered>> /\ msgs \in Seq(Frames)
    BY <1>6 DEF ReadFrame, history, Typed
  <2>2. ASSUME NEW f \in Frames, msgs' = Append(msgs, f), NEW a \in AckBodies, InChannel(a)'
        PROVE  InChannel(a) \/ f = Frame("prompt", a)
    <3>1. /\ Len(msgs) \in Nat /\ Append(msgs, f)[Len(msgs) + 1] = f
          /\ \A i \in 1..Len(msgs) : Append(msgs, f)[i] = msgs[i]
          /\ \A i \in 1..Len(Append(msgs, f)) : i \in 1..Len(msgs) \/ i = Len(msgs) + 1
      BY <2>1, AppendElems, Elems
    <3> QED
      BY <2>2, <3>1 DEF InChannel
  <2>3. Acks' \subseteq Acks
    <3>1. CASE /\ toClient[Tui] # <<>> /\ msgs' = Append(msgs, Decoded(Head(toClient[Tui])))
               /\ toClient' = [toClient EXCEPT ![Tui] = Tail(@)]
      <4>1. Head(toClient[Tui]) \in Frames
        BY <1>1, <3>1, TailElems DEF Typed
      <4>2. \A a \in AckBodies : InChannel(a)' => InChannel(a) \/ Head(toClient[Tui]) = Frame("prompt", a)
        <5>1. Decoded(Head(toClient[Tui])) \in Frames
          BY <4>1, DecodedTypes
        <5>2. \A a : Decoded(Head(toClient[Tui])) = Frame("prompt", a) => Head(toClient[Tui]) = Frame("prompt", a)
          BY <4>1, DecodedTypes DEF Frame
        <5> QED
          BY <2>2, <3>1, <5>1, <5>2
      <4> QED
        BY <1>1, <2>1, <3>1, <4>2, AcksRead
    <3>2. CASE msgs' = Append(msgs, Lost) /\ UNCHANGED toClient
      <4>1. Lost \in Frames /\ \A a : Lost # Frame("prompt", a)
        BY FrameTypes DEF Lost, Frame
      <4>2. \A a \in AckBodies : InChannel(a)' => InChannel(a)
        BY <2>2, <3>2, <4>1
      <4> QED
        BY <2>1, <3>2, <4>2 DEF Acks, InLoop, OnWire
    <3> QED
      BY <1>6, <3>1, <3>2 DEF ReadFrame
  <2> QED
    BY <1>1, <1>2, <1>3, <1>4, <2>1, <2>3, Undecided
<1>7. CASE Update
  <2>1. /\ UNCHANGED <<serving, toKeeperd, toClient, sends, given, delivered>> /\ msgs \in Seq(Frames) /\ msgs # <<>>
        /\ msgs' = Tail(msgs)
        /\ acked' = IF Head(msgs).type = "prompt" THEN acked \cup {Head(msgs).body} ELSE acked
    BY <1>7 DEF Update, Ready, connVars, Typed
  <2>2. /\ Head(msgs) = msgs[1] /\ 1 \in 1..Len(msgs) /\ Head(msgs) \in Frames
        /\ \A i \in 1..Len(Tail(msgs)) : i + 1 \in 1..Len(msgs) /\ Tail(msgs)[i] = msgs[i + 1]
    BY <2>1, TailElems
  <2>3. \A a : InChannel(a)' => InChannel(a)
    BY <2>1, <2>2 DEF InChannel
  <2>4. Head(msgs).type = "prompt" => InChannel(Head(msgs).body)
    BY <2>2, FramePrompt DEF InChannel
  <2>5. \A a \in acked' : a \in acked \/ InChannel(a)
    BY <2>1, <2>4
  <2>6. Acks' \subseteq Acks
    BY <2>1, <2>3, <2>5 DEF Acks, InLoop, OnWire
  <2> QED
    BY <1>1, <1>2, <1>3, <1>4, <2>1, <2>6, Undecided
<1>8. CASE KeyRefresh
  <2>1. /\ UNCHANGED <<acked, serving, toKeeperd, toClient, msgs, given, delivered>>
        /\ \E t \in TuiKeys : sends' = sends \cup {Request(t, None)}
    BY <1>8 DEF KeyRefresh, Command, connVars
  <2>2. \A t \in TuiKeys : Request(t, None).type # "prompt"
    BY CtlSessionAssumption DEF Request
  <2>3. \A p \in Prompts : Asked(p)' => Asked(p)
    BY <2>1, <2>2 DEF Asked, Request
  <2>4. Acks' = Acks
    BY <2>1, AcksSame
  <2> QED
    BY <1>1, <1>2, <1>3, <2>1, <2>3, <2>4, Undecided
<1>9. CASE KeyEnter
  <2>1. /\ UNCHANGED <<acked, serving, toKeeperd, toClient, msgs, delivered>> /\ given' = given + 1
        /\ given < MaxPrompts /\ sends' = sends \cup {Request("prompt", given + 1)}
    BY <1>9 DEF KeyEnter, Command, connVars
  <2> SUFFICES ASSUME NEW q \in Prompts, q = given + 1 PROVE OnePlace' /\ AcksRight'
    BY <1>1, <2>1, CtlSessionAssumption DEF Prompts
  <2>2. Acks' = Acks
    BY <2>1, AcksSame
  <2>3. \A p \in Prompts \ {q} : Asked(p)' => Asked(p)
    BY <2>1 DEF Asked, Request
  <2>4. ~Fresh(q) /\ q \notin delivered /\ \A a \in Acks : a.prompt # q
    BY <1>1 DEF Fresh, AcksRight, Acks, AckBodies, Prompts
  <2>5. \A c \in Conns : ~Held(c, q) /\ \A i \in Nat : ~Sent(c, i, q)
    BY <2>4 DEF OnePlace, OnePlaceOf
  <2>6. Fresh(q)' /\ \A c \in Conns : ~Held(c, q)' /\ \A i \in Nat : ~Sent(c, i, q)'
    BY <1>1, <2>1, <2>2, <2>4, <2>5 DEF Fresh, Held, Sent
  <2>7. OnePlaceOf(q)'
    BY <2>6 DEF OnePlaceOf
  <2>8. given' \in Nat /\ given <= given' /\ delivered' \subseteq delivered \cup {q}
    BY <1>1, <2>1
  <2>9. \A p \in Prompts \ {q} : OnePlaceOf(p)'
    BY <1>1, <1>2, <1>3, <2>1, <2>2, <2>3, <2>8, OthersStay
  <2>10. AcksRight'
    BY <2>1, <2>2, <2>8, AcksStay
  <2> QED
    BY <2>7, <2>9, <2>10 DEF OnePlace
<1> QED
  BY <1>5, <1>6, <1>7, <1>8, <1>9

LEMMA PlacesCli ==
  ASSUME Typed, OnePlace, AcksRight, CliOnce, CliSend \/ CliRecv
  PROVE  OnePlace' /\ AcksRight'
<1> DEFINE none == [d \in Conns |-> 0]
<1>1. none \in [Conns -> Nat] /\ given \in Nat /\ delivered \subseteq 1..given /\ Cli \in Conns
  BY CtlSessionAssumption DEF Typed, Conns
<1>2. CASE CliSend
  <2>1. PICK r \in {Request(t, None) : t \in CliTypes}
                     \cup {Request("prompt", p) : p \in {given + 1} \cap 1..MaxPrompts} :
          /\ toKeeperd' = [toKeeperd EXCEPT ![Cli] = Append(@, r)]
          /\ given' = IF r.type = "prompt" THEN given + 1 ELSE given
    BY <1>2 DEF CliSend
  <2>2. UNCHANGED <<acked, serving, toClient, msgs, sends, delivered>>
    BY <1>2 DEF CliSend, tuiVars
  <2>3. \/ r \in Requests /\ r.type # "prompt"
        \/ given + 1 \in Prompts /\ r = Request("prompt", given + 1)
    BY CtlSessionAssumption, RequestTypes DEF Request, Prompts
  <2>4. Acks' = Acks
    BY <2>2, AcksSame
  <2>5. r \in Requests
    BY <2>3, RequestTypes
  <2>6. toKeeperd \in [Conns -> Seq(Requests)] /\ toKeeperd[Cli] \in Seq(Requests)
    BY <1>1 DEF Typed
  <2>7. /\ toKeeperd'[Cli] = Append(toKeeperd[Cli], r)
        /\ \A d \in Conns : d # Cli => toKeeperd'[d] = toKeeperd[d]
    BY <1>1, <2>1, <2>6
  <2>8. /\ Len(Append(toKeeperd[Cli], r)) = Len(toKeeperd[Cli]) + 1 /\ Len(toKeeperd[Cli]) \in Nat
        /\ Append(toKeeperd[Cli], r)[Len(toKeeperd[Cli]) + 1] = r
        /\ \A i \in 1..Len(toKeeperd[Cli]) : Append(toKeeperd[Cli], r)[i] = toKeeperd[Cli][i]
        /\ \A i \in 1..Len(Append(toKeeperd[Cli], r)) :
             i \in 1..Len(toKeeperd[Cli]) \/ i = Len(toKeeperd[Cli]) + 1
    BY <2>5, <2>6, AppendElems, Elems
  <2>9. \A p \in Prompts : \A d \in Conns : \A i \in Nat :
          Sent(d, i, p)' => Sent(d, i, p) \/ (d = Cli /\ i = Len(toKeeperd[Cli]) + 1 /\ r = Request("prompt", p))
    <3> SUFFICES ASSUME NEW p \in Prompts, NEW d \in Conns, NEW i \in Nat, Sent(d, i, p)'
                 PROVE  Sent(d, i, p) \/ (d = Cli /\ i = Len(toKeeperd[Cli]) + 1 /\ r = Request("prompt", p))
      OBVIOUS
    <3>1. CASE d # Cli
      BY <2>7, <3>1 DEF Sent
    <3>2. CASE d = Cli
      <4>1. i \in 1..Len(Append(toKeeperd[Cli], r)) /\ Append(toKeeperd[Cli], r)[i] = Request("prompt", p)
        BY <2>7, <3>2 DEF Sent
      <4>2. CASE i \in 1..Len(toKeeperd[Cli])
        BY <2>8, <3>2, <4>1, <4>2 DEF Sent
      <4>3. CASE i = Len(toKeeperd[Cli]) + 1
        BY <2>8, <3>2, <4>1, <4>3
      <4> QED
        BY <2>8, <4>1, <4>2, <4>3
    <3> QED
      BY <3>1, <3>2
  <2>10. given' \in Nat /\ given <= given'
    BY <1>1, <2>1
  <2>11. ASSUME NEW p \in Prompts PROVE OnePlaceOf(p)'
    <3>1. (Asked(p)' <=> Asked(p)) /\ \A d \in Conns : Held(d, p)' <=> Held(d, p)
      BY <2>2 DEF Asked, Held
    <3>2. CASE r # Request("prompt", p)
      <4>1. \A d \in Conns : \A i \in Nat : Sent(d, i, p)' => Sent(d, i, p)
        BY <2>9, <3>2
      <4>2. Fresh(p) => Fresh(p)'
        BY <1>1, <2>2, <2>4, <2>10 DEF Fresh, Prompts
      <4> QED
        BY <3>1, <4>1, <4>2 DEF OnePlace, OnePlaceOf
    <3>3. CASE r = Request("prompt", p)
      <4>1. p = given + 1 /\ given' = given + 1
        BY <2>1, <2>3, <3>3 DEF Request
      <4>2. ~Fresh(p) /\ p \notin delivered /\ \A a \in Acks : a.prompt # p
        BY <1>1, <4>1 DEF Fresh, AcksRight, Acks, AckBodies, Prompts
      <4>3. ~Asked(p) /\ \A c \in Conns : ~Held(c, p) /\ \A i \in Nat : ~Sent(c, i, p)
        BY <4>2 DEF OnePlace, OnePlaceOf
      <4>4. Fresh(p)'
        BY <2>2, <2>4, <1>1, <4>1, <4>2 DEF Fresh
      <4>5. \A d \in Conns : \A i \in Nat : Sent(d, i, p)' => d = Cli /\ i = Len(toKeeperd[Cli]) + 1
        BY <2>9, <4>3
      <4> QED
        BY <3>1, <4>3, <4>4, <4>5 DEF OnePlaceOf
    <3> QED
      BY <3>2, <3>3
  <2>12. AcksRight'
    BY <2>2, <2>4, <2>10, AcksStay
  <2> QED
    BY <2>11, <2>12 DEF OnePlace
<1>3. CASE CliRecv
  <2>1. UNCHANGED <<serving, toKeeperd, sends, msgs, given, delivered>>
    BY <1>3 DEF CliRecv, tuiVars
  <2>2. Acks' \subseteq Acks
    <3>1. CASE /\ toClient[Cli] # <<>>
               /\ toClient' = [toClient EXCEPT ![Cli] = Tail(@)]
               /\ acked' = IF cli = "prompt" THEN acked \cup {Head(toClient[Cli]).body} ELSE acked
      <4>1. /\ Head(toClient[Cli]) \in Frames /\ Head(toClient[Cli]) = toClient[Cli][1] /\ 1 \in 1..Len(toClient[Cli])
        BY <1>1, <3>1, TailElems DEF Typed
      <4>2. cli = "prompt" => /\ Head(toClient[Cli]).body \in AckBodies
                              /\ Head(toClient[Cli]) = Frame("prompt", Head(toClient[Cli]).body)
        BY <4>1, FramePrompt DEF CliOnce
      <4>3. acked' \subseteq acked \cup {a \in AckBodies : Head(toClient[Cli]) = Frame("prompt", a)}
        BY <3>1, <4>2
      <4>4. \A a \in AckBodies : InChannel(a)' => InChannel(a) \/ Head(toClient[Cli]) = Frame("prompt", a)
        BY <2>1 DEF InChannel
      <4> QED
        BY <1>1, <2>1, <3>1, <4>3, <4>4, AcksRead
    <3>2. CASE UNCHANGED <<toClient, acked>>
      BY <2>1, <3>2, AcksSame
    <3> QED
      BY <1>3, <3>1, <3>2 DEF CliRecv
  <2>3. \A p \in Prompts : /\ Asked(p)' => Asked(p)
                           /\ \A d \in Conns : \A i \in Nat : Sent(d, i, p)' => Sent(d, i + none[d], p)
                           /\ \A d \in Conns : Held(d, p)' => Held(d, p)
    BY <2>1 DEF Asked, Sent, Held
  <2> HIDE DEF none
  <2> QED
    BY <1>1, <2>1, <2>2, <2>3, Undecided
<1> QED
  BY <1>2, <1>3

LEMMA PlacesEvents ==
  ASSUME Typed, EventsTyped, OnePlace, AcksRight,
         (\E p \in running : Report(p)) \/ WardExits \/ KeeperdStops \/ Handle \/ WritePush
  PROVE  OnePlace' /\ AcksRight'
<1> DEFINE none == [d \in Conns |-> 0]
<1>1. none \in [Conns -> Nat] /\ given \in Nat /\ given' = given /\ sends' = sends /\ delivered' = delivered
  BY CtlSessionAssumption DEF Typed, Report, WardExits, KeeperdStops, Handle, WritePush, tuiVars,
     history
<1>2. Acks' \subseteq Acks
  <2>1. CASE (\E p \in running : Report(p)) \/ WardExits \/ Handle
    <3>1. UNCHANGED <<acked, serving, toClient, msgs>>
      BY <2>1 DEF Report, WardExits, Handle, connVars, tuiVars, history
    <3> QED
      BY <3>1, AcksSame
  <2>2. CASE KeeperdStops
    <3>1. \A d \in Conns : \A a : ~InLoop(d, a)'
      BY <2>2, NotAnAck DEF KeeperdStops, InLoop
    <3> QED
      BY <2>2, <3>1 DEF KeeperdStops, Acks, OnWire, InChannel, tuiVars, history
  <2>3. CASE WritePush
    <3> DEFINE f == Frame("event", Head(pushCh))
    <3>1. /\ UNCHANGED <<acked, serving, msgs>> /\ pushCh # <<>> /\ Tui \in Conns
          /\ toClient' = [toClient EXCEPT ![Tui] = Append(toClient[Tui], f)]
      BY <2>3 DEF WritePush, tuiVars, Conns
    <3>2. f \in Frames
      BY <3>1, TailElems, FrameTypes DEF EventsTyped
    <3>3. \A a : f # Frame("prompt", a)
      BY DEF Frame
    <3>4. \A d \in Conns : \A a \in AckBodies : InLoop(d, a)' => InLoop(d, a)
      BY <3>1 DEF InLoop
    <3> HIDE DEF f
    <3> QED
      BY <3>1, <3>2, <3>3, <3>4, AcksWritten
  <2> QED
    BY <2>1, <2>2, <2>3
<1>3. \A p \in Prompts : /\ Asked(p)' => Asked(p)
                         /\ \A d \in Conns : \A i \in Nat : Sent(d, i, p)' => Sent(d, i + none[d], p)
                         /\ \A d \in Conns : Held(d, p)' => Held(d, p)
  <2>1. CASE KeeperdStops
    BY <1>1, <2>1 DEF KeeperdStops, Asked, Sent, Held, Idle
  <2>2. CASE (\E p \in running : Report(p)) \/ WardExits \/ Handle \/ WritePush
    <3>1. UNCHANGED <<sends, serving, toKeeperd>>
      BY <2>2 DEF Report, WardExits, Handle, WritePush, connVars, tuiVars
    <3> QED
      BY <3>1 DEF Asked, Sent, Held
  <2> QED
    BY <2>1, <2>2
<1> HIDE DEF none
<1> QED
  BY <1>1, <1>2, <1>3, Undecided

-----------------------------------------------------------------------------
(* viv's single request, and what a status says of the last prompt.        *)

LEMMA CliOnceStep ==
  ASSUME Typed, CliOnce, [Next]_vars
  PROVE  CliOnce'
<1>1. Cli \in Conns /\ Tui # Cli
  BY CtlSessionAssumption DEF Conns
<1>2. /\ toKeeperd \in [Conns -> Seq(Requests)] /\ toClient \in [Conns -> Seq(Frames)] /\ serving \in [Conns -> Steps]
      /\ toKeeperd[Cli] \in Seq(Requests) /\ toClient[Cli] \in Seq(Frames) /\ serving[Cli] \in Steps
  BY <1>1 DEF Typed
<1>3. ASSUME UNCHANGED <<cli, toKeeperd[Cli], toClient[Cli], serving[Cli]>> PROVE CliOnce'
  BY <1>3 DEF CliOnce
<1>4. CASE (\E p \in running : Report(p)) \/ WardExits \/ Handle \/ Update \/ KeyRefresh \/ KeyEnter \/ UNCHANGED vars
  BY <1>3, <1>4 DEF Report, WardExits, Handle, Update, KeyRefresh, KeyEnter, Command, vars, connVars
<1>5. CASE (\E r \in sends : Send(r)) \/ ReadFrame \/ WritePush
  <2>1. toKeeperd'[Cli] = toKeeperd[Cli]
    BY <1>1, <1>2, <1>5 DEF Send, ReadFrame, WritePush
  <2>2. toClient'[Cli] = toClient[Cli]
    BY <1>1, <1>2, <1>5 DEF Send, ReadFrame, WritePush
  <2> QED
    BY <1>3, <1>5, <2>1, <2>2 DEF Send, ReadFrame, WritePush
<1>6. CASE KeeperdStops
  <2>1. toKeeperd'[Cli] = <<>> /\ serving'[Cli] = Idle /\ toClient' = toClient /\ cli' = cli
    BY <1>1, <1>6 DEF KeeperdStops
  <2>2. Len(toKeeperd'[Cli]) = 0 /\ 1..0 = {}
    BY <2>1
  <2> QED
    BY <2>1, <2>2 DEF CliOnce, Idle
<1>7. ASSUME NEW c \in Conns, Serve(c) PROVE CliOnce'
  <2>1. cli' = cli
    BY <1>7 DEF Serve, Subscribe, Answer, Lookup, Record, Forward, Forget, Teardown, WriteReply
  <2>2. CASE c # Cli
    <3>1. toKeeperd'[Cli] = toKeeperd[Cli]
      BY <1>1, <1>2, <1>7, <2>2 DEF Serve, Subscribe, Answer, Lookup, Record, Forward, Forget,
         Teardown, WriteReply, Take
    <3>2. toClient'[Cli] = toClient[Cli]
      BY <1>1, <1>2, <1>7, <2>2 DEF Serve, Subscribe, Answer, Lookup, Record, Forward, Forget,
         Teardown, WriteReply
    <3>3. serving'[Cli] = serving[Cli]
      <4>1. CASE Subscribe(c) \/ Forward(c) \/ Teardown(c) \/ WriteReply(c) \/ Record(c)
        BY <1>1, <1>2, <2>2, <4>1 DEF Subscribe, Forward, Teardown, WriteReply, Record, Replies
      <4>2. CASE Answer(c)
        BY <1>1, <1>2, <2>2, <4>2 DEF Answer, Dispatching, Replies
      <4>3. CASE Lookup(c)
        BY <1>1, <1>2, <2>2, <4>3 DEF Lookup, Replies
      <4>4. CASE Forget(c)
        BY <1>1, <1>2, <2>2, <4>4 DEF Forget, Replies
      <4> QED
        BY <1>7, <4>1, <4>2, <4>3, <4>4 DEF Serve
    <3> QED
      BY <1>3, <2>1, <3>1, <3>2, <3>3
  <2>3. CASE c = Cli /\ cli = "idle"
    <3>1. toKeeperd[c] = <<>> /\ serving[c] = Idle
      BY <2>3 DEF CliOnce
    <3>2. FALSE
      BY <1>7, <3>1 DEF Serve, Subscribe, Answer, Lookup, Record, Forward, Forget, Teardown,
         WriteReply, Dispatching, At, Idle
    <3> QED
      BY <3>2
  <2>4. CASE c = Cli /\ cli = "prompt"
    <3>1. /\ \A i \in 1..Len(toKeeperd[c]) : toKeeperd[c][i].type = "prompt"
          /\ \A i \in 1..Len(toClient[c]) : toClient[c][i].type = "prompt"
          /\ serving[c].step # "teardown" /\ (serving[c].step = "write" => serving[c].frame.type = "prompt")
      BY <2>4 DEF CliOnce
    <3>2. toKeeperd[c] # <<>> => /\ Head(toKeeperd[c]).type = "prompt"
                                 /\ \A i \in 1..Len(Tail(toKeeperd[c])) : Tail(toKeeperd[c])[i].type = "prompt"
      BY <1>2, <2>4, <3>1, TailElems
    <3>3. CASE Lookup(c)
      <4>1. toKeeperd[c] # <<>> /\ toKeeperd'[c] = Tail(toKeeperd[c]) /\ toClient' = toClient
        BY <1>2, <3>3 DEF Lookup, Dispatching, Take
      <4>2. (serving'[c].step = "write" /\ serving'[c].frame.type = "prompt") \/ serving'[c].step = "record"
        BY <1>2, <3>3 DEF Lookup, Replies, Ack, Frame
      <4> QED
        BY <2>1, <2>4, <3>1, <3>2, <4>1, <4>2 DEF CliOnce
    <3>4. CASE Record(c) \/ Forward(c)
      <4>1. toKeeperd' = toKeeperd /\ toClient' = toClient
        BY <3>4 DEF Record, Forward
      <4>2. (serving'[c].step = "write" /\ serving'[c].frame.type = "prompt") \/ serving'[c].step = "forward"
        <5>1. CASE Record(c)
          <6>1. serving[c].step = "record" /\ serving' = [serving EXCEPT ![c] = [serving[c] EXCEPT !.step = "forward"]]
            BY <5>1 DEF Record, At
          <6>2. serving[c] = [step |-> "record", prompt |-> serving[c].prompt]
            BY <1>2, <2>4, <6>1, HeldTypes
          <6>3. serving'[c] = [serving[c] EXCEPT !.step = "forward"]
            BY <1>2, <6>1
          <6> QED
            BY <6>2, <6>3
        <5>2. CASE Forward(c)
          BY <1>2, <5>2 DEF Forward, Replies, Ack, Frame
        <5> QED
          BY <3>4, <5>1, <5>2
      <4> QED
        BY <2>1, <2>4, <3>1, <4>1, <4>2 DEF CliOnce
    <3>5. CASE WriteReply(c)
      <4>1. /\ toKeeperd' = toKeeperd /\ toClient'[c] = Append(toClient[c], serving[c].frame)
            /\ serving'[c] = Idle /\ serving[c].step = "write"
        BY <1>2, <3>5 DEF WriteReply, At
      <4>2. serving[c].frame \in Frames
        BY <1>2, <2>4, <4>1, HeldTypes
      <4>3. \A i \in 1..Len(toClient'[c]) : toClient'[c][i].type = "prompt"
        BY <1>2, <2>4, <3>1, <4>1, <4>2, AppendElems
      <4> QED
        BY <2>1, <2>4, <3>1, <4>1, <4>3 DEF CliOnce, Idle
    <3>6. CASE Subscribe(c) \/ Answer(c) \/ Forget(c)
      BY <3>2, <3>6 DEF Subscribe, Answer, Forget, Dispatching
    <3>7. CASE Teardown(c)
      BY <3>1, <3>7 DEF Teardown, At
    <3> QED
      BY <1>7, <3>3, <3>4, <3>5, <3>6, <3>7 DEF Serve
  <2>5. CASE cli \notin {"idle", "prompt"}
    BY <2>1, <2>5 DEF CliOnce
  <2> QED
    BY <2>2, <2>3, <2>4, <2>5
<1>8. CASE CliSend
  <2>1. PICK r \in {Request(t, None) : t \in CliTypes}
                     \cup {Request("prompt", p) : p \in {given + 1} \cap 1..MaxPrompts} :
          toKeeperd' = [toKeeperd EXCEPT ![Cli] = Append(@, r)] /\ cli' = r.type
    BY <1>8 DEF CliSend
  <2>2. cli = "idle" /\ toClient' = toClient /\ serving' = serving
    BY <1>8 DEF CliSend
  <2>3. toKeeperd[Cli] = <<>> /\ toClient[Cli] = <<>> /\ serving[Cli] = Idle
    BY <2>2 DEF CliOnce
  <2>4. cli' # "idle"
    BY <2>1, CtlSessionAssumption DEF Request
  <2>5. toKeeperd'[Cli] = <<r>>
    BY <1>1, <1>2, <2>1, <2>3
  <2>6. \A i \in 1..Len(toKeeperd'[Cli]) : toKeeperd'[Cli][i] = r
    BY <2>5
  <2>7. 1..Len(toClient[Cli]) = {}
    BY <2>3
  <2> QED
    BY <2>1, <2>2, <2>3, <2>4, <2>6, <2>7 DEF CliOnce, Idle
<1>9. CASE CliRecv
  BY <1>9 DEF CliRecv, CliOnce
<1> QED
  BY <1>4, <1>5, <1>6, <1>7, <1>8, <1>9 DEF Next

LEMMA RecordedStep ==
  ASSUME Typed, Recorded, EventsTyped, [Next]_vars
  PROVE  Recorded'
<1>1. serving \in [Conns -> Steps] /\ entry \in Entries \cup {None} /\ ward \in {"up", "exited"}
  BY DEF Typed
<1>2. ASSUME entry' = None \/ (entry # None /\ entry'.prompt = entry.prompt),
             delivered \subseteq delivered', ward = "exited" => ward' = "exited",
             \A c \in Conns : serving[c].step = "forward" => serving'[c] = serving[c]
      PROVE  Recorded'
  BY <1>2 DEF Recorded
<1>3. CASE (\E p \in running : Report(p)) \/ WardExits \/ KeeperdStops
  BY <1>2, <1>3 DEF Report, WardExits, KeeperdStops, Dies, connVars, history, Recorded
<1>4. CASE Handle
  <2>1. entry' = None \/ (entry # None /\ entry'.prompt = entry.prompt)
    BY <1>1, <1>4 DEF Handle, NoteEvent, PushEvent, Entries
  <2> QED
    BY <1>2, <1>4, <2>1 DEF Handle, wardVars, connVars
<1>5. CASE (\E r \in sends : Send(r)) \/ ReadFrame \/ Update \/ KeyRefresh \/ KeyEnter \/ CliSend \/ CliRecv
           \/ WritePush \/ UNCHANGED vars
  <2>1. CASE Update
    <3>1. UNCHANGED <<entry, delivered, ward, serving>>
      BY <2>1 DEF Update, wardVars, keeperVars, connVars
    <3> QED
      BY <3>1 DEF Recorded
  <2>2. CASE (\E r \in sends : Send(r)) \/ ReadFrame \/ KeyRefresh \/ KeyEnter
    <3>1. UNCHANGED <<entry, delivered, ward, serving>>
      BY <2>2 DEF Send, ReadFrame, KeyRefresh, KeyEnter, Command, wardVars, keeperVars, connVars,
         history
    <3> QED
      BY <3>1 DEF Recorded
  <2>3. CASE CliSend \/ CliRecv \/ WritePush \/ UNCHANGED vars
    <3>1. UNCHANGED <<entry, delivered, ward, serving>>
      BY <2>3 DEF CliSend, CliRecv, WritePush, vars, wardVars, keeperVars, connVars, history
    <3> QED
      BY <3>1 DEF Recorded
  <2> QED
    BY <1>5, <2>1, <2>2, <2>3
<1>6. ASSUME NEW c \in Conns, Serve(c) PROVE Recorded'
  <2>1. CASE Subscribe(c) \/ Answer(c) \/ Lookup(c) \/ WriteReply(c)
    <3>1. /\ serving[c].step # "forward" /\ UNCHANGED <<entry, delivered, ward>>
          /\ \A d \in Conns : d # c => serving'[d] = serving[d]
      BY <1>1, <2>1 DEF Subscribe, Answer, Lookup, WriteReply, Dispatching, At, Replies, wardVars,
         keeperVars, history
    <3> QED
      BY <1>2, <3>1
  <2>2. CASE Record(c)
    <3>1. serving[c].step = "record" /\ serving' = [serving EXCEPT ![c] = [serving[c] EXCEPT !.step = "forward"]]
      BY <2>2 DEF Record, At
    <3>2. serving[c] = [step |-> "record", prompt |-> serving[c].prompt]
      BY <1>1, <3>1, HeldTypes
    <3>3. serving'[c] = [serving[c] EXCEPT !.step = "forward"]
      BY <1>1, <3>1
    <3>4. serving'[c].step = "forward" /\ serving'[c].prompt = serving[c].prompt
      BY <3>2, <3>3
    <3>5. entry' = None \/ entry'.prompt = serving[c].prompt
      BY <1>1, <2>2 DEF Record, Entries
    <3> QED
      BY <3>4, <3>5 DEF Recorded
  <2>3. CASE Forward(c)
    <3>1. /\ UNCHANGED <<entry, ward>> /\ delivered \subseteq delivered'
          /\ ward = "up" => serving[c].prompt \in delivered'
          /\ \A d \in Conns : d # c => serving'[d] = serving[d]
      BY <1>1, <2>3 DEF Forward, Replies, keeperVars
    <3> QED
      BY <1>1, <3>1 DEF Recorded
  <2>4. CASE Forget(c)
    BY <2>4 DEF Forget, Recorded
  <2>5. CASE Teardown(c)
    BY <2>5 DEF Teardown, Dies, Recorded
  <2> QED
    BY <1>6, <2>1, <2>2, <2>3, <2>4, <2>5 DEF Serve
<1> QED
  BY <1>3, <1>4, <1>5, <1>6 DEF Next

-----------------------------------------------------------------------------
LEMMA PromptInit ==
  ASSUME Init
  PROVE  PromptInv /\ EventsTyped
<1>1. Typed
  <2>1. given \in 0..MaxPrompts /\ delivered \subseteq 1..given /\ acked \subseteq AckBodies
    BY CtlSessionAssumption DEF Init
  <2>2. sends \subseteq Requests
    BY RequestTypes DEF Init
  <2>3. entry \in Entries \cup {None} /\ ward \in {"up", "exited"}
    BY DEF Init, Entries
  <2>4. serving \in [Conns -> Steps]
    BY StepTypes DEF Init
  <2>5. toKeeperd \in [Conns -> Seq(Requests)] /\ toClient \in [Conns -> Seq(Frames)] /\ msgs \in Seq(Frames)
    BY DEF Init
  <2> QED
    BY <2>1, <2>2, <2>3, <2>4, <2>5 DEF Init, Typed
<1>2. EventsTyped
  BY DEF Init, EventsTyped
<1>3. \A c \in Conns : toKeeperd[c] = <<>> /\ toClient[c] = <<>> /\ serving[c] = Idle
  BY DEF Init
<1>4. Acks = {}
  <2>1. \A a : ~InChannel(a) /\ \A c \in Conns : ~InLoop(c, a) /\ ~OnWire(c, a)
    BY <1>3, NotAnAck DEF Init, InChannel, InLoop, OnWire
  <2> QED
    BY <2>1 DEF Acks, Init
<1>5. OnePlace
  <2>1. \A p : ~Asked(p) /\ \A c \in Conns : ~Held(c, p) /\ \A i : ~Sent(c, i, p)
    BY <1>3 DEF Init, Asked, Request, Held, Idle, Sent
  <2> QED
    BY <2>1 DEF OnePlace, OnePlaceOf
<1>6. CliOnce
  <2>1. Cli \in Conns
    BY DEF Conns
  <2> QED
    BY <1>3, <2>1 DEF CliOnce, Init
<1>7. Recorded
  BY DEF Recorded, Init
<1> QED
  BY <1>1, <1>2, <1>4, <1>5, <1>6, <1>7 DEF PromptInv, AcksRight

LEMMA PromptStep ==
  ASSUME PromptInv, EventsTyped, [Next]_vars
  PROVE  PromptInv' /\ EventsTyped'
<1>1. Typed /\ OnePlace /\ AcksRight /\ CliOnce /\ Recorded
  BY DEF PromptInv
<1>2. EventsTyped' /\ CliOnce' /\ Recorded'
  BY <1>1, EventsTypedStep, CliOnceStep, RecordedStep
<1>3. CASE (\E p \in running : Report(p)) \/ WardExits \/ KeeperdStops \/ Handle \/ WritePush
  BY <1>1, <1>2, <1>3, TypedEvents, PlacesEvents DEF PromptInv
<1>4. ASSUME NEW c \in Conns, Serve(c) PROVE PromptInv'
  BY <1>1, <1>2, <1>4, TypedServe, PlacesServe DEF PromptInv
<1>5. CASE (\E r \in sends : Send(r)) \/ ReadFrame \/ Update \/ KeyRefresh \/ KeyEnter
  BY <1>1, <1>2, <1>5, TypedTui, PlacesTui DEF PromptInv
<1>6. CASE CliSend \/ CliRecv
  BY <1>1, <1>2, <1>6, TypedCli, PlacesCli DEF PromptInv
<1>7. CASE UNCHANGED vars
  <2>1. Typed'
    BY <1>1, <1>7 DEF Typed, vars, wardVars, keeperVars, connVars, tuiVars, history
  <2>2. UNCHANGED <<acked, serving, toClient, msgs, sends, toKeeperd, given, delivered>>
    BY <1>7 DEF vars, connVars, tuiVars, history
  <2>3. Acks' = Acks
    BY <2>2, AcksSame
  <2>4. AcksRight'
    BY <1>1, <2>2, <2>3 DEF AcksRight
  <2>5. ASSUME NEW p \in Prompts PROVE OnePlaceOf(p)'
    <3>1. /\ Asked(p)' <=> Asked(p)
          /\ Fresh(p)' <=> Fresh(p)
          /\ \A c \in Conns : Held(c, p)' <=> Held(c, p)
          /\ \A c \in Conns : \A i \in Nat : Sent(c, i, p)' <=> Sent(c, i, p)
      BY <2>2, <2>3 DEF Asked, Fresh, Held, Sent
    <3> QED
      BY <1>1, <3>1 DEF OnePlace, OnePlaceOf
  <2> QED
    BY <1>2, <2>1, <2>4, <2>5 DEF PromptInv, OnePlace
<1> QED
  BY <1>2, <1>3, <1>4, <1>5, <1>6, <1>7 DEF Next

(* A prompt is in one place at a time until keeperd decides it, and every  *)
(* acknowledgement there is, in the request loop, on a connection, in the  *)
(* TUI's channel or with the client, tells what became of its prompt.      *)
THEOREM PromptsKept == Spec => [](PromptInv /\ EventsTyped)
<1>1. Init => PromptInv /\ EventsTyped
  BY PromptInit
<1>2. PromptInv /\ EventsTyped /\ [Next]_vars => (PromptInv /\ EventsTyped)'
  BY PromptStep
<1> QED
  BY <1>1, <1>2, PTL DEF Spec

(* PromptsTruthful: whatever both operators ask for, and whatever the Ward *)
(* and keeperd do meanwhile, a client is told that its prompt was sent if  *)
(* and only if dispatchPrompt wrote it to the Ward, and a status names a   *)
(* prompt that the Ward got, is about to get, or had exited before it      *)
(* could get.                                                              *)
THEOREM PromptsTold == Spec => []PromptsTruthful
<1>1. PromptInv => PromptsTruthful
  <2> SUFFICES ASSUME PromptInv PROVE PromptsTruthful
    OBVIOUS
  <2>1. acked \subseteq Acks
    BY DEF PromptInv, Typed, Acks
  <2>2. \A a \in acked : a.ok <=> a.prompt \in delivered
    BY <2>1 DEF PromptInv, AcksRight
  <2> QED
    BY <2>2 DEF PromptInv, Recorded, PromptsTruthful
<1> QED
  BY <1>1, PromptsKept, PTL

-----------------------------------------------------------------------------
(* The events.  First what a sequence of frames keeps when a frame is      *)
(* written to a connection, moves from the connection to the TUI's         *)
(* channel, or is taken from there.                                        *)

LEMMA QueuedLast ==
  ASSUME NEW S, NEW a \in Seq(S), NEW b \in Seq(S), NEW e \in S
  PROVE  a \o Append(b, e) = Append(a \o b, e)
<1>1. /\ Append(b, e) \in Seq(S) /\ a \o b \in Seq(S) /\ Len(Append(b, e)) = Len(b) + 1
      /\ Len(a \o b) = Len(a) + Len(b) /\ Len(a) \in Nat /\ Len(b) \in Nat
  OBVIOUS
<1>2. Len(a \o Append(b, e)) = Len(Append(a \o b, e))
  BY <1>1
<1>3. ASSUME NEW i \in 1..Len(a \o Append(b, e)) PROVE (a \o Append(b, e))[i] = Append(a \o b, e)[i]
  <2>1. CASE i <= Len(a)
    BY <1>1, <2>1
  <2>2. CASE i > Len(a) /\ i <= Len(a) + Len(b)
    BY <1>1, <2>2
  <2>3. CASE i = Len(a) + Len(b) + 1
    BY <1>1, <2>3
  <2> QED
    BY <1>1, <2>1, <2>2, <2>3
<1>4. a \o Append(b, e) \in Seq(S) /\ Append(a \o b, e) \in Seq(S)
  BY <1>1
<1> QED
  BY <1>2, <1>3, <1>4

LEMMA MovedInPlace ==
  ASSUME NEW S, NEW a \in Seq(S), NEW b \in Seq(S), b # <<>>
  PROVE  Append(a, Head(b)) \o Tail(b) = a \o b
<1>1. /\ Append(a, Head(b)) \in Seq(S) /\ Tail(b) \in Seq(S)
      /\ Len(b) > 0 /\ Len(Tail(b)) = Len(b) - 1 /\ b[1] = Head(b)
  OBVIOUS
<1>2. Len(Append(a, Head(b)) \o Tail(b)) = Len(a \o b)
  BY <1>1
<1>3. ASSUME NEW i \in 1..Len(a \o b)
      PROVE  (Append(a, Head(b)) \o Tail(b))[i] = (a \o b)[i]
  <2>1. CASE i <= Len(a)
    BY <1>1, <2>1
  <2>2. CASE i = Len(a) + 1
    BY <1>1, <2>2
  <2>3. CASE i > Len(a) + 1
    <3>1. (Append(a, Head(b)) \o Tail(b))[i] = Tail(b)[i - (Len(a) + 1)]
      BY <1>1, <2>3
    <3>2. (a \o b)[i] = b[i - Len(a)]
      BY <2>3
    <3>3. Tail(b)[i - (Len(a) + 1)] = b[i - Len(a)]
      BY <1>1, <2>3
    <3> QED
      BY <3>1, <3>2, <3>3
  <2> QED
    BY <2>1, <2>2, <2>3
<1>4. a \o b \in Seq(S) /\ Append(a, Head(b)) \o Tail(b) \in Seq(S)
  BY <1>1
<1> QED
  BY <1>2, <1>3, <1>4

LEMMA TakenFirst ==
  ASSUME NEW S, NEW a \in Seq(S), NEW b \in Seq(S), a # <<>>
  PROVE  a \o b # <<>> /\ Head(a \o b) = Head(a) /\ Tail(a) \o b = Tail(a \o b)
<1>1. /\ Tail(a) \in Seq(S) /\ a \o b \in Seq(S) /\ Len(a) > 0 /\ Len(Tail(a)) = Len(a) - 1
      /\ Len(a \o b) = Len(a) + Len(b) /\ Len(a) \in Nat /\ Len(b) \in Nat /\ (a \o b)[1] = a[1]
  OBVIOUS
<1>2. a \o b # <<>> /\ Head(a \o b) = Head(a)
  BY <1>1
<1>3. Tail(a \o b) \in Seq(S) /\ Tail(a) \o b \in Seq(S) /\ Len(Tail(a \o b)) = Len(a) + Len(b) - 1
  BY <1>1, <1>2
<1>4. Len(Tail(a) \o b) = Len(Tail(a \o b))
  BY <1>1, <1>3
<1>5. ASSUME NEW i \in 1..Len(Tail(a \o b)) PROVE (Tail(a) \o b)[i] = Tail(a \o b)[i]
  <2>1. Tail(a \o b)[i] = (a \o b)[i + 1]
    BY <1>1, <1>2
  <2>2. CASE i <= Len(a) - 1
    BY <1>1, <1>3, <2>1, <2>2
  <2>3. CASE i > Len(a) - 1
    BY <1>1, <1>3, <2>1, <2>3
  <2> QED
    BY <1>1, <2>2, <2>3
<1> QED
  BY <1>2, <1>3, <1>4, <1>5

(* What a connection buffers, as it will be decoded.                       *)
LEMMA AsReadElems ==
  ASSUME NEW s \in Seq(Frames)
  PROVE  /\ AsRead(s) \in Seq(Frames) /\ Len(AsRead(s)) = Len(s) /\ Len(s) \in Nat
         /\ \A i \in 1..Len(s) : AsRead(s)[i] = Decoded(s[i]) /\ s[i] \in Frames
<1>1. Len(s) \in Nat /\ \A i \in 1..Len(s) : s[i] \in Frames
  BY Elems
<1>2. \A i \in 1..Len(s) : Decoded(s[i]) \in Frames
  BY <1>1, DecodedTypes
<1>3. AsRead(s) \in [1..Len(s) -> Frames]
  BY <1>2 DEF AsRead
<1>4. AsRead(s) \in Seq(Frames) /\ Len(AsRead(s)) = Len(s)
  BY <1>1, <1>3
<1> QED
  BY <1>1, <1>4 DEF AsRead

LEMMA AsReadAppend ==
  ASSUME NEW s \in Seq(Frames), NEW f \in Frames
  PROVE  AsRead(Append(s, f)) = Append(AsRead(s), Decoded(f))
<1> DEFINE t == Append(s, f)
           a == AsRead(s)
           b == AsRead(t)
<1>1. /\ t \in Seq(Frames) /\ Len(t) = Len(s) + 1 /\ t[Len(s) + 1] = f
      /\ \A i \in 1..Len(s) : t[i] = s[i]
  BY AppendElems
<1>2. /\ a \in Seq(Frames) /\ Len(a) = Len(s) /\ Len(s) \in Nat
      /\ \A i \in 1..Len(s) : a[i] = Decoded(s[i])
      /\ b \in Seq(Frames) /\ Len(b) = Len(s) + 1
      /\ \A i \in 1..(Len(s) + 1) : b[i] = Decoded(t[i])
  BY <1>1, AsReadElems
<1>3. Decoded(f) \in Frames
  BY DecodedTypes
<1> HIDE DEF t, a, b
<1>4. /\ Append(a, Decoded(f)) \in Seq(Frames) /\ Len(Append(a, Decoded(f))) = Len(s) + 1
      /\ Append(a, Decoded(f))[Len(s) + 1] = Decoded(f)
      /\ \A i \in 1..Len(s) : Append(a, Decoded(f))[i] = a[i]
  BY <1>2, <1>3, AppendElems
<1>5. ASSUME NEW i \in 1..(Len(s) + 1) PROVE b[i] = Append(a, Decoded(f))[i]
  <2>1. CASE i \in 1..Len(s)
    BY <1>1, <1>2, <1>4, <2>1
  <2>2. CASE i = Len(s) + 1
    BY <1>1, <1>2, <1>4, <2>2
  <2> QED
    BY <1>2, <2>1, <2>2
<1>6. b = Append(a, Decoded(f))
  BY <1>2, <1>4, <1>5
<1> QED
  BY <1>6 DEF t, a, b

LEMMA AsReadTail ==
  ASSUME NEW s \in Seq(Frames), s # <<>>
  PROVE  AsRead(s) # <<>> /\ Head(AsRead(s)) = Decoded(Head(s)) /\ Tail(AsRead(s)) = AsRead(Tail(s))
<1> DEFINE t == Tail(s)
           a == AsRead(s)
           b == AsRead(t)
<1>1. /\ t \in Seq(Frames) /\ Len(t) = Len(s) - 1 /\ Len(s) \in Nat \ {0} /\ Head(s) = s[1]
      /\ 1 \in 1..Len(s) /\ \A i \in 1..Len(t) : i + 1 \in 1..Len(s) /\ t[i] = s[i + 1]
  BY TailElems
<1>2. /\ a \in Seq(Frames) /\ Len(a) = Len(s) /\ \A i \in 1..Len(s) : a[i] = Decoded(s[i])
      /\ b \in Seq(Frames) /\ Len(b) = Len(t) /\ \A i \in 1..Len(t) : b[i] = Decoded(t[i])
  BY <1>1, AsReadElems
<1> HIDE DEF t, a, b
<1>3. a # <<>>
  <2>1. \A x : x = <<>> => Len(x) = 0
    OBVIOUS
  <2> QED
    BY <1>1, <1>2, <2>1
<1>4. /\ Tail(a) \in Seq(Frames) /\ Len(Tail(a)) = Len(a) - 1 /\ Head(a) = a[1]
      /\ \A i \in 1..Len(Tail(a)) : Tail(a)[i] = a[i + 1]
  BY <1>2, <1>3, TailElems
<1>5. ASSUME NEW i \in 1..Len(t) PROVE Tail(a)[i] = b[i]
  BY <1>1, <1>2, <1>4
<1>6. Tail(a) = b
  BY <1>1, <1>2, <1>4, <1>5
<1> QED
  BY <1>1, <1>2, <1>3, <1>4, <1>6 DEF t, a, b

(* What the TUI will show of what was written and not yet taken.           *)
LEMMA StreamTyped ==
  ASSUME Typed
  PROVE  /\ msgs \in Seq(Frames) /\ toClient \in [Conns -> Seq(Frames)] /\ Tui \in Conns
         /\ toClient[Tui] \in Seq(Frames) /\ AsRead(toClient[Tui]) \in Seq(Frames)
         /\ Stream \in Seq(Frames)
<1>1. msgs \in Seq(Frames) /\ toClient \in [Conns -> Seq(Frames)] /\ Tui \in Conns
  BY DEF Typed, Conns
<1>2. AsRead(toClient[Tui]) \in Seq(Frames)
  BY <1>1, AsReadElems
<1> QED
  BY <1>1, <1>2 DEF Stream

LEMMA StreamWritten ==
  ASSUME Typed, NEW f \in Frames, msgs' = msgs, toClient'[Tui] = Append(toClient[Tui], f)
  PROVE  Stream' = Append(Stream, Decoded(f))
<1>1. AsRead(toClient[Tui])' = Append(AsRead(toClient[Tui]), Decoded(f))
  BY StreamTyped, AsReadAppend DEF AsRead
<1>2. Decoded(f) \in Frames
  BY DecodedTypes
<1> QED
  BY <1>1, <1>2, StreamTyped, QueuedLast DEF Stream

LEMMA StreamRead ==
  ASSUME Typed, toClient[Tui] # <<>>, msgs' = Append(msgs, Decoded(Head(toClient[Tui]))),
         toClient'[Tui] = Tail(toClient[Tui])
  PROVE  Stream' = Stream
<1>1. /\ AsRead(toClient[Tui]) # <<>> /\ Head(AsRead(toClient[Tui])) = Decoded(Head(toClient[Tui]))
      /\ Tail(AsRead(toClient[Tui])) = AsRead(Tail(toClient[Tui]))
  BY StreamTyped, AsReadTail
<1>2. Stream' = Append(msgs, Head(AsRead(toClient[Tui]))) \o Tail(AsRead(toClient[Tui]))
  BY <1>1 DEF Stream, AsRead
<1> QED
  BY <1>1, <1>2, StreamTyped, MovedInPlace DEF Stream

LEMMA StreamTaken ==
  ASSUME Typed, msgs # <<>>, msgs' = Tail(msgs), toClient' = toClient
  PROVE  Stream # <<>> /\ Head(Stream) = Head(msgs) /\ Stream' = Tail(Stream)
<1>1. Stream' = Tail(msgs) \o AsRead(toClient[Tui])
  BY DEF Stream, AsRead
<1> QED
  BY <1>1, StreamTyped, TakenFirst DEF Stream

LEMMA NothingBuffered ==
  ASSUME msgs = <<>>, toClient[Tui] = <<>>
  PROVE  Stream = <<>>
<1>1. \A x : x = <<>> => Len(x) = 0
  OBVIOUS
<1>2. toClient[Tui] \in Seq(Frames) /\ Len(toClient[Tui]) = 0
  BY <1>1
<1>3. AsRead(toClient[Tui]) \in Seq(Frames) /\ Len(AsRead(toClient[Tui])) = 0
  BY <1>2, AsReadElems
<1>4. AsRead(toClient[Tui]) = <<>>
  BY <1>3
<1> QED
  BY <1>4 DEF Stream

LEMMA StreamStays ==
  ASSUME msgs' = msgs, toClient'[Tui] = toClient[Tui]
  PROVE  Stream' = Stream
BY DEF Stream, AsRead

LEMMA KnownTypes ==
  ASSUME NEW f \in Frames, NEW e \in Nat, Known(f, e)
  PROVE  /\ f.type = "status" => f.body # None /\ f.body.event \in Nat /\ f.body.event <= e
         /\ f.type = "event" => f.body \in Nat /\ f.body <= e
         /\ f.type \in Shows => Value(f) \in Nat /\ Value(f) <= e
BY FramePrompt DEF Known, Shows, Value, Entries

LEMMA OrderedAppend ==
  ASSUME NEW s \in Seq(Frames), NEW f \in Frames, NEW e \in Nat, Ordered(s, e), Known(f, e),
         f.type = "status" => Precede(s, f)
  PROVE  Ordered(Append(s, f), e)
<1> DEFINE t == Append(s, f)
<1>1. /\ Len(s) \in Nat /\ Len(t) = Len(s) + 1 /\ t[Len(s) + 1] = f
      /\ \A i \in 1..Len(s) : t[i] = s[i]
      /\ \A i \in 1..Len(t) : i \in 1..Len(s) \/ i = Len(s) + 1
  BY AppendElems, Elems
<1> HIDE DEF t
<1>2. ASSUME NEW i \in 1..Len(t) PROVE Known(t[i], e)
  BY <1>1 DEF Ordered
<1>3. ASSUME NEW i \in 1..Len(t), NEW j \in 1..Len(t), i < j, t[i].type = "status", t[j].type = "status"
      PROVE  t[i].body.event <= t[j].body.event
  <2>1. i \in 1..Len(s) /\ t[i] = s[i]
    BY <1>1, <1>3
  <2>2. CASE j \in 1..Len(s)
    BY <1>1, <1>3, <2>1, <2>2 DEF Ordered
  <2>3. CASE j = Len(s) + 1
    BY <1>1, <1>3, <2>1, <2>3 DEF Precede
  <2> QED
    BY <1>1, <2>2, <2>3
<1>4. Ordered(t, e)
  BY <1>2, <1>3 DEF Ordered
<1> QED
  BY <1>4 DEF t

LEMMA OrderedTail ==
  ASSUME NEW s \in Seq(Frames), s # <<>>, NEW e \in Nat, Ordered(s, e)
  PROVE  /\ Ordered(Tail(s), e) /\ Known(Head(s), e)
         /\ Head(s).type = "status" =>
              \A i \in 1..Len(Tail(s)) :
                Tail(s)[i].type = "status" => Head(s).body.event <= Tail(s)[i].body.event
<1> DEFINE t == Tail(s)
<1>1. /\ Len(s) \in Nat /\ Head(s) = s[1] /\ 1 \in 1..Len(s) /\ Len(t) \in Nat
      /\ \A i \in 1..Len(t) : i + 1 \in 1..Len(s) /\ t[i] = s[i + 1]
  BY TailElems
<1> HIDE DEF t
<1>2. \A i \in 1..Len(t) : Known(t[i], e)
  BY <1>1 DEF Ordered
<1>3. ASSUME NEW i \in 1..Len(t), NEW j \in 1..Len(t), i < j, t[i].type = "status", t[j].type = "status"
      PROVE  t[i].body.event <= t[j].body.event
  <2>1. i + 1 < j + 1 /\ i + 1 \in 1..Len(s) /\ j + 1 \in 1..Len(s)
    BY <1>1, <1>3
  <2> QED
    BY <1>1, <1>3, <2>1 DEF Ordered
<1>4. ASSUME NEW i \in 1..Len(t), s[1].type = "status", t[i].type = "status"
      PROVE  s[1].body.event <= t[i].body.event
  <2>1. 1 < i + 1 /\ i + 1 \in 1..Len(s)
    BY <1>1
  <2> QED
    BY <1>1, <1>4, <2>1 DEF Ordered
<1>5. Ordered(t, e) /\ Known(Head(s), e)
  BY <1>1, <1>2, <1>3 DEF Ordered
<1> QED
  BY <1>1, <1>4, <1>5 DEF t

LEMMA OrderedUp ==
  ASSUME NEW s \in Seq(Frames), NEW e \in Nat, NEW d \in Nat, e <= d, Ordered(s, e)
  PROVE  Ordered(s, d)
<1>1. ASSUME NEW f \in Frames, Known(f, e) PROVE Known(f, d)
  BY <1>1, KnownTypes DEF Known
<1>2. \A i \in 1..Len(s) : s[i] \in Frames
  BY Elems
<1> QED
  BY <1>1, <1>2 DEF Ordered

LEMMA PrecedeAppend ==
  ASSUME NEW s \in Seq(Frames), NEW f \in Frames, f.type # "status", NEW g, Precede(s, g)
  PROVE  Precede(Append(s, f), g)
BY AppendElems DEF Precede

LEMMA PrecedeTail ==
  ASSUME NEW s \in Seq(Frames), s # <<>>, NEW g, Precede(s, g)
  PROVE  Precede(Tail(s), g)
BY TailElems DEF Precede

LEMMA EndsShown ==
  ASSUME NEW s \in Seq(Frames), NEW f \in Frames, NEW T, f.type \in T, NEW x
  PROVE  EndsWith(T, x, Append(s, f), Value(f))
<1> DEFINE t == Append(s, f)
<1>1. /\ Len(s) \in Nat /\ Len(t) = Len(s) + 1 /\ t[Len(s) + 1] = f
      /\ \A i \in 1..Len(t) : i < Len(s) + 1 \/ i = Len(s) + 1
  BY AppendElems, Elems
<1> HIDE DEF t
<1>2. Len(s) + 1 \in 1..Len(t)
  BY <1>1
<1>3. EndsWith(T, x, t, Value(f))
  BY <1>1, <1>2 DEF EndsWith
<1> QED
  BY <1>3 DEF t

LEMMA EndsUnshown ==
  ASSUME NEW s \in Seq(Frames), NEW f \in Frames, NEW T, f.type \notin T, NEW x, NEW e, EndsWith(T, x, s, e)
  PROVE  EndsWith(T, x, Append(s, f), e)
<1> DEFINE t == Append(s, f)
<1>1. /\ Len(s) \in Nat /\ Len(t) = Len(s) + 1 /\ t[Len(s) + 1] = f
      /\ \A i \in 1..Len(s) : t[i] = s[i] /\ i \in 1..Len(t)
      /\ \A i \in 1..Len(t) : i \in 1..Len(s) \/ i = Len(s) + 1
  BY AppendElems, Elems
<1> HIDE DEF t
<1>2. EndsWith(T, x, t, e)
  BY <1>1 DEF EndsWith
<1> QED
  BY <1>2 DEF t

LEMMA EndsTaken ==
  ASSUME NEW s \in Seq(Frames), s # <<>>, NEW T, NEW x, NEW e, EndsWith(T, x, s, e),
         NEW y, y = IF Head(s).type \in T THEN Value(Head(s)) ELSE x
  PROVE  EndsWith(T, y, Tail(s), e)
<1> DEFINE t == Tail(s)
<1>1. /\ Len(s) \in Nat /\ Head(s) = s[1] /\ 1 \in 1..Len(s) /\ Len(t) = Len(s) - 1
      /\ \A i \in 1..Len(t) : i + 1 \in 1..Len(s) /\ t[i] = s[i + 1]
  BY TailElems
<1> HIDE DEF t
<1>2. ASSUME NEW j \in 1..Len(s), j # 1 PROVE j - 1 \in 1..Len(t) /\ t[j - 1] = s[j]
  <2>1. j - 1 \in 1..Len(t) /\ (j - 1) + 1 = j
    BY <1>1, <1>2
  <2> QED
    BY <1>1, <2>1
<1>3. ASSUME y # e PROVE \E j \in 1..Len(t) : t[j].type \in T /\ Value(t[j]) = e
  <2>1. PICK j \in 1..Len(s) : j # 1 /\ s[j].type \in T /\ Value(s[j]) = e
    BY <1>1, <1>3 DEF EndsWith
  <2> QED
    BY <1>2, <2>1
<1>4. ASSUME NEW i \in 1..Len(t), t[i].type \in T, Value(t[i]) # e
      PROVE  \E j \in 1..Len(t) : i < j /\ t[j].type \in T /\ Value(t[j]) = e
  <2>1. PICK j \in 1..Len(s) : i + 1 < j /\ s[j].type \in T /\ Value(s[j]) = e
    BY <1>1, <1>4 DEF EndsWith
  <2>2. j # 1 /\ i < j - 1
    BY <2>1
  <2> QED
    BY <1>2, <2>1, <2>2
<1>5. EndsWith(T, y, t, e)
  BY <1>3, <1>4 DEF EndsWith
<1> QED
  BY <1>5 DEF t

(* A step that neither writes to the TUI nor takes what it has, and leaves *)
(* the event of the entry and the queue as they are.                       *)
LEMMA EventsStay ==
  ASSUME Typed, EventsTyped, entry # None, WireInTurn, Coming,
         UNCHANGED <<handling, pushCh, excused, shown, Stream>>, entry'.event = entry.event,
         serving'[Tui].step = "write" => /\ serving'[Tui].frame.type # "event"
                                        /\ Known(serving'[Tui].frame, entry.event),
         StatusAtHand' => \/ serving'[Tui].frame.body.event = entry.event
                          \/ StatusAtHand /\ serving'[Tui].frame = serving[Tui].frame
  PROVE  WireInTurn' /\ Coming'
<1> DEFINE e == entry.event
<1>1. Stream \in Seq(Frames) /\ e \in Nat
  BY StreamTyped DEF Typed, Entries
<1>2. ASSUME StatusAtHand' PROVE Precede(Stream, serving'[Tui].frame)
  <2>1. CASE serving'[Tui].frame.body.event = e
    BY <2>1 DEF WireInTurn, Ordered, Known, Precede
  <2>2. CASE StatusAtHand /\ serving'[Tui].frame = serving[Tui].frame
    BY <2>2 DEF WireInTurn
  <2> QED
    BY <1>2, <2>1, <2>2
<1>3. WireInTurn'
  <2>1. /\ \A i \in 1..Len(pushCh') : pushCh'[i] <= entry'.event
        /\ Ordered(Stream', entry'.event)
    BY DEF WireInTurn
  <2> QED
    BY <1>2, <2>1 DEF WireInTurn
<1>4. Coming'
  BY DEF Coming
<1> QED
  BY <1>3, <1>4

LEMMA PipeStays ==
  ASSUME EventsTyped, PipeInTurn, entry'.event = entry.event, UNCHANGED <<reported, handling>>,
         \E n \in 0..Len(pipe) : pipe' = SubSeq(pipe, 1, n)
  PROVE  PipeInTurn'
<1>1. PICK n \in 0..Len(pipe) : pipe' = SubSeq(pipe, 1, n)
  OBVIOUS
<1>2. Len(pipe') = n /\ \A i \in 1..n : i \in 1..Len(pipe) /\ pipe'[i] = pipe[i]
  BY <1>1 DEF EventsTyped
<1> QED
  BY <1>2 DEF PipeInTurn

LEMMA Handled ==
  ASSUME Typed, EventsTyped, entry # None, InTurn, Coming, Handle, entry' # None
  PROVE  InTurn' /\ Coming'
<1>1. entry \in Entries /\ entry.event \in Nat /\ Stream \in Seq(Frames) /\ pipe \in Seq(Nat) /\ pushCh \in Seq(Nat)
  BY StreamTyped DEF Typed, EventsTyped, Entries
<1>2. UNCHANGED <<Stream, serving, reported, shown>>
  BY StreamStays DEF Handle, connVars, tuiVars, wardVars
<1>3. CASE NoteEvent
  <2> DEFINE e == Head(pipe)
  <2>1. /\ e \in Nat /\ e = pipe[1] /\ 1 \in 1..Len(pipe) /\ Len(pipe) \in Nat
        /\ \A i \in 1..Len(Tail(pipe)) : i + 1 \in 1..Len(pipe) /\ Tail(pipe)[i] = pipe[i + 1]
    BY <1>1, <1>3, TailElems DEF NoteEvent
  <2>2. handling' = e /\ pipe' = Tail(pipe) /\ entry'.event = e /\ UNCHANGED <<pushCh, excused>>
    BY <1>1, <1>3 DEF NoteEvent, Entries
  <2>3. entry.event < e /\ e <= reported
    BY <2>1 DEF InTurn, PipeInTurn
  <2>4. PipeInTurn'
    <3>1. ASSUME NEW i \in 1..Len(Tail(pipe)) PROVE e < Tail(pipe)[i] /\ Tail(pipe)[i] <= reported
      <4>1. 1 < i + 1 /\ i + 1 \in 1..Len(pipe)
        BY <2>1
      <4> QED
        BY <2>1, <4>1 DEF InTurn, PipeInTurn
    <3>2. ASSUME NEW i \in 1..Len(Tail(pipe)), NEW j \in 1..Len(Tail(pipe)), i < j
          PROVE  Tail(pipe)[i] < Tail(pipe)[j]
      <4>1. i + 1 < j + 1 /\ i + 1 \in 1..Len(pipe) /\ j + 1 \in 1..Len(pipe)
        BY <2>1, <3>2
      <4> QED
        BY <2>1, <4>1 DEF InTurn, PipeInTurn
    <3> QED
      BY <1>2, <2>2, <2>3, <3>1, <3>2 DEF PipeInTurn
  <2>5. WireInTurn'
    <3>1. \A i \in 1..Len(pushCh) : pushCh[i] <= e
      <4>1. \A i \in 1..Len(pushCh) : pushCh[i] \in Nat /\ pushCh[i] <= entry.event
        BY <1>1 DEF InTurn, WireInTurn
      <4> QED
        BY <1>1, <2>1, <2>3, <4>1
    <3>2. Ordered(Stream, e)
      BY <1>1, <2>1, <2>3, OrderedUp DEF InTurn, WireInTurn
    <3>3. serving[Tui].step = "write" => serving[Tui].frame.type # "event" /\ Known(serving[Tui].frame, e)
      <4> SUFFICES ASSUME serving[Tui].step = "write"
                   PROVE  serving[Tui].frame.type # "event" /\ Known(serving[Tui].frame, e)
        OBVIOUS
      <4>1. serving[Tui].frame \in Frames
        BY HeldTypes DEF Typed, Conns
      <4>2. serving[Tui].frame.type # "event" /\ Known(serving[Tui].frame, entry.event)
        BY DEF InTurn, WireInTurn
      <4> QED
        BY <1>1, <2>1, <2>3, <4>1, <4>2, KnownTypes DEF Known
    <3>4. StatusAtHand' => Precede(Stream, serving[Tui].frame)
      BY <1>2 DEF InTurn, WireInTurn, StatusAtHand
    <3> QED
      BY <1>2, <2>2, <3>1, <3>2, <3>3, <3>4 DEF WireInTurn
  <2>6. Coming'
    BY <1>1, <2>1, <2>2, <2>3 DEF Coming
  <2> QED
    BY <2>4, <2>5, <2>6 DEF InTurn
<1>4. CASE PushEvent
  <2>1. handling = entry.event /\ handling' = 0 /\ UNCHANGED <<pipe, entry>>
    BY <1>4 DEF PushEvent, InTurn, PipeInTurn
  <2>2. PipeInTurn'
    BY <1>2, <2>1 DEF InTurn, PipeInTurn
  <2>3. \/ pushCh' = Append(pushCh, entry.event) /\ excused' = excused
        \/ pushCh' = pushCh /\ excused' = excused \cup {entry.event}
    BY <1>4, <2>1 DEF PushEvent
  <2>4. WireInTurn'
    <3>1. \A i \in 1..Len(pushCh') : pushCh'[i] <= entry.event
      <4>1. \A i \in 1..Len(pushCh) : pushCh[i] <= entry.event
        BY DEF InTurn, WireInTurn
      <4>2. CASE pushCh' = Append(pushCh, entry.event)
        <5>1. /\ Append(pushCh, entry.event)[Len(pushCh) + 1] = entry.event
              /\ \A i \in 1..Len(pushCh) : Append(pushCh, entry.event)[i] = pushCh[i]
              /\ \A i \in 1..Len(Append(pushCh, entry.event)) : i \in 1..Len(pushCh) \/ i = Len(pushCh) + 1
          BY <1>1, AppendElems
        <5>2. entry.event <= entry.event
          BY <1>1
        <5> QED
          BY <4>1, <4>2, <5>1, <5>2
      <4> QED
        BY <2>3, <4>1, <4>2
    <3>2. StatusAtHand' <=> StatusAtHand
      BY <1>2 DEF StatusAtHand
    <3> QED
      BY <1>2, <2>1, <3>1, <3>2 DEF InTurn, WireInTurn
  <2>5. Coming'
    <3>1. CASE pushCh' = Append(pushCh, entry.event) /\ excused' = excused
      <4>1. pushCh' # <<>> /\ pushCh'[Len(pushCh')] = entry.event
        BY <1>1, <3>1, AppendElems
      <4> QED
        BY <2>1, <4>1 DEF Coming
    <3>2. CASE pushCh' = pushCh /\ excused' = excused \cup {entry.event}
      BY <2>1, <3>2 DEF Coming
    <3> QED
      BY <2>3, <3>1, <3>2
  <2> QED
    BY <2>2, <2>4, <2>5 DEF InTurn
<1> QED
  BY <1>3, <1>4 DEF Handle

LEMMA Pushed ==
  ASSUME Typed, EventsTyped, entry # None, InTurn, Coming, WritePush
  PROVE  InTurn' /\ Coming'
<1> DEFINE e == Head(pushCh)
           f == Frame("event", e)
<1>1. entry.event \in Nat /\ Stream \in Seq(Frames) /\ pushCh \in Seq(Nat) /\ pushCh # <<>> /\ e \in Nat
  BY TailElems, StreamTyped DEF Typed, EventsTyped, Entries, WritePush
<1>2. f \in Frames /\ f.type = "event" /\ f.body = e /\ Decoded(f) = f
  BY <1>1, FrameTypes, DecodedTypes DEF Frame
<1>3. /\ UNCHANGED <<reported, pipe, handling, entry, serving, shown>> /\ pushCh' = Tail(pushCh)
      /\ excused' = IF Overtakes(e) THEN excused \cup {e} ELSE excused
  BY DEF WritePush, wardVars, keeperVars, tuiVars
<1>4. Stream' = Append(Stream, f)
  <2>1. msgs' = msgs /\ toClient'[Tui] = Append(toClient[Tui], f)
    BY StreamTyped DEF WritePush, tuiVars
  <2> QED
    BY <1>2, <2>1, StreamWritten
<1>5. StatusAtHand' <=> StatusAtHand
  BY <1>3 DEF StatusAtHand
<1>6. /\ Len(pushCh) \in Nat /\ e = pushCh[1] /\ 1 \in 1..Len(pushCh) /\ Len(Tail(pushCh)) = Len(pushCh) - 1
      /\ \A i \in 1..Len(Tail(pushCh)) : i + 1 \in 1..Len(pushCh) /\ Tail(pushCh)[i] = pushCh[i + 1]
  BY <1>1, TailElems
<1>7. e <= entry.event
  BY <1>6 DEF InTurn, WireInTurn
<1> HIDE DEF f
<1>8. WireInTurn'
  <2>1. Ordered(Stream', entry.event)
    BY <1>1, <1>2, <1>4, <1>7, OrderedAppend DEF InTurn, WireInTurn, Known
  <2>2. StatusAtHand => Precede(Stream', serving[Tui].frame)
    BY <1>1, <1>2, <1>4, PrecedeAppend DEF InTurn, WireInTurn
  <2>3. \A i \in 1..Len(Tail(pushCh)) : Tail(pushCh)[i] <= entry.event
    BY <1>6 DEF InTurn, WireInTurn
  <2> QED
    BY <1>3, <1>5, <2>1, <2>2, <2>3 DEF InTurn, WireInTurn
<1>9. ASSUME handling = 0, entry.event \notin excused'
      PROVE  IF pushCh' # <<>> THEN pushCh'[Len(pushCh')] = entry.event
             ELSE /\ StatusAtHand => serving[Tui].frame.body.event = entry.event
                  /\ EndsWith(Shows, shown.status, Stream', entry.event)
  <2>1. pushCh[Len(pushCh)] = entry.event
    BY <1>1, <1>3, <1>9 DEF Coming
  <2>2. CASE pushCh' # <<>>
    <3>1. Len(Tail(pushCh)) \in 1..Len(Tail(pushCh))
      BY <1>1, <1>3, <1>6, <2>2
    <3>2. pushCh'[Len(pushCh')] = pushCh[Len(pushCh)]
      BY <1>3, <1>6, <3>1
    <3> QED
      BY <2>1, <2>2, <3>2
  <2>3. CASE pushCh' = <<>>
    <3>1. Len(pushCh) = 1
      <4>1. Tail(pushCh) = <<>>
        BY <1>3, <2>3
      <4>2. \A s : s = <<>> => Len(s) = 0
        OBVIOUS
      <4>3. Len(Tail(pushCh)) = 0
        BY <4>1, <4>2
      <4> QED
        BY <1>6, <4>3
    <3>2. e = entry.event
      BY <1>6, <2>1, <3>1
    <3>3. EndsWith(Shows, shown.status, Stream', entry.event)
      BY <1>1, <1>2, <1>4, <3>2, EndsShown DEF Shows, Value
    <3>4. ASSUME StatusAtHand PROVE serving[Tui].frame.body.event = entry.event
      <4>1. ~Overtakes(e)
        BY <1>3, <1>9, <3>2
      <4>2. serving[Tui].frame \in Frames /\ Known(serving[Tui].frame, entry.event)
        BY <3>4, HeldTypes DEF StatusAtHand, Typed, Conns, InTurn, WireInTurn
      <4>3. /\ serving[Tui].frame.body # None /\ serving[Tui].frame.body.event \in Nat
            /\ serving[Tui].frame.body.event <= entry.event
        BY <1>1, <3>4, <4>2, KnownTypes DEF StatusAtHand
      <4>4. ~(serving[Tui].frame.body.event < e)
        BY <3>4, <4>1, <4>3 DEF Overtakes, StatusAtHand
      <4> QED
        BY <1>1, <3>2, <4>3, <4>4
    <3> QED
      BY <2>3, <3>3, <3>4
  <2> QED
    BY <2>2, <2>3
<1>10. Coming'
  BY <1>3, <1>5, <1>9 DEF Coming
<1>11. PipeInTurn'
  BY <1>3 DEF InTurn, PipeInTurn
<1> QED
  BY <1>8, <1>10, <1>11 DEF InTurn

LEMMA Served ==
  ASSUME Typed, EventsTyped, entry # None, InTurn, Coming, NEW c \in Conns, Serve(c), entry' # None
  PROVE  InTurn' /\ Coming'
<1>1. /\ serving \in [Conns -> Steps] /\ toClient \in [Conns -> Seq(Frames)] /\ msgs \in Seq(Frames)
      /\ Tui \in Conns /\ entry \in Entries /\ entry.event \in Nat /\ pipe \in Seq(Nat)
  BY DEF Typed, Conns, Entries, EventsTyped
<1>2. UNCHANGED <<reported, handling, pushCh, excused, shown, msgs>>
  BY DEF Serve, Subscribe, Answer, Lookup, Record, Forward, Forget, Teardown, WriteReply,
     wardVars, keeperVars,
         pushVars, tuiVars, history
<1>3. entry'.event = entry.event
  <2>1. CASE Record(c)
    BY <1>1, <2>1 DEF Record, Entries
  <2>2. CASE Forget(c)
    BY <2>2 DEF Forget
  <2>3. CASE Subscribe(c) \/ Answer(c) \/ Lookup(c) \/ Forward(c) \/ Teardown(c) \/ WriteReply(c)
    BY <2>3 DEF Subscribe, Answer, Lookup, Forward, Teardown, WriteReply, keeperVars
  <2> QED
    BY <2>1, <2>2, <2>3 DEF Serve
<1>4. PipeInTurn'
  <2>1. CASE Teardown(c)
    <3>1. \E n \in 0..Len(pipe) : pipe' = SubSeq(pipe, 1, n)
      BY <2>1 DEF Teardown, Dies
    <3> QED
      BY <1>2, <1>3, <3>1, PipeStays DEF InTurn
  <2>2. CASE ~Teardown(c)
    <3>1. pipe' = pipe
      BY <2>2 DEF Serve, Subscribe, Answer, Lookup, Record, Forward, Forget, WriteReply, keeperVars
    <3> QED
      BY <1>2, <1>3, <3>1 DEF InTurn, PipeInTurn
  <2> QED
    BY <2>1, <2>2
<1>5. ASSUME Stream' = Stream,
             serving'[Tui].step = "write" => /\ serving'[Tui].frame.type # "event"
                                            /\ Known(serving'[Tui].frame, entry.event),
             StatusAtHand' => \/ serving'[Tui].frame.body.event = entry.event
                              \/ StatusAtHand /\ serving'[Tui].frame = serving[Tui].frame
      PROVE  InTurn' /\ Coming'
  BY <1>2, <1>3, <1>4, <1>5, EventsStay DEF InTurn
<1>6. ASSUME Stream' = Stream, serving'[Tui] = serving[Tui] PROVE InTurn' /\ Coming'
  BY <1>5, <1>6 DEF InTurn, WireInTurn, StatusAtHand
<1>7. ASSUME Stream' = Stream, serving'[Tui].step # "write" PROVE InTurn' /\ Coming'
  BY <1>5, <1>7 DEF StatusAtHand
<1>8. ASSUME NEW f, Stream' = Stream, serving'[Tui] = [step |-> "write", frame |-> f], f.type \notin {"event", "status"}
      PROVE  InTurn' /\ Coming'
  BY <1>5, <1>8 DEF StatusAtHand, Known
<1>9. CASE c # Tui
  <2>1. toClient'[Tui] = toClient[Tui]
    BY <1>1, <1>9 DEF Serve, Subscribe, Answer, Lookup, Record, Forward, Forget, Teardown,
       WriteReply
  <2>2. serving'[Tui] = serving[Tui]
    <3>1. CASE Subscribe(c) \/ Forward(c) \/ Teardown(c) \/ WriteReply(c) \/ Record(c)
      BY <1>1, <1>9, <3>1 DEF Subscribe, Forward, Teardown, WriteReply, Record, Replies
    <3>2. CASE Answer(c)
      BY <1>1, <1>9, <3>2 DEF Answer, Dispatching, Replies
    <3>3. CASE Lookup(c)
      BY <1>1, <1>9, <3>3 DEF Lookup, Replies
    <3>4. CASE Forget(c)
      BY <1>1, <1>9, <3>4 DEF Forget, Replies
    <3> QED
      BY <3>1, <3>2, <3>3, <3>4 DEF Serve
  <2> QED
    BY <1>2, <1>6, <2>1, <2>2, StreamStays
<1>10. CASE c = Tui /\ WriteReply(c)
  <2> DEFINE f == serving[Tui].frame
             g == Decoded(f)
  <2>1. /\ serving[Tui].step = "write" /\ serving'[Tui] = Idle /\ toClient'[Tui] = Append(toClient[Tui], f)
        /\ entry' = entry
    BY <1>1, <1>10 DEF WriteReply, At, keeperVars
  <2>2. f \in Frames /\ f.type # "event" /\ Known(f, entry.event)
    BY <1>1, <2>1, HeldTypes DEF InTurn, WireInTurn
  <2>3. Stream \in Seq(Frames) /\ Stream' = Append(Stream, g)
    BY <1>2, <2>1, <2>2, StreamTyped, StreamWritten
  <2>10. g \in Frames /\ (g = f \/ g.type = "error") /\ g.type # "event" /\ Known(g, entry.event)
    BY <2>2, DecodedTypes DEF Known
  <2>4. ~StatusAtHand' /\ serving'[Tui].step # "write" /\ (StatusAtHand <=> f.type = "status")
    BY <2>1 DEF StatusAtHand, Idle
  <2> HIDE DEF g
  <2>5. Ordered(Stream', entry.event)
    <3>1. g.type = "status" => Precede(Stream, g)
      BY <2>4, <2>10 DEF InTurn, WireInTurn
    <3> QED
      BY <1>1, <2>3, <2>10, <3>1, OrderedAppend DEF InTurn, WireInTurn
  <2>6. WireInTurn'
    BY <1>2, <1>3, <2>4, <2>5 DEF InTurn, WireInTurn
  <2>7. ASSUME pushCh = <<>>, handling = 0, entry.event \notin excused
        PROVE  EndsWith(Shows, shown.status, Stream', entry.event)
    <3>1. /\ EndsWith(Shows, shown.status, Stream, entry.event)
          /\ g.type = "status" => g.body.event = entry.event
      BY <2>4, <2>7, <2>10 DEF Coming
    <3>2. CASE g.type = "status"
      BY <2>3, <2>10, <3>1, <3>2, EndsShown DEF Shows, Value
    <3>3. CASE g.type # "status"
      BY <2>3, <2>10, <3>1, <3>3, EndsUnshown DEF Shows
    <3> QED
      BY <3>2, <3>3
  <2>8. Coming'
    BY <1>2, <1>3, <2>4, <2>7 DEF Coming
  <2> QED
    BY <1>4, <2>6, <2>8 DEF InTurn
<1>11. CASE c = Tui /\ ~WriteReply(c)
  <2>1. Stream' = Stream
    <3>1. toClient' = toClient
      BY <1>11 DEF Serve, Subscribe, Answer, Lookup, Record, Forward, Forget, Teardown
    <3> QED
      BY <1>2, <3>1, StreamStays
  <2>2. CASE Subscribe(c)
    BY <1>1, <1>8, <1>11, <2>1, <2>2 DEF Subscribe, Replies, Frame
  <2>3. CASE Answer(c)
    <3>1. CASE Head(toKeeperd[c]).type = "status"
      <4>1. serving'[Tui] = [step |-> "write", frame |-> Frame("status", entry)]
        BY <1>1, <1>11, <2>3, <3>1 DEF Answer, Replies
      <4>2. Known(Frame("status", entry), entry.event)
        BY <1>1 DEF Known, Frame
      <4> QED
        BY <1>5, <2>1, <4>1, <4>2 DEF Frame
    <3>2. CASE Head(toKeeperd[c]).type = "list"
      <4>1. serving'[Tui] = [step |-> "write", frame |-> Frame("list", entry)]
        BY <1>1, <1>11, <2>3, <3>2 DEF Answer, Replies
      <4> QED
        BY <1>8, <2>1, <4>1 DEF Frame
    <3>3. CASE Head(toKeeperd[c]).type = "ping"
      <4>1. serving'[Tui] = [step |-> "write", frame |-> Frame("pong", None)]
        BY <1>1, <1>11, <2>3, <3>3 DEF Answer, Replies
      <4> QED
        BY <1>8, <2>1, <4>1 DEF Frame
    <3>4. CASE Head(toKeeperd[c]).type = "unreadable"
      BY <1>6, <2>1, <2>3, <3>4 DEF Answer
    <3> QED
      BY <2>3, <3>1, <3>2, <3>3, <3>4 DEF Answer, Dispatching
  <2>4. CASE Lookup(c)
    <3>1. serving'[Tui] = [step |-> "record", prompt |-> Head(toKeeperd[c]).prompt]
      BY <1>1, <1>11, <2>4 DEF Lookup
    <3> QED
      BY <1>7, <2>1, <3>1
  <2>5. CASE Record(c)
    <3>1. serving[Tui].step = "record" /\ serving'[Tui] = [serving[Tui] EXCEPT !.step = "forward"]
      BY <1>1, <1>11, <2>5 DEF Record, At
    <3>2. serving[Tui] = [step |-> "record", prompt |-> serving[Tui].prompt]
      BY <1>1, <3>1, HeldTypes
    <3>3. serving'[Tui].step = "forward"
      BY <3>1, <3>2
    <3> QED
      BY <1>7, <2>1, <3>3
  <2>6. CASE Forward(c)
    <3>1. serving'[Tui] = [step |-> "write", frame |-> Ack(serving[c].prompt, ward = "up")]
      BY <1>1, <1>11, <2>6 DEF Forward, Replies
    <3> QED
      BY <1>8, <2>1, <3>1 DEF Ack, Frame
  <2>7. CASE Forget(c)
    BY <2>7 DEF Forget
  <2>8. CASE Teardown(c)
    BY <1>1, <1>8, <1>11, <2>1, <2>8 DEF Teardown, Replies, Frame
  <2> QED
    BY <1>11, <2>2, <2>3, <2>4, <2>5, <2>6, <2>7, <2>8 DEF Serve
<1> QED
  BY <1>9, <1>10, <1>11

LEMMA Updated ==
  ASSUME Typed, EventsTyped, entry # None, InTurn, Coming, Update
  PROVE  InTurn' /\ Coming'
<1> DEFINE m == Head(msgs)
           e == entry.event
           rest == Tail(Stream)
<1>1. /\ UNCHANGED <<reported, pipe, handling, entry, serving, pushCh, toClient>> /\ msgs # <<>> /\ msgs' = Tail(msgs)
      /\ excused' = IF m.type = "status" /\ m.body # None /\ ~OlderComing(m.body.event)
                      THEN excused \ (1..m.body.event) ELSE excused
  BY DEF Update, Ready, wardVars, keeperVars, connVars, pushVars
<1>2. /\ msgs \in Seq(Frames) /\ toClient[Tui] \in Seq(Frames) /\ Stream \in Seq(Frames) /\ e \in Nat
      /\ shown \in [known : BOOLEAN, status : Nat, last : Nat] /\ pushCh \in Seq(Nat)
  BY StreamTyped DEF Typed, EventsTyped, Entries
<1>3. Stream # <<>> /\ Head(Stream) = m /\ Stream' = rest
  BY <1>1, StreamTaken
<1>4. /\ Ordered(rest, e) /\ Known(m, e) /\ m \in Frames /\ rest \in Seq(Frames)
      /\ m.type = "status" =>
           \A i \in 1..Len(rest) : rest[i].type = "status" => m.body.event <= rest[i].body.event
  BY <1>2, <1>3, OrderedTail, TailElems DEF InTurn, WireInTurn
<1>5. shown'.status = IF m.type \in Shows THEN Value(m) ELSE shown.status
  <2>1. CASE m.type = "event"
    BY <1>2, <2>1 DEF Update, Shows, Value
  <2>2. CASE m.type = "status"
    <3>1. m.body # None
      BY <1>4, <2>2 DEF Known
    <3> QED
      BY <1>2, <2>2, <3>1 DEF Update, Shows, Value
  <2>3. CASE m.type \notin {"event", "status"}
    BY <2>3 DEF Update, Shows
  <2> QED
    BY <2>1, <2>2, <2>3
<1>6. StatusAtHand' <=> StatusAtHand
  BY <1>1 DEF StatusAtHand
<1>7. InTurn'
  <2>1. StatusAtHand => Precede(rest, serving[Tui].frame)
    BY <1>2, <1>3, PrecedeTail DEF InTurn, WireInTurn
  <2>2. PipeInTurn'
    BY <1>1 DEF InTurn, PipeInTurn
  <2>3. WireInTurn'
    BY <1>1, <1>3, <1>4, <1>6, <2>1 DEF InTurn, WireInTurn
  <2> QED
    BY <2>2, <2>3 DEF InTurn
<1>8. ASSUME handling = 0, e \notin excused
      PROVE  IF pushCh # <<>> THEN pushCh[Len(pushCh)] = e
             ELSE /\ StatusAtHand => serving[Tui].frame.body.event = e
                  /\ EndsWith(Shows, shown'.status, rest, e)
  BY <1>2, <1>3, <1>5, <1>8, EndsTaken DEF Coming
(* The status ends the excuse: all that comes after it shows the same.     *)
<1>9. ASSUME e \in excused, e \notin excused'
      PROVE  IF pushCh # <<>> THEN pushCh[Len(pushCh)] = e
             ELSE /\ StatusAtHand => serving[Tui].frame.body.event = e
                  /\ EndsWith(Shows, shown'.status, rest, e)
  <2>1. m.type = "status" /\ m.body # None /\ ~OlderComing(m.body.event) /\ e \in 1..m.body.event
    BY <1>1, <1>9
  <2>2. m.body.event = e
    BY <1>2, <1>4, <2>1, KnownTypes
  <2>3. \A i \in 1..Len(pushCh) : pushCh[i] = e
    <3>1. ASSUME NEW i \in 1..Len(pushCh) PROVE pushCh[i] = e
      <4>1. pushCh[i] \in Nat /\ pushCh[i] <= e
        BY <1>2, Elems DEF InTurn, WireInTurn
      <4>2. ~(pushCh[i] < e)
        BY <1>2, <2>1, <2>2 DEF OlderComing
      <4> QED
        BY <1>2, <4>1, <4>2
    <3> QED
      BY <3>1
  <2>4. pushCh # <<>> => Len(pushCh) \in 1..Len(pushCh)
    BY <1>2
  <2>5. ASSUME StatusAtHand PROVE serving[Tui].frame.body.event = e
    <3>1. serving[Tui].frame \in Frames /\ Known(serving[Tui].frame, e) /\ Precede(Stream, serving[Tui].frame)
      BY <2>5, HeldTypes DEF StatusAtHand, Typed, Conns, InTurn, WireInTurn
    <3>2. serving[Tui].frame.body.event \in Nat /\ serving[Tui].frame.body.event <= e
      BY <1>2, <2>5, <3>1, KnownTypes DEF StatusAtHand
    <3>3. e <= serving[Tui].frame.body.event
      BY <1>2, <1>3, <2>1, <2>2, <3>1, TailElems DEF Precede
    <3> QED
      BY <1>2, <3>2, <3>3
  <2>6. ASSUME NEW i \in 1..Len(rest), rest[i].type \in Shows PROVE Value(rest[i]) = e
    <3>1. rest[i] \in Frames /\ Known(rest[i], e)
      BY <1>4, Elems DEF Ordered
    <3>2. Value(rest[i]) \in Nat /\ Value(rest[i]) <= e
      BY <1>2, <2>6, <3>1, KnownTypes
    <3>3. CASE rest[i].type = "status"
      <4>1. e <= Value(rest[i])
        BY <1>4, <2>1, <2>2, <3>3 DEF Value
      <4> QED
        BY <1>2, <3>2, <4>1
    <3>4. CASE rest[i].type = "event"
      <4>1. i + 1 \in 1..Len(Stream) /\ rest[i] = Stream[i + 1]
        BY <1>2, <1>3, TailElems
      <4>2. \/ i + 1 \in 1..Len(msgs) /\ Stream[i + 1] = msgs[i + 1]
            \/ /\ i + 1 - Len(msgs) \in 1..Len(toClient[Tui])
               /\ Stream[i + 1] = toClient[Tui][i + 1 - Len(msgs)]
        <5> DEFINE a == AsRead(toClient[Tui])
                   k == i + 1 - Len(msgs)
        <5>1. /\ a \in Seq(Frames) /\ Len(a) = Len(toClient[Tui]) /\ Stream = msgs \o a
              /\ \A l \in 1..Len(toClient[Tui]) : a[l] = Decoded(toClient[Tui][l]) /\ toClient[Tui][l] \in Frames
          BY <1>2, AsReadElems DEF Stream
        <5> HIDE DEF a
        <5>2. \/ i + 1 \in 1..Len(msgs) /\ Stream[i + 1] = msgs[i + 1]
              \/ k \in 1..Len(toClient[Tui]) /\ Stream[i + 1] = a[k]
          BY <1>2, <4>1, <5>1
        <5> HIDE DEF k
        <5>3. ASSUME k \in 1..Len(toClient[Tui]), Stream[i + 1] = a[k]
              PROVE  Stream[i + 1] = toClient[Tui][k]
          BY <3>4, <4>1, <5>1, <5>3, DecodedTypes
        <5>4. \/ i + 1 \in 1..Len(msgs) /\ Stream[i + 1] = msgs[i + 1]
              \/ k \in 1..Len(toClient[Tui]) /\ Stream[i + 1] = toClient[Tui][k]
          BY <5>2, <5>3
        <5> QED
          BY <5>4 DEF k
      <4>3. DOMAIN msgs = 1..Len(msgs) /\ DOMAIN toClient[Tui] = 1..Len(toClient[Tui])
        BY <1>2
      <4>4. ~(rest[i].body < e)
        BY <2>1, <2>2, <3>4, <4>1, <4>2, <4>3 DEF OlderComing
      <4> QED
        BY <1>2, <3>2, <3>4, <4>4 DEF Value
    <3> QED
      BY <2>6, <3>3, <3>4 DEF Shows
  <2>7. EndsWith(Shows, shown'.status, rest, e)
    <3>1. shown'.status = e
      BY <1>5, <2>1, <2>2 DEF Shows, Value
    <3> QED
      BY <2>6, <3>1 DEF EndsWith
  <2> QED
    BY <2>3, <2>4, <2>5, <2>7
<1>10. Coming'
  <2>1. ASSUME handling = 0, e \notin excused'
        PROVE  IF pushCh # <<>> THEN pushCh[Len(pushCh)] = e
               ELSE /\ StatusAtHand => serving[Tui].frame.body.event = e
                    /\ EndsWith(Shows, shown'.status, rest, e)
    BY <1>8, <1>9, <2>1
  <2> QED
    BY <1>1, <1>3, <1>6, <2>1 DEF Coming
<1> QED
  BY <1>7, <1>10

LEMMA ReadInTurn ==
  ASSUME Typed, EventsTyped, entry # None, InTurn, Coming, ReadFrame, keeperd = "up"
  PROVE  InTurn' /\ Coming'
<1>1. /\ toClient[Tui] # <<>> /\ msgs' = Append(msgs, Decoded(Head(toClient[Tui])))
      /\ toClient' = [toClient EXCEPT ![Tui] = Tail(toClient[Tui])]
      /\ UNCHANGED <<reported, pipe, handling, entry, serving, pushCh, excused, shown>>
  BY DEF ReadFrame, wardVars, keeperVars, pushVars
<1>2. toClient'[Tui] = Tail(toClient[Tui])
  BY <1>1, StreamTyped
<1>4. Stream' = Stream
  BY <1>1, <1>2, StreamRead
<1>5. WireInTurn' /\ Coming'
  BY <1>1, <1>4, EventsStay DEF InTurn, WireInTurn, StatusAtHand
<1>6. PipeInTurn'
  BY <1>1 DEF InTurn, PipeInTurn
<1> QED
  BY <1>5, <1>6 DEF InTurn

LEMMA EventStep ==
  ASSUME Typed, EventsTyped, EventInv, [Next]_vars
  PROVE  EventInv'
<1> SUFFICES ASSUME keeperd' = "up", entry' # None PROVE InTurn' /\ Coming'
  BY DEF EventInv
<1>1. CASE KeeperdStops
  BY <1>1 DEF KeeperdStops
<1>2. CASE ~KeeperdStops
  <2>1. keeperd = "up"
    <3>1. CASE \E c \in Conns : Serve(c)
      BY <3>1 DEF Serve, Subscribe, Answer, Lookup, Record, Forward, Forget, Teardown, WriteReply
    <3>2. CASE Update
      BY <3>2 DEF Update
    <3>3. CASE ~(\E c \in Conns : Serve(c)) /\ ~Update
      BY <1>2, <3>3 DEF Next, vars, Report, WardExits, Handle, WritePush, Send, ReadFrame,
         KeyRefresh, KeyEnter,
                        Command, CliSend, CliRecv
    <3> QED
      BY <3>1, <3>2, <3>3
  <2>2. entry # None
    <3>1. CASE \E c \in Conns : Serve(c)
      BY <3>1 DEF Serve, Subscribe, Answer, Lookup, Record, Forward, Forget, Teardown, WriteReply,
         keeperVars
    <3>2. CASE Update
      BY <3>2 DEF Update, keeperVars
    <3>3. CASE Handle
      BY <3>3 DEF Handle, NoteEvent, PushEvent
    <3>4. CASE ~(\E c \in Conns : Serve(c)) /\ ~Update /\ ~Handle
      BY <1>2, <3>4 DEF Next, vars, keeperVars, Report, WardExits, WritePush, Send, ReadFrame,
         KeyRefresh, KeyEnter,
                        Command, CliSend, CliRecv
    <3> QED
      BY <3>1, <3>2, <3>3, <3>4
  <2>3. InTurn /\ Coming
    BY <2>1, <2>2 DEF EventInv
  <2>4. ASSUME UNCHANGED <<handling, entry, pushCh, excused, shown, msgs, serving>>, toClient'[Tui] = toClient[Tui],
               PipeInTurn'
        PROVE  InTurn' /\ Coming'
    <3>1. Stream' = Stream
      BY <2>4, StreamStays
    <3> QED
      BY <2>2, <2>3, <2>4, <3>1, EventsStay DEF InTurn, WireInTurn, StatusAtHand
  <2>5. CASE \E p \in running : Report(p)
    <3>1. PICK p \in running : Report(p)
      BY <2>5
    <3>2. reported \in Nat /\ pipe \in Seq(Nat) /\ entry.event \in Nat /\ reported + 1 \in Nat
      BY <2>2 DEF EventsTyped, Typed, Entries
    <3>3. pipe' = Append(pipe, reported + 1) /\ reported' = reported + 1 /\ UNCHANGED <<entry, handling>>
      BY <3>1 DEF Report
    <3>4. /\ Append(pipe, reported + 1)[Len(pipe) + 1] = reported + 1 /\ Len(pipe) \in Nat
          /\ \A i \in 1..Len(pipe) : Append(pipe, reported + 1)[i] = pipe[i]
          /\ \A i \in 1..Len(Append(pipe, reported + 1)) : i \in 1..Len(pipe) \/ i = Len(pipe) + 1
      BY <3>2, AppendElems
    <3>5. /\ entry.event <= reported /\ \A i \in 1..Len(pipe) : entry.event < pipe[i] /\ pipe[i] <= reported
          /\ \A i \in 1..Len(pipe) : pipe[i] \in Nat
      BY <2>3, <3>2, Elems DEF InTurn, PipeInTurn
    <3>6. \A i \in 1..Len(pipe') : entry.event < pipe'[i] /\ pipe'[i] <= reported + 1
      BY <3>2, <3>3, <3>4, <3>5
    <3>7. ASSUME NEW i \in 1..Len(pipe'), NEW j \in 1..Len(pipe'), i < j PROVE pipe'[i] < pipe'[j]
      <4>1. i \in 1..Len(pipe)
        BY <3>3, <3>4, <3>7
      <4>2. CASE j \in 1..Len(pipe)
        BY <2>3, <3>3, <3>4, <3>7, <4>1, <4>2 DEF InTurn, PipeInTurn
      <4>3. CASE j = Len(pipe) + 1
        BY <3>2, <3>3, <3>4, <3>5, <4>1, <4>3
      <4> QED
        BY <3>3, <3>4, <4>2, <4>3
    <3>8. PipeInTurn'
      BY <2>3, <3>2, <3>3, <3>5, <3>6, <3>7 DEF InTurn, PipeInTurn
    <3> QED
      BY <2>4, <3>1, <3>8 DEF Report, connVars, pushVars, tuiVars, history
  <2>6. CASE WardExits
    <3>1. PipeInTurn'
      BY <2>3, <2>6, PipeStays DEF WardExits, Dies, InTurn
    <3> QED
      BY <2>4, <2>6, <3>1 DEF WardExits, connVars, pushVars, tuiVars, history
  <2>7. CASE Handle
    BY <2>2, <2>3, <2>7, Handled
  <2>8. CASE WritePush
    BY <2>2, <2>3, <2>8, Pushed
  <2>9. CASE \E c \in Conns : Serve(c)
    BY <2>2, <2>3, <2>9, Served
  <2>10. CASE ReadFrame
    BY <2>1, <2>2, <2>3, <2>10, ReadInTurn
  <2>11. CASE Update
    BY <2>2, <2>3, <2>11, Updated
  <2>12. CASE (\E r \in sends : Send(r)) \/ KeyRefresh \/ KeyEnter \/ UNCHANGED vars
    <3>1. UNCHANGED <<handling, entry, pushCh, excused, shown, msgs, serving, toClient, pipe, reported>>
      BY <2>12 DEF Send, KeyRefresh, KeyEnter, Command, vars, wardVars, keeperVars, connVars,
         pushVars, tuiVars, history
    <3>2. PipeInTurn'
      BY <2>3, <3>1 DEF InTurn, PipeInTurn
    <3> QED
      BY <2>4, <3>1, <3>2
  <2>13. CASE CliSend \/ CliRecv
    <3>1. UNCHANGED <<handling, entry, pushCh, excused, shown, msgs, serving, pipe, reported>>
      BY <2>13 DEF CliSend, CliRecv, wardVars, keeperVars, pushVars, tuiVars
    <3>2. toClient'[Tui] = toClient[Tui]
      BY <2>13, CtlSessionAssumption DEF CliSend, CliRecv, Typed, Conns
    <3>3. PipeInTurn'
      BY <2>3, <3>1 DEF InTurn, PipeInTurn
    <3> QED
      BY <2>4, <3>1, <3>2, <3>3
  <2> QED
    BY <1>2, <2>5, <2>6, <2>7, <2>8, <2>9, <2>10, <2>11, <2>12, <2>13 DEF Next
<1> QED
  BY <1>1, <1>2

LEMMA EventInit ==
  ASSUME Init
  PROVE  EventInv
<1>1. Stream = <<>> /\ ~StatusAtHand /\ serving[Tui].step # "write"
  <2>1. msgs = <<>> /\ toClient[Tui] = <<>> /\ serving[Tui] = Idle
    BY DEF Init, Conns
  <2>2. Stream = <<>>
    BY <2>1, NothingBuffered
  <2> QED
    BY <2>1, <2>2 DEF StatusAtHand, Idle
<1>2. Len(Stream) = 0 /\ Len(pipe) = 0 /\ Len(pushCh) = 0 /\ \A i \in 1..0 : FALSE
  BY <1>1 DEF Init
<1>3. ASSUME entry # None PROVE entry.event = 0 /\ reported = 0 /\ handling = 0 /\ shown.status = 0 /\ pushCh = <<>>
  BY <1>3 DEF Init
<1> QED
  BY <1>1, <1>2, <1>3 DEF EventInv, InTurn, PipeInTurn, WireInTurn, Ordered, Coming, EndsWith

LEMMA Ended ==
  ASSUME NEW T, NEW x, NEW e, NEW s, s = <<>>, EndsWith(T, x, s, e)
  PROVE  x = e
<1>1. Len(s) = 0 /\ \A i \in 1..0 : FALSE
  OBVIOUS
<1> QED
  BY <1>1 DEF EndsWith

(* The last event pushed, whatever the agent's entry says.                 *)
LEMMA LastInit ==
  ASSUME Init
  PROVE  LastInv
<1>1. msgs = <<>> /\ toClient[Tui] = <<>> /\ serving[Tui] = Idle /\ pushCh = <<>> /\ queued = 0 /\ shown.last = 0
  BY DEF Init, Conns
<1>2. Stream = <<>> /\ \A x : x = <<>> => Len(x) = 0
  BY <1>1, NothingBuffered
<1>3. Len(Stream) = 0 /\ \A i \in 1..0 : FALSE
  BY <1>2
<1> QED
  BY <1>1, <1>3 DEF LastInv, LastComing, EndsWith, Idle

LEMMA LastStays ==
  ASSUME LastComing, UNCHANGED <<pushCh, queued, shown, Stream>>,
         serving'[Tui].step = "write" => serving'[Tui].frame.type # "event"
  PROVE  LastComing'
BY DEF LastComing

LEMMA LastServed ==
  ASSUME Typed, LastComing, NEW c \in Conns, Serve(c)
  PROVE  LastComing'
<1>1. serving \in [Conns -> Steps] /\ Tui \in Conns /\ serving[Tui] \in Steps
  BY DEF Typed, Conns
<1>2. UNCHANGED <<pushCh, queued, shown, msgs>>
  BY DEF Serve, Subscribe, Answer, Lookup, Record, Forward, Forget, Teardown, WriteReply,
     pushVars, tuiVars, history
<1>3. ASSUME UNCHANGED toClient, serving'[Tui] = serving[Tui] \/ serving'[Tui].step # "write"
      PROVE  LastComing'
  BY <1>2, <1>3, StreamStays, LastStays DEF LastComing
<1>4. ASSUME UNCHANGED toClient, NEW f, f.type # "event", Replies(c, f) PROVE LastComing'
  <2>1. CASE c = Tui
    <3>1. serving'[Tui] = [step |-> "write", frame |-> f]
      BY <1>1, <1>4, <2>1 DEF Replies
    <3>2. serving'[Tui].frame.type # "event"
      BY <1>4, <3>1
    <3> QED
      BY <1>2, <1>4, <3>2, StreamStays, LastStays
  <2>2. CASE c # Tui
    <3>1. serving'[Tui] = serving[Tui]
      BY <1>1, <1>4, <2>2 DEF Replies
    <3> QED
      BY <1>3, <1>4, <3>1
  <2> QED
    BY <2>1, <2>2
<1>5. CASE Subscribe(c)
  <2>1. Frame("subscribe", TRUE).type # "event"
    BY DEF Frame
  <2> QED
    BY <1>4, <1>5, <2>1 DEF Subscribe
<1>6. CASE Answer(c)
  <2> DEFINE type == Head(toKeeperd[c]).type
  <2>1. UNCHANGED toClient /\ type \in {"status", "list", "ping", "unreadable"}
    BY <1>6 DEF Answer, Dispatching
  <2>2. CASE type \in {"status", "list"}
    <3>1. Replies(c, Frame(type, entry)) /\ Frame(type, entry).type # "event"
      BY <1>6, <2>2 DEF Answer, Frame
    <3> QED
      BY <1>4, <2>1, <3>1
  <2>3. CASE type = "ping"
    <3>1. Replies(c, Frame("pong", None)) /\ Frame("pong", None).type # "event"
      BY <1>6, <2>3 DEF Answer, Frame
    <3> QED
      BY <1>4, <2>1, <3>1
  <2>4. CASE type = "unreadable"
    BY <1>3, <1>6, <2>1, <2>4 DEF Answer
  <2> QED
    BY <2>1, <2>2, <2>3, <2>4
<1>7. \A p, ok : Ack(p, ok).type # "event"
  BY DEF Ack, Frame
<1>8. CASE Lookup(c)
  <2>1. CASE entry = None
    BY <1>4, <1>7, <1>8, <2>1 DEF Lookup
  <2>2. CASE entry # None
    <3>1. serving'[Tui] = serving[Tui] \/ serving'[Tui] = [step |-> "record", prompt |-> Head(toKeeperd[c]).prompt]
      BY <1>1, <1>8, <2>2 DEF Lookup
    <3>2. serving'[Tui] = serving[Tui] \/ serving'[Tui].step # "write"
      BY <3>1
    <3> QED
      BY <1>3, <1>8, <3>2 DEF Lookup
  <2> QED
    BY <2>1, <2>2
<1>9. CASE Record(c)
  <2>1. CASE c = Tui
    <3>1. serving[Tui].step = "record" /\ serving'[Tui] = [serving[Tui] EXCEPT !.step = "forward"]
      BY <1>1, <1>9, <2>1 DEF Record, At
    <3>2. serving[Tui] = [step |-> "record", prompt |-> serving[Tui].prompt]
      BY <1>1, <3>1, HeldTypes
    <3>3. serving'[Tui].step # "write"
      BY <3>1, <3>2
    <3> QED
      BY <1>3, <1>9, <3>3 DEF Record
  <2>2. CASE c # Tui
    <3>1. serving'[Tui] = serving[Tui]
      BY <1>1, <1>9, <2>2 DEF Record
    <3> QED
      BY <1>3, <1>9, <3>1 DEF Record
  <2> QED
    BY <2>1, <2>2
<1>10. CASE Forward(c)
  BY <1>4, <1>7, <1>10 DEF Forward
<1>11. CASE Forget(c)
  <2>1. CASE entry = None
    <3>1. Frame("destroy", FALSE).type # "event"
      BY DEF Frame
    <3> QED
      BY <1>4, <1>11, <2>1, <3>1 DEF Forget
  <2>2. CASE entry # None
    <3>1. serving'[Tui] = serving[Tui] \/ serving'[Tui] = [step |-> "teardown"]
      BY <1>1, <1>11, <2>2 DEF Forget
    <3>2. serving'[Tui] = serving[Tui] \/ serving'[Tui].step # "write"
      BY <3>1
    <3> QED
      BY <1>3, <1>11, <3>2 DEF Forget
  <2> QED
    BY <2>1, <2>2
<1>12. CASE Teardown(c)
  <2>1. Frame("destroy", TRUE).type # "event"
    BY DEF Frame
  <2> QED
    BY <1>4, <1>12, <2>1 DEF Teardown
<1>13. CASE WriteReply(c)
  <2>1. CASE c # Tui
    <3>1. toClient'[Tui] = toClient[Tui] /\ serving'[Tui] = serving[Tui]
      BY <1>1, <1>13, <2>1, StreamTyped DEF WriteReply
    <3> QED
      BY <1>2, <3>1, StreamStays, LastStays DEF LastComing
  <2>2. CASE c = Tui
    <3> DEFINE f == serving[Tui].frame
               g == Decoded(f)
    <3>1. serving[Tui].step = "write" /\ serving'[Tui] = Idle /\ toClient'[Tui] = Append(toClient[Tui], f)
      BY <1>1, <1>13, <2>2, StreamTyped DEF WriteReply, At
    <3>2. f \in Frames /\ f.type # "event"
      BY <1>1, <3>1, HeldTypes DEF LastComing
    <3>3. g \in Frames /\ g.type \notin Pushes
      BY <3>2, DecodedTypes DEF Pushes
    <3>4. Stream \in Seq(Frames) /\ Stream' = Append(Stream, g)
      BY <1>2, <3>1, <3>2, StreamTyped, StreamWritten
    <3>5. serving'[Tui].step # "write"
      BY <3>1 DEF Idle
    <3> HIDE DEF g
    <3>6. ASSUME pushCh = <<>> PROVE EndsWith(Pushes, shown.last, Stream', queued)
      BY <3>3, <3>4, <3>6, EndsUnshown DEF LastComing
    <3> QED
      BY <1>2, <3>5, <3>6 DEF LastComing
  <2> QED
    BY <2>1, <2>2
<1> QED
  BY <1>5, <1>6, <1>8, <1>9, <1>10, <1>11, <1>12, <1>13 DEF Serve

LEMMA LastPushed ==
  ASSUME Typed, EventsTyped, LastComing, Handle \/ WritePush
  PROVE  LastComing'
<1>1. pushCh \in Seq(Nat) /\ handling \in Nat /\ queued \in Nat
  BY DEF EventsTyped
<1>2. CASE Handle
  <2>1. UNCHANGED <<serving, shown>> /\ Stream' = Stream
    BY <1>2, StreamStays DEF Handle, connVars, tuiVars
  <2>2. \/ UNCHANGED <<pushCh, queued>>
        \/ pushCh' = Append(pushCh, handling) /\ queued' = handling
    BY <1>2 DEF Handle, NoteEvent, PushEvent
  <2>3. CASE UNCHANGED <<pushCh, queued>>
    BY <2>1, <2>3 DEF LastComing
  <2>4. CASE pushCh' = Append(pushCh, handling) /\ queued' = handling
    <3>1. pushCh' # <<>> /\ pushCh'[Len(pushCh')] = queued'
      BY <1>1, <2>4, AppendElems
    <3> QED
      BY <2>1, <3>1 DEF LastComing
  <2> QED
    BY <2>2, <2>3, <2>4
<1>3. CASE WritePush
  <2> DEFINE e == Head(pushCh)
             f == Frame("event", e)
  <2>1. /\ pushCh # <<>> /\ pushCh' = Tail(pushCh) /\ UNCHANGED <<serving, shown, queued, msgs>>
        /\ toClient'[Tui] = Append(toClient[Tui], f)
    BY <1>3, StreamTyped DEF WritePush, tuiVars
  <2>2. /\ Len(pushCh) \in Nat /\ e \in Nat /\ e = pushCh[1] /\ Len(Tail(pushCh)) = Len(pushCh) - 1
        /\ \A i \in 1..Len(Tail(pushCh)) : i + 1 \in 1..Len(pushCh) /\ Tail(pushCh)[i] = pushCh[i + 1]
    BY <1>1, <2>1, TailElems
  <2>3. f \in Frames /\ f.type = "event" /\ f.body = e /\ Decoded(f) = f
    BY <2>2, FrameTypes, DecodedTypes DEF Frame
  <2> HIDE DEF f
  <2>4. Stream \in Seq(Frames) /\ Stream' = Append(Stream, f)
    BY <2>1, <2>3, StreamTyped, StreamWritten
  <2>5. pushCh[Len(pushCh)] = queued
    BY <2>1 DEF LastComing
  <2>6. CASE pushCh' # <<>>
    <3>1. Len(Tail(pushCh)) \in 1..Len(Tail(pushCh))
      BY <1>1, <2>1, <2>2, <2>6
    <3>2. pushCh'[Len(pushCh')] = queued
      BY <2>1, <2>2, <2>5, <3>1
    <3> QED
      BY <2>1, <2>6, <3>2 DEF LastComing
  <2>7. CASE pushCh' = <<>>
    <3>1. Len(pushCh) = 1
      <4>1. \A s : s = <<>> => Len(s) = 0
        OBVIOUS
      <4>2. Len(Tail(pushCh)) = 0
        BY <2>1, <2>7, <4>1
      <4> QED
        BY <2>2, <4>2
    <3>2. e = queued
      BY <2>2, <2>5, <3>1
    <3>3. EndsWith(Pushes, shown.last, Stream', queued)
      BY <2>3, <2>4, <3>2, EndsShown DEF Pushes, Value
    <3> QED
      BY <2>1, <2>7, <3>3 DEF LastComing
  <2> QED
    BY <2>6, <2>7
<1> QED
  BY <1>2, <1>3

LEMMA LastUpdated ==
  ASSUME Typed, EventsTyped, LastComing, Update
  PROVE  LastComing'
<1> DEFINE m == Head(msgs)
<1>1. /\ UNCHANGED <<serving, pushCh, queued, toClient>> /\ msgs # <<>> /\ msgs' = Tail(msgs)
      /\ shown \in [known : BOOLEAN, status : Nat, last : Nat]
  BY DEF Update, Ready, connVars, pushVars, EventsTyped
<1>2. Stream \in Seq(Frames) /\ Stream # <<>> /\ Head(Stream) = m /\ Stream' = Tail(Stream)
  BY <1>1, StreamTyped, StreamTaken
<1>3. shown'.last = IF m.type \in Pushes THEN Value(m) ELSE shown.last
  <2>1. CASE m.type = "event"
    BY <1>1, <2>1 DEF Update, Pushes, Value
  <2>2. CASE m.type = "status"
    BY <1>1, <2>2 DEF Update, Pushes
  <2>3. CASE m.type \notin {"event", "status"}
    BY <2>3 DEF Update, Pushes
  <2> QED
    BY <2>1, <2>2, <2>3
<1>4. ASSUME pushCh = <<>> PROVE EndsWith(Pushes, shown'.last, Stream', queued)
  BY <1>2, <1>3, <1>4, EndsTaken DEF LastComing
<1> QED
  BY <1>1, <1>4 DEF LastComing

LEMMA LastStep ==
  ASSUME Typed, EventsTyped, LastInv, [Next]_vars
  PROVE  LastInv'
<1> SUFFICES ASSUME keeperd' = "up" PROVE LastComing'
  BY DEF LastInv
<1>1. keeperd = "up" /\ ~KeeperdStops
  <2>1. CASE \E c \in Conns : Serve(c)
    BY <2>1 DEF Serve, Subscribe, Answer, Lookup, Record, Forward, Forget, Teardown, WriteReply,
       KeeperdStops
  <2>2. CASE Update
    BY <2>2 DEF Update, KeeperdStops
  <2>3. CASE ~(\E c \in Conns : Serve(c)) /\ ~Update
    BY <2>3 DEF Next, vars, Report, WardExits, KeeperdStops, Handle, WritePush, Send, ReadFrame,
       KeyRefresh, KeyEnter, Command, CliSend, CliRecv
  <2> QED
    BY <2>1, <2>2, <2>3
<1>2. LastComing
  BY <1>1 DEF LastInv
<1>3. ASSUME UNCHANGED <<pushCh, queued, shown, msgs, serving>>, toClient'[Tui] = toClient[Tui]
      PROVE  LastComing'
  BY <1>2, <1>3, StreamStays, LastStays DEF LastComing
<1>4. CASE (\E p \in running : Report(p)) \/ WardExits \/ UNCHANGED vars
  BY <1>3, <1>4 DEF Report, WardExits, vars, connVars, pushVars, tuiVars, history
<1>5. CASE (\E r \in sends : Send(r)) \/ KeyRefresh \/ KeyEnter
  BY <1>3, <1>5 DEF Send, KeyRefresh, KeyEnter, Command, connVars, pushVars, history
<1>6. CASE CliSend \/ CliRecv
  <2>1. toClient'[Tui] = toClient[Tui]
    BY <1>6, CtlSessionAssumption DEF CliSend, CliRecv, Typed, Conns
  <2> QED
    BY <1>3, <1>6, <2>1 DEF CliSend, CliRecv, pushVars, tuiVars
<1>7. CASE ReadFrame
  <2>1. /\ toClient[Tui] # <<>> /\ msgs' = Append(msgs, Decoded(Head(toClient[Tui])))
        /\ toClient' = [toClient EXCEPT ![Tui] = Tail(toClient[Tui])]
        /\ UNCHANGED <<serving, pushCh, queued, shown>>
    BY <1>1, <1>7 DEF ReadFrame, pushVars
  <2>2. toClient'[Tui] = Tail(toClient[Tui])
    BY <2>1, StreamTyped
  <2>3. Stream' = Stream
    BY <2>1, <2>2, StreamRead
  <2> QED
    BY <1>2, <2>1, <2>3, LastStays DEF LastComing
<1>8. CASE Handle \/ WritePush
  BY <1>2, <1>8, LastPushed
<1>9. CASE \E c \in Conns : Serve(c)
  BY <1>2, <1>9, LastServed
<1>10. CASE Update
  BY <1>2, <1>10, LastUpdated
<1> QED
  BY <1>1, <1>4, <1>5, <1>6, <1>7, <1>8, <1>9, <1>10 DEF Next

(* The events keep their order on the way from the agent's pipe to the     *)
(* TUI, and the last one it will show is that of the agent's entry, or     *)
(* excused; the last one it will keep is the last that was queued.         *)
THEOREM Invariance == Spec => []Inv
<1>1. Init => Inv
  BY PromptInit, EventInit, LastInit DEF Inv
<1>2. Inv /\ [Next]_vars => Inv'
  BY PromptStep, EventStep, LastStep DEF Inv, PromptInv
<1> QED
  BY <1>1, <1>2, PTL DEF Spec

(* ShownIsCurrent: once nothing is under way to the TUI the outcome it     *)
(* shows is the one keeperd has, although pushes and replies are written   *)
(* by two goroutines, unless it was not subscribed, its queue was full, or *)
(* an older status overtook the event; and its line of the last event      *)
(* tells the last one that was queued for it, or, if none was, what the    *)
(* status says.                                                            *)
THEOREM ShownCurrent == Spec => []ShownIsCurrent
<1>1. Inv => ShownIsCurrent
  <2> SUFFICES ASSUME Inv, keeperd = "up", Arrived
               PROVE  /\ entry # None /\ entry.event \notin excused => OutcomeLine = entry.event
                      /\ LastEventLine = IF queued # 0 THEN queued ELSE OutcomeLine
    BY DEF ShownIsCurrent
  <2>1. Stream = <<>>
    BY NothingBuffered DEF Arrived
  <2>2. ASSUME entry # None, entry.event \notin excused PROVE OutcomeLine = entry.event
    <3>1. EndsWith(Shows, shown.status, Stream, entry.event)
      BY <2>2 DEF Inv, EventInv, Coming, Arrived
    <3> QED
      BY <2>1, <3>1, Ended DEF OutcomeLine
  <2>3. EndsWith(Pushes, shown.last, Stream, queued)
    BY DEF Inv, LastInv, LastComing, Arrived
  <2>4. shown.last = queued
    BY <2>1, <2>3, Ended
  <2> QED
    BY <2>2, <2>4 DEF LastEventLine, OutcomeLine
<1> QED
  BY <1>1, Invariance, PTL
=============================================================================
