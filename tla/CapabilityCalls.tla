-------------------------- MODULE CapabilityCalls --------------------------
(***************************************************************************)
(* The capability round trip: the tool calls of a Ward (cmd/ward,          *)
(* executeTool and the MUS pipe), the router that reads that pipe          *)
(* (Switchboard, whose actions are composed here), keeperd's handler       *)
(* (cmd/keeperd/dispatch.go) and the reply's way back to the call.         *)
(*                                                                         *)
(* A pipe stands for one Ward process and its two ends in keeperd.  Every  *)
(* tool call and every prompt runs in a goroutine of its own in the Ward,  *)
(* and they share the Ward's sequence counter and its pipe.                *)
(***************************************************************************)
EXTENDS Switchboard, FiniteSets

CONSTANTS
  Agent,        (* the one agent: its Wards come and go, one pipe each      *)
  Calls,        (* tool calls                                               *)
  NoCall,
  WardOf(_),    (* the Ward a call is made in                               *)
  RequestSize, EventSize, (* bytes of the two frames a Ward sends           *)
  MaxEvents     (* bound: completion and failure events per Ward            *)

ASSUME CallsAssumption ==
  /\ Agent \in AgentIDs /\ NoCall \notin Calls
  /\ \A c \in Calls : WardOf(c) \in Pipes

VARIABLES
  counter,    (* musPipe.seq of each Ward                                   *)
  pc,         (* how far executeTool has got with each call                 *)
  seqOf,      (* the sequence number a call allocated                       *)
  pending,    (* pendingBySeq: the calls with a registered channel          *)
  mailbox,    (* the channel of a call: one reply or none                   *)
  outcome,    (* what executeTool returned                                  *)
  delivering, (* the Ward's run loop between its lookup and its send        *)
  toWard,     (* replies keeperd wrote and the Ward has not read            *)
  handler,    (* how far keeperd's handler is with a pipe's current frame   *)
  reply,      (* the reply that handler is about to send                    *)
  target,     (* the pipe Router.Send looked up for it                      *)
  verdict,    (* history: keeperd's decision on each call                   *)
  events      (* how many events each Ward has sent                         *)

wardVars == <<counter, pc, seqOf, pending, mailbox, outcome, delivering, events>>
keeperVars == <<handler, reply, target, verdict>>
callVars == <<wardVars, keeperVars, toWard>>
allVars == <<vars, callVars>>

(* keeperd's response, a result and a denial alike, is one that the Ward   *)
(* can read, or a denial in more words than its reader takes.              *)
Verdicts == {"answer", "unreadable"}
Told(v) == IF v = "unreadable" THEN "decode_error" ELSE v
CallStates == {"idle", "allocated", "registered", "waiting", "returning", "done"}

Reply(n, v, c) == [seqNo |-> n, verdict |-> v, call |-> c]
NoReply == Reply(0, "none", NoCall)

Request(c) ==
  [from |-> Agent, seqNo |-> seqOf[c], size |-> RequestSize,
   kind |-> "request", call |-> c]
Event(n) ==
  [from |-> Agent, seqNo |-> n, size |-> EventSize,
   kind |-> "event", call |-> NoCall]

CInit ==
  /\ Init
  /\ counter = [p \in Pipes |-> 0]
  /\ pc = [c \in Calls |-> "idle"]
  /\ seqOf = [c \in Calls |-> 0]
  /\ pending = {}
  /\ mailbox = [c \in Calls |-> NoReply]
  /\ outcome = [c \in Calls |-> "none"]
  /\ delivering = [p \in Pipes |-> NoReply]
  /\ toWard = [p \in Pipes |-> <<>>]
  /\ handler = [p \in Pipes |-> "entry"]
  /\ reply = [p \in Pipes |-> NoReply]
  /\ target = [p \in Pipes |-> NoPipe]
  /\ verdict = [c \in Calls |-> "none"]
  /\ events = [p \in Pipes |-> 0]

-----------------------------------------------------------------------------
(* Faulty variants of definitions below, used only to see that a property  *)
(* notices them.                                                           *)

(* A counter that returns its value before adding one.                     *)
SendEventStale(p) ==
  /\ owner[p] = Agent /\ events[p] < MaxEvents
  /\ counter' = [counter EXCEPT ![p] = @ + 1]
  /\ Arrive(p, Event(counter[p]))
  /\ events' = [events EXCEPT ![p] = @ + 1]
  /\ UNCHANGED <<keeperVars, toWard, pc, seqOf, pending, mailbox, outcome,
                 delivering>>

(* A write reported as failed that came through.                           *)
TransmitFailsLate(c) ==
  /\ pc[c] = "registered"
  /\ Arrive(WardOf(c), Request(c))
  /\ outcome' = [outcome EXCEPT ![c] = "pipe_error"]
  /\ pc' = [pc EXCEPT ![c] = "returning"]
  /\ UNCHANGED <<keeperVars, toWard, counter, seqOf, pending, mailbox,
                 delivering, events>>

TimeOutOmitted(c) == FALSE

-----------------------------------------------------------------------------
(* keeperd brings a Ward up (spawnAgent), with a pipe that no other Ward   *)
(* had, and destroys the agent: the name is freed, but the old Ward's      *)
(* reader and handler run on.                                              *)

NextPipe == CHOOSE p \in Pipes : loop[p] = "unused"

Create(p) ==
  /\ pipes[Agent] = NoPipe
  /\ AddPipe(Agent, p)
  /\ p = NextPipe
  /\ UNCHANGED callVars

Destroy ==
  /\ RemovePipe(Agent)
  /\ UNCHANGED callVars

-----------------------------------------------------------------------------
(* The Ward: executeTool, one step per access to what is shared.           *)

To(c, s) == pc' = [pc EXCEPT ![c] = s]

(* seqNo := w.pipe.seq.Next(), outside the pipe's lock.                    *)
Allocate(c) ==
  LET p == WardOf(c) IN
  /\ pc[c] = "idle" /\ owner[p] = Agent
  /\ counter' = [counter EXCEPT ![p] = @ + 1]
  /\ seqOf' = [seqOf EXCEPT ![c] = counter[p] + 1]
  /\ To(c, "allocated")
  /\ UNCHANGED <<vars, keeperVars, toWard, pending, mailbox, outcome,
                 delivering, events>>

(* registerPending.                                                        *)
Register(c) ==
  /\ pc[c] = "allocated"
  /\ pending' = pending \cup {c}
  /\ To(c, "registered")
  /\ UNCHANGED <<vars, keeperVars, toWard, counter, seqOf, mailbox, outcome,
                 delivering, events>>

(* sendWithSeq: the pipe's lock orders the writers, not their numbers.  A  *)
(* writer waits, holding the lock, while the pipe is full.                 *)
Transmit(c) ==
  /\ pc[c] = "registered"
  /\ Arrive(WardOf(c), Request(c))
  /\ To(c, "waiting")
  /\ UNCHANGED <<keeperVars, toWard, counter, seqOf, pending, mailbox,
                 outcome, delivering, events>>

(* The write fails (keeperd's end of the pipe is closed): the tool is told *)
(* at once, and nothing of the request has got anywhere.                   *)
TransmitFails(c) ==
  /\ pc[c] = "registered"
  /\ outcome' = [outcome EXCEPT ![c] = "pipe_error"]
  /\ To(c, "returning")
  /\ UNCHANGED <<vars, keeperVars, toWard, counter, seqOf, pending, mailbox,
                 delivering, events>>

(* The select: a reply, which may not decode (decode_error), or 60 seconds *)
(* (or the Ward's context) gone by.                                        *)
Receive(c) ==
  /\ pc[c] = "waiting" /\ mailbox[c] # NoReply
  /\ outcome' = [outcome EXCEPT ![c] = Told(mailbox[c].verdict)]
  /\ mailbox' = [mailbox EXCEPT ![c] = NoReply]
  /\ To(c, "returning")
  /\ UNCHANGED <<vars, keeperVars, toWard, counter, seqOf, pending,
                 delivering, events>>

TimeOut(c) ==
  /\ pc[c] = "waiting"
  /\ outcome' = [outcome EXCEPT ![c] = "timeout"]
  /\ To(c, "returning")
  /\ UNCHANGED <<vars, keeperVars, toWard, counter, seqOf, pending, mailbox,
                 delivering, events>>

(* The deferred removePending, and executeTool returns.                    *)
Return(c) ==
  /\ pc[c] = "returning"
  /\ pending' = pending \ {c}
  /\ To(c, "done")
  /\ UNCHANGED <<vars, keeperVars, toWard, counter, seqOf, mailbox, outcome,
                 delivering, events>>

(* musPipe.send (a completion or failure event): the number is allocated   *)
(* and the frame written under one hold of the lock.                       *)
SendEvent(p) ==
  /\ owner[p] = Agent /\ events[p] < MaxEvents
  /\ counter' = [counter EXCEPT ![p] = @ + 1]
  /\ Arrive(p, Event(counter[p] + 1))
  /\ events' = [events EXCEPT ![p] = @ + 1]
  /\ UNCHANGED <<keeperVars, toWard, pc, seqOf, pending, mailbox, outcome,
                 delivering>>

(* Its write fails, which nobody looks at: the number is used up.          *)
SendEventFails(p) ==
  /\ owner[p] = Agent /\ events[p] < MaxEvents
  /\ counter' = [counter EXCEPT ![p] = @ + 1]
  /\ events' = [events EXCEPT ![p] = @ + 1]
  /\ UNCHANGED <<vars, keeperVars, toWard, pc, seqOf, pending, mailbox,
                 outcome, delivering>>

(* The Ward's run loop takes a reply and finds the channel registered for  *)
(* its number, if any (pendingBySeq[hdr.SeqNo] under the read lock) ...    *)
Waiter(p, r) == {c \in pending : WardOf(c) = p /\ seqOf[c] = r.seqNo}

TakeReply(p) ==
  LET r == Head(toWard[p]) IN
  /\ toWard[p] # <<>> /\ delivering[p] = NoReply
  /\ toWard' = [toWard EXCEPT ![p] = Tail(@)]
  /\ delivering' = [delivering EXCEPT
                      ![p] = IF Waiter(p, r) = {} THEN NoReply ELSE r]
  /\ UNCHANGED <<vars, keeperVars, counter, pc, seqOf, pending, mailbox,
                 outcome, events>>

(* ... and puts the reply into that channel unless it holds one already.   *)
(* The call may have returned in between: the channel is then garbage.     *)
Deliver(p) ==
  /\ delivering[p] # NoReply
  /\ mailbox' = [c \in Calls |->
                   IF /\ WardOf(c) = p /\ seqOf[c] = delivering[p].seqNo
                      /\ mailbox[c] = NoReply
                     THEN delivering[p] ELSE mailbox[c]]
  /\ delivering' = [delivering EXCEPT ![p] = NoReply]
  /\ UNCHANGED <<vars, keeperVars, toWard, counter, pc, seqOf, pending,
                 outcome, events>>

-----------------------------------------------------------------------------
(* keeperd: handleFrame, called by the read loop of pipe p.                *)

(* The router's own steps.                                                 *)
Route(p) == (ReadStep(p) \/ Drain(p)) /\ UNCHANGED callVars

(* A completion or failure event is recorded and pushed, never answered.   *)
HandleEvent(p) ==
  /\ loop[p] = "handling" /\ current[p].kind = "event"
  /\ HandlerReturns(p)
  /\ UNCHANGED callVars

(* handleCapabilityRequest: the dispatcher grants and executes, or denies  *)
(* (no ACL, not allowed, not registered, failed, malformed).               *)
Decide(p, v) ==
  /\ loop[p] = "handling" /\ current[p].kind = "request"
  /\ handler[p] = "entry"
  /\ verdict' = [verdict EXCEPT ![current[p].call] = v]
  /\ reply' = [reply EXCEPT
                 ![p] = Reply(current[p].seqNo, v, current[p].call)]
  /\ handler' = [handler EXCEPT ![p] = "lookup"]
  /\ UNCHANGED <<vars, wardVars, toWard, target>>

(* Router.Send, under the router's lock: the pipe now registered for the   *)
(* sender's name.  With none the reply is logged as unsendable and lost.   *)
Lookup(p) ==
  /\ handler[p] = "lookup" /\ pipes[current[p].from] # NoPipe
  /\ target' = [target EXCEPT ![p] = pipes[current[p].from]]
  /\ handler' = [handler EXCEPT ![p] = "write"]
  /\ UNCHANGED <<vars, wardVars, toWard, reply, verdict>>

Unsendable(p) ==
  /\ handler[p] = "lookup" /\ pipes[current[p].from] = NoPipe
  /\ HandlerReturns(p)
  /\ handler' = [handler EXCEPT ![p] = "entry"]
  /\ reply' = [reply EXCEPT ![p] = NoReply]
  /\ UNCHANGED <<wardVars, toWard, target, verdict>>

(* Router.Send, after the unlock: the frame is written and the handler     *)
(* returns to the read loop.                                               *)
Answer(p) ==
  /\ handler[p] = "write"
  /\ toWard' = [toWard EXCEPT ![target[p]] = Append(@, reply[p])]
  /\ HandlerReturns(p)
  /\ handler' = [handler EXCEPT ![p] = "entry"]
  /\ reply' = [reply EXCEPT ![p] = NoReply]
  /\ target' = [target EXCEPT ![p] = NoPipe]
  /\ UNCHANGED <<wardVars, verdict>>

-----------------------------------------------------------------------------
CallStep(c) == Register(c) \/ Transmit(c) \/ Receive(c) \/ TimeOut(c) \/ Return(c)
RunLoop(p) == TakeReply(p) \/ Deliver(p)
Handle(p) ==
  \/ HandleEvent(p) \/ Lookup(p) \/ Unsendable(p) \/ Answer(p)
  \/ \E v \in Verdicts : Decide(p, v)

Send(p) == SendEvent(p) \/ SendEventFails(p)

CNext ==
  \/ Destroy
  \/ \E p \in Pipes : Create(p) \/ Send(p) \/ Route(p) \/ RunLoop(p) \/ Handle(p)
  \/ \E c \in Calls : Allocate(c) \/ TransmitFails(c) \/ CallStep(c)

CSpec == CInit /\ [][CNext]_allVars

(* Goroutines that can run do: a call once begun, the router's loop and    *)
(* its handlers (30 s at most).  The Ward's run loop does too, which no    *)
(* property needs.  Nothing obliges a tool to call, a Ward to send events, *)
(* a write to fail, or anyone to create or destroy.                        *)
CFairSpec ==
  /\ CSpec
  /\ \A c \in Calls : WF_allVars(CallStep(c))
  /\ \A p \in Pipes : WF_allVars(Route(p) \/ Handle(p))

-----------------------------------------------------------------------------
(* Properties.                                                             *)

(* The round trip keeps the contract of a capability call: one decision    *)
(* and one outcome each, and the outcome is what keeperd decided on this   *)
(* call, a pipe_error for one it never decides, or a timeout, whatever was *)
(* dropped, delayed or delivered late on the way.  A reply that outlives   *)
(* its Ward is sent to the next Ward of the name, where the number it      *)
(* echoes may be that of another call: the contract names that exception.  *)
Contract == INSTANCE CapabilityContract
  WITH number <- seqOf, Undecided <- "none", Timeout <- "timeout",
       PipeError <- "pipe_error", Ward <- WardOf
ContractSpec == Contract!Spec

(* A completion or failure event is never dropped as a rewind: send()      *)
(* allocates its number under the lock that orders the writes, so it is    *)
(* above every number written before it.                                   *)
EventsNeverRewound ==
  \A p \in Pipes : \A i \in 1..Len(security[p].rewound) :
    security[p].rewound[i].kind # "event"

(* Every tool call returns, although its request or its reply may be lost, *)
(* and leaves nothing in the Ward's table of pending calls.                *)
CallsReturn ==
  \A c \in Calls : pc[c] # "idle" ~> pc[c] = "done" /\ c \notin pending
=============================================================================
