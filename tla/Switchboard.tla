---------------------------- MODULE Switchboard ----------------------------
(***************************************************************************)
(* keeperd's MUS router (internal/switchboard/router.go).  Every pipe is   *)
(* read by one goroutine (readLoop) that takes frames off the pipe,        *)
(* enforces the byte budget, the sender's identity and the monotonicity of *)
(* its sequence numbers, and calls the registered handlers synchronously   *)
(* with every frame that survives.                                         *)
(*                                                                         *)
(* A frame is [from, seqNo, size]: the sender it claims, its sequence      *)
(* number and the bytes ReadFrame charges for it (header and payload).     *)
(* Garbage is what MUS decoding rejects.  A composing module may give its  *)
(* frames more fields: nothing here reads them.                            *)
(***************************************************************************)
EXTENDS Naturals, Sequences

CONSTANTS
  AgentIDs,   (* the identities keeperd gives to pipes                      *)
  Pipes,      (* Pipe objects: each incarnation of a Ward gets a fresh one  *)
  NoPipe,     (* the zero value a map lookup returns                        *)
  Frames,     (* the frames a sender may put on a pipe                      *)
  Garbage,    (* bytes that do not decode as a frame                        *)
  PeekBytes,  (* bytes charged before a frame is decoded (2 in the code)    *)
  Budget,     (* ByteRateLimiter.limitPerSec                                *)
  WireCap,    (* bound: frames a pipe holds before its writer blocks        *)
  MaxSent     (* bound: frames put on one pipe during a behaviour           *)

ASSUME SwitchboardAssumption ==
  /\ NoPipe \notin Pipes
  /\ Garbage \notin Frames
  /\ \A f \in Frames : f.seqNo \in Nat /\ f.size \in Nat
  /\ \A f \in Frames, a \in AgentIDs :
       LET g == [f EXCEPT !.from = a] IN
       g \in Frames /\ g.from = a /\ g.seqNo = f.seqNo /\ g.size = f.size
  /\ PeekBytes \in Nat /\ Budget \in Nat
  /\ WireCap \in Nat /\ MaxSent \in Nat

VARIABLES
  pipes,      (* Router.pipes: agent -> the pipe Send looks up              *)
  owner,      (* Pipe.AgentID                                               *)
  loop,       (* where the pipe's readLoop goroutine is                     *)
  wire,       (* what the sender wrote and the loop has not read            *)
  lastSeqNo,  (* Pipe.lastSeqNo                                             *)
  window,     (* ByteRateLimiter.bytesInWindow                              *)
  current,    (* the frame dispatch is calling the handlers with            *)
  security,   (* the security events emitted for the pipe                   *)
  cancelled,  (* the context of the read loops                              *)
  handled,    (* history: the frames given to the handlers, in order        *)
  passed,     (* history: their bytes since the limiter's window began      *)
  sent        (* history: how many frames were put on the pipe              *)

routerVars == <<pipes, owner, loop, lastSeqNo, window, current, security,
                cancelled, handled, passed>>
vars == <<routerVars, wire, sent>>

(* "unused": not added yet.  "reading": past the context check, blocked in *)
(* Peek.  "handling": inside dispatch.  "drained": flooded, the pipe is    *)
(* copied to io.Discard.  "exited": the goroutine returned.                *)
LoopStates == {"unused", "reading", "handling", "drained", "exited"}

NoFrame == [from |-> "none", seqNo |-> 0, size |-> 0]
NoEvents == [rewound |-> <<>>, flooded |-> <<>>, overwritten |-> 0]

Init ==
  /\ pipes = [a \in AgentIDs |-> NoPipe]
  /\ owner = [p \in Pipes |-> "none"]
  /\ loop = [p \in Pipes |-> "unused"]
  /\ wire = [p \in Pipes |-> <<>>]
  /\ lastSeqNo = [p \in Pipes |-> 0]
  /\ window = [p \in Pipes |-> 0]
  /\ current = [p \in Pipes |-> NoFrame]
  /\ security = [p \in Pipes |-> NoEvents]
  /\ cancelled = FALSE
  /\ handled = [p \in Pipes |-> <<>>]
  /\ passed = [p \in Pipes |-> 0]
  /\ sent = [p \in Pipes |-> 0]

-----------------------------------------------------------------------------
(* Faulty variants of definitions below.  The specification does not use   *)
(* them: each is a slip that one of the properties has to notice.          *)

AllowRemaining(used, n, elapsed) == (IF elapsed THEN Budget ELSE used) - n
AllowPerCall(used, n, elapsed) == n
RewindsAcceptsRepeat(p, f) == f.seqNo < lastSeqNo[p] /\ lastSeqNo[p] > 0
StampTrusting(f, a) == f
EmitRewindOnce(events, f) ==
  IF events.rewound # <<>> THEN events
                           ELSE [events EXCEPT !.rewound = Append(@, f)]
DrainOmitted(p) == FALSE

-----------------------------------------------------------------------------
(* Registration.                                                           *)

(* AddPipe: whatever pipe the agent had is overwritten in the map, and a   *)
(* reader goroutine starts for the new one.                                *)
AddPipe(a, p) ==
  /\ loop[p] = "unused"
  /\ pipes' = [pipes EXCEPT ![a] = p]
  /\ owner' = [owner EXCEPT ![p] = a]
  /\ loop' = [loop EXCEPT ![p] = IF cancelled THEN "exited" ELSE "reading"]
  /\ UNCHANGED <<lastSeqNo, window, current, security, cancelled, handled,
                 passed, wire, sent>>

(* RemovePipe takes an agent's name, not a pipe: it removes whichever pipe *)
(* is registered, and neither stops its reader nor closes it.              *)
RemovePipe(a) ==
  /\ pipes[a] # NoPipe
  /\ pipes' = [pipes EXCEPT ![a] = NoPipe]
  /\ UNCHANGED <<owner, loop, lastSeqNo, window, current, security,
                 cancelled, handled, passed, wire, sent>>

(* The daemon's context is cancelled on a signal.                          *)
Cancel ==
  /\ ~cancelled
  /\ cancelled' = TRUE
  /\ UNCHANGED <<pipes, owner, loop, lastSeqNo, window, current, security,
                 handled, passed, wire, sent>>

-----------------------------------------------------------------------------
(* The read loop.                                                          *)

(* The end of an iteration: the context is looked at before the next Peek. *)
NextIteration == IF cancelled THEN "exited" ELSE "reading"

(* ByteRateLimiter.Allow(n): a second may have passed since the window     *)
(* began; the bytes are counted whether or not they are allowed.           *)
Allow(used, n, elapsed) == (IF elapsed THEN 0 ELSE used) + n
Within(used) == used <= Budget

(* Identity enforcement: FromID becomes the pipe's agent.                  *)
Stamp(f, a) == [f EXCEPT !.from = a]

(* emit: the event is recorded with the frame that caused it.              *)
EmitRewind(events, f) ==
  [rewound |-> Append(events.rewound, f), flooded |-> events.flooded,
   overwritten |-> events.overwritten]
EmitFlood(events, f) ==
  [rewound |-> events.rewound, flooded |-> Append(events.flooded, f),
   overwritten |-> events.overwritten]

(* A sequence number is a rewind when it is not above the last accepted    *)
(* one; while that is still 0 nothing is.                                  *)
Rewinds(p, f) == f.seqNo <= lastSeqNo[p] /\ lastSeqNo[p] > 0

(* The two bytes peeked exceed the budget: the loop ends for good with a   *)
(* pipe_flood event ("drained" records it) and a goroutine copies the rest *)
(* of the pipe to io.Discard.                                              *)
PeekFlood(p, elapsed) ==
  LET used == Allow(window[p], PeekBytes, elapsed) IN
  /\ loop[p] = "reading" /\ wire[p] # <<>>
  /\ ~Within(used)
  /\ window' = [window EXCEPT ![p] = used]
  /\ passed' = [passed EXCEPT ![p] = IF elapsed THEN 0 ELSE @]
  /\ loop' = [loop EXCEPT ![p] = "drained"]
  /\ UNCHANGED <<pipes, owner, lastSeqNo, current, security, cancelled,
                 handled, wire, sent>>

(* ReadFrame fails: the loop returns, and the pipe is not drained.         *)
ReadGarbage(p, elapsed) ==
  LET used == Allow(window[p], PeekBytes, elapsed) IN
  /\ loop[p] = "reading" /\ wire[p] # <<>> /\ Head(wire[p]) = Garbage
  /\ Within(used)
  /\ window' = [window EXCEPT ![p] = used]
  /\ passed' = [passed EXCEPT ![p] = IF elapsed THEN 0 ELSE @]
  /\ wire' = [wire EXCEPT ![p] = Tail(@)]
  /\ loop' = [loop EXCEPT ![p] = "exited"]
  /\ UNCHANGED <<pipes, owner, lastSeqNo, current, security, cancelled,
                 handled, sent>>

(* Peek fails: the Ward exited.  keeperd's reaper (cmd.Wait) closes the    *)
(* read end as soon as it did, so frames may be left on the pipe.          *)
PipeClosed(p) ==
  /\ loop[p] = "reading"
  /\ loop' = [loop EXCEPT ![p] = "exited"]
  /\ UNCHANGED <<pipes, owner, lastSeqNo, window, current, security,
                 cancelled, handled, passed, wire, sent>>

(* What every decoded frame goes through first: it leaves the pipe and its *)
(* sender is overwritten, with an event, by the pipe's identity.  g is the *)
(* stamped frame, used the limiter's count after the peek.                 *)
Decode(p, g, used) ==
  /\ loop[p] = "reading" /\ wire[p] # <<>> /\ Head(wire[p]) # Garbage
  /\ g = Stamp(Head(wire[p]), owner[p])
  /\ Within(used)
  /\ wire' = [wire EXCEPT ![p] = Tail(@)]

CountOverwrite(p) ==
  IF Head(wire[p]).from # owner[p]
    THEN [security[p] EXCEPT !.overwritten = @ + 1] ELSE security[p]

(* A rewind is dropped before its size is charged.                         *)
DropRewind(p, elapsed) ==
  LET used == Allow(window[p], PeekBytes, elapsed)
      g == Stamp(Head(wire[p]), owner[p]) IN
  /\ Decode(p, g, used)
  /\ Rewinds(p, g)
  /\ window' = [window EXCEPT ![p] = used]
  /\ passed' = [passed EXCEPT ![p] = IF elapsed THEN 0 ELSE @]
  /\ security' = [security EXCEPT
                    ![p] = EmitRewind(CountOverwrite(p), g)]
  /\ loop' = [loop EXCEPT ![p] = NextIteration]
  /\ UNCHANGED <<pipes, owner, lastSeqNo, current, cancelled, handled, sent>>

(* A frame over the budget is dropped after its number was accepted.  Each *)
(* of the two calls of Allow may be the one that finds the window over.    *)
DropFlood(p, elapsed, elapsed2) ==
  LET used == Allow(window[p], PeekBytes, elapsed)
      g == Stamp(Head(wire[p]), owner[p])
      total == Allow(used, g.size, elapsed2) IN
  /\ Decode(p, g, used)
  /\ ~Rewinds(p, g)
  /\ ~Within(total)
  /\ lastSeqNo' = [lastSeqNo EXCEPT ![p] = g.seqNo]
  /\ window' = [window EXCEPT ![p] = total]
  /\ passed' = [passed EXCEPT ![p] = IF elapsed \/ elapsed2 THEN 0 ELSE @]
  /\ security' = [security EXCEPT
                    ![p] = EmitFlood(CountOverwrite(p), g)]
  /\ loop' = [loop EXCEPT ![p] = NextIteration]
  /\ UNCHANGED <<pipes, owner, current, cancelled, handled, sent>>

(* Every check passed: the handlers are called with the stamped frame.     *)
Dispatch(p, elapsed, elapsed2) ==
  LET used == Allow(window[p], PeekBytes, elapsed)
      g == Stamp(Head(wire[p]), owner[p])
      total == Allow(used, g.size, elapsed2) IN
  /\ Decode(p, g, used)
  /\ ~Rewinds(p, g)
  /\ Within(total)
  /\ lastSeqNo' = [lastSeqNo EXCEPT ![p] = g.seqNo]
  /\ window' = [window EXCEPT ![p] = total]
  /\ passed' = [passed EXCEPT
                  ![p] = (IF elapsed \/ elapsed2 THEN 0 ELSE @) + g.size]
  /\ security' = [security EXCEPT ![p] = CountOverwrite(p)]
  /\ current' = [current EXCEPT ![p] = g]
  /\ handled' = [handled EXCEPT ![p] = Append(@, g)]
  /\ loop' = [loop EXCEPT ![p] = "handling"]
  /\ UNCHANGED <<pipes, owner, cancelled, sent>>

(* The handlers return; until then the loop reads nothing.                 *)
HandlerReturns(p) ==
  /\ loop[p] = "handling"
  /\ current' = [current EXCEPT ![p] = NoFrame]
  /\ loop' = [loop EXCEPT ![p] = NextIteration]
  /\ UNCHANGED <<pipes, owner, lastSeqNo, window, security, cancelled,
                 handled, passed, wire, sent>>

(* The goroutine that discards a flooded pipe.                             *)
Drain(p) ==
  /\ loop[p] = "drained" /\ wire[p] # <<>>
  /\ wire' = [wire EXCEPT ![p] = Tail(@)]
  /\ UNCHANGED <<routerVars, sent>>

(* The steps of one pipe's read goroutine, up to the handlers' return.     *)
ReadStep(p) ==
  \E elapsed \in BOOLEAN :
    \/ PeekFlood(p, elapsed)
    \/ ReadGarbage(p, elapsed)
    \/ DropRewind(p, elapsed)
    \/ \E elapsed2 \in BOOLEAN : \/ DropFlood(p, elapsed, elapsed2)
                                 \/ Dispatch(p, elapsed, elapsed2)

-----------------------------------------------------------------------------
(* The senders, unconstrained: a pipe may carry any frames and garbage.    *)

Arrive(p, x) ==
  /\ loop[p] # "unused"
  /\ Len(wire[p]) < WireCap /\ sent[p] < MaxSent
  /\ wire' = [wire EXCEPT ![p] = Append(@, x)]
  /\ sent' = [sent EXCEPT ![p] = @ + 1]
  /\ UNCHANGED routerVars

Next ==
  \/ \E a \in AgentIDs, p \in Pipes : AddPipe(a, p)
  \/ \E a \in AgentIDs : RemovePipe(a)
  \/ Cancel
  \/ \E p \in Pipes : \/ ReadStep(p)
                      \/ HandlerReturns(p)
                      \/ Drain(p)
                      \/ PipeClosed(p)
                      \/ \E x \in Frames \cup {Garbage} : Arrive(p, x)

Spec == Init /\ [][Next]_vars

(* A goroutine that can run does: the loop and the discarding copy are     *)
(* scheduled by the Go runtime, and every handler keeperd registers        *)
(* returns (a capability's context ends after 30 s).                       *)
Fairness ==
  \A p \in Pipes : WF_vars(ReadStep(p) \/ HandlerReturns(p) \/ Drain(p))

FairSpec == Spec /\ Fairness

-----------------------------------------------------------------------------
(* Properties.                                                             *)

Events == [rewound : Seq(Frames), flooded : Seq(Frames), overwritten : Nat]

TypeOK ==
  /\ pipes \in [AgentIDs -> Pipes \cup {NoPipe}]
  /\ owner \in [Pipes -> AgentIDs \cup {"none"}]
  /\ loop \in [Pipes -> LoopStates]
  /\ wire \in [Pipes -> Seq(Frames \cup {Garbage})]
  /\ lastSeqNo \in [Pipes -> Nat]
  /\ window \in [Pipes -> Nat]
  /\ current \in [Pipes -> Frames \cup {NoFrame}]
  /\ security \in [Pipes -> Events]
  /\ cancelled \in BOOLEAN
  /\ handled \in [Pipes -> Seq(Frames)]
  /\ passed \in [Pipes -> Nat]
  /\ sent \in [Pipes -> Nat]

(* A handler never sees, on one pipe, a sequence number at or below a      *)
(* positive one it saw before.  A 0 is let through again and again until a *)
(* positive number arrives (the prev > 0 test in readLoop), where          *)
(* docs/MUS_PROTOCOL.md:364 rejects every number that does not increase.   *)
HandledInOrder ==
  \A p \in Pipes : \A i, j \in 1..Len(handled[p]) :
    i < j => \/ handled[p][i].seqNo < handled[p][j].seqNo
             \/ handled[p][i].seqNo = 0

(* A positive sequence number is used up by the frame that carried it even *)
(* when that frame is dropped for its size: sent again, it is a rewind and *)
(* never reaches a handler (lastSeqNo is stored before the second Allow).  *)
NumberUsedOnce ==
  \A p \in Pipes :
    \A i \in 1..Len(handled[p]), j \in 1..Len(security[p].flooded) :
      security[p].flooded[j].seqNo > 0
        => handled[p][i].seqNo # security[p].flooded[j].seqNo

(* Whatever identity a frame claims, every handler sees the pipe's own     *)
(* identity in FromID, also after the agent's name moved to another pipe.  *)
Stamped ==
  \A p \in Pipes : \A i \in 1..Len(handled[p]) :
    handled[p][i].from = owner[p]

(* The bytes of the frames a pipe's handlers were given since the limiter  *)
(* last began a window stay within the budget of one window.               *)
WithinBudget == \A p \in Pipes : passed[p] <= Budget

(* While a loop reads its pipe no frame disappears without a trace: each   *)
(* is on the pipe, was handled, or was dropped with a security event.      *)
AccountedFor ==
  \A p \in Pipes :
    loop[p] \in {"reading", "handling"} =>
      sent[p] = Len(wire[p]) + Len(handled[p])
                + Len(security[p].rewound) + Len(security[p].flooded)

(* After the daemon's context is cancelled no loop begins an iteration: a  *)
(* loop blocked in Peek handles at most the one frame it was waiting for.  *)
NoNewIterationAfterCancel ==
  [][\A p \in Pipes :
       cancelled /\ loop[p] # "reading" => loop'[p] # "reading"]_vars

(* A full pipe does not block its Ward for ever: the loop, or the copy to  *)
(* io.Discard after a flood, makes room, unless the loop has returned.     *)
WriterNeverWedged ==
  \A p \in Pipes :
    Len(wire[p]) = WireCap
      ~> Len(wire[p]) < WireCap \/ loop[p] = "exited"
=============================================================================
