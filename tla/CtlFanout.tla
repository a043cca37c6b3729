----------------------------- MODULE CtlFanout -----------------------------
(***************************************************************************)
(* The live event stream of keeperd's control socket: handleCtlConn's      *)
(* subscription, its push goroutine and its deregistration                 *)
(* (cmd/keeperd/main.go), and pushToCtlSubscribers, which a pipe's read    *)
(* loop calls with every completion and failure event                      *)
(* (cmd/keeperd/dispatch.go).                                              *)
(*                                                                         *)
(* daemon.ctlSubs is a Go slice: a pointer to a backing array, a length    *)
(* and a capacity.  Subscribing appends to it, in place while the array    *)
(* has room; disconnecting shifts the rest of it left, in place.  A        *)
(* fan-out copies the slice under the read lock, which copies the pointer, *)
(* and reads the array element by element after the unlock.                *)
(*                                                                         *)
(* The fan-outs are those of one agent pipe, whose read loop runs them one *)
(* after another; those of other pipes share only the queues with them.    *)
(***************************************************************************)
EXTENDS Naturals, Sequences

CONSTANTS
  Conns,     (* control connections                                         *)
  NoConn,    (* an element of a new array that was not written yet          *)
  QueueCap,  (* capacity of a connection's push channel (64 in the code)    *)
  MaxEvents  (* bound: events handled in a behaviour                        *)

ASSUME FanoutAssumption ==
  NoConn \notin Conns /\ QueueCap \in Nat \ {0} /\ MaxEvents \in Nat

VARIABLES
  conn,      (* the main goroutine of each connection                       *)
  arrays,    (* the backing arrays allocated so far                         *)
  subs,      (* ctlSubs: which array, how many elements                     *)
  removal,   (* the deregistration that holds subsMu                        *)
  fanout,    (* the fan-out in progress: event, copied slice, next index    *)
  queue,     (* pushCh of each connection                                   *)
  received,  (* events the push goroutine wrote to the connection           *)
  happened,  (* events handled so far                                       *)
  dropped,   (* history: events not queued because the queue was full       *)
  steady,    (* history: who was subscribed since the fan-out began         *)
  raced      (* history: events whose fan-out a change of ctlSubs overlapped *)

subsVars == <<arrays, subs, removal>>
history == <<dropped, steady, raced>>
vars == <<conn, subsVars, fanout, queue, received, happened, history>>

NoRemoval == [conn |-> NoConn, at |-> 0]
Idle == [event |-> 0, array |-> 1, len |-> 0, next |-> 1]

Subscribers == {c \in Conns : conn[c] = "subscribed"}
FanningOut == fanout.event # 0

Init ==
  /\ conn = [c \in Conns |-> "open"]
  /\ arrays = << <<>> >>
  /\ subs = [array |-> 1, len |-> 0]
  /\ removal = NoRemoval
  /\ fanout = Idle
  /\ queue = [c \in Conns |-> <<>>]
  /\ received = [c \in Conns |-> <<>>]
  /\ happened = 0
  /\ dropped = [c \in Conns |-> {}]
  /\ steady = {} /\ raced = {}

(* A change of ctlSubs while a fan-out is under way.                       *)
NoteRace == raced' = IF FanningOut THEN raced \cup {fanout.event} ELSE raced

(* Go's append: in place, or in a new array of twice the capacity.         *)
Appended(c) ==
  LET old == arrays[subs.array]
      n == subs.len
      kept == SubSeq(old, 1, n) \o <<c>> IN
  IF n < Len(old)
    THEN /\ arrays' = [arrays EXCEPT ![subs.array][n + 1] = c]
         /\ subs' = [subs EXCEPT !.len = n + 1]
    ELSE /\ arrays' = Append(arrays, kept \o [i \in 1..(IF n = 0 THEN 0 ELSE n - 1) |-> NoConn])
         /\ subs' = [array |-> Len(arrays) + 1, len |-> n + 1]

-----------------------------------------------------------------------------
(* Faulty variants of actions below.  The specification does not use them: *)
(* each is a slip that one of the properties has to notice.                *)

(* A connection that asks twice is registered twice.                       *)
SubscribeAgain(c) ==
  /\ conn[c] \in {"open", "subscribed"} /\ removal = NoRemoval
  /\ Appended(c)
  /\ conn' = [conn EXCEPT ![c] = "subscribed"]
  /\ NoteRace
  /\ UNCHANGED <<removal, fanout, queue, received, happened, dropped, steady>>

(* The slice is cut without closing the gap.                               *)
ShiftNothing ==
  /\ removal # NoRemoval /\ removal.at < subs.len
  /\ removal' = [removal EXCEPT !.at = subs.len]
  /\ NoteRace
  /\ UNCHANGED <<conn, arrays, subs, fanout, queue, received, happened, dropped, steady>>

(* A full queue ends the fan-out for everyone behind it.                   *)
OfferUntilFull ==
  LET c == arrays[fanout.array][fanout.next]
      full == Len(queue[c]) >= QueueCap IN
  /\ FanningOut /\ fanout.next <= fanout.len
  /\ queue' = IF full THEN queue ELSE [queue EXCEPT ![c] = Append(@, fanout.event)]
  /\ dropped' = IF full THEN [dropped EXCEPT ![c] = @ \cup {fanout.event}] ELSE dropped
  /\ fanout' = [fanout EXCEPT !.next = IF full THEN fanout.len + 1 ELSE @ + 1]
  /\ UNCHANGED <<conn, subsVars, received, happened, steady, raced>>

(* The send has no default case: it waits for room.                        *)
OfferBlocking ==
  LET c == arrays[fanout.array][fanout.next] IN
  /\ FanningOut /\ fanout.next <= fanout.len /\ Len(queue[c]) < QueueCap
  /\ queue' = [queue EXCEPT ![c] = Append(@, fanout.event)]
  /\ fanout' = [fanout EXCEPT !.next = @ + 1]
  /\ UNCHANGED <<conn, subsVars, received, happened, history>>

-----------------------------------------------------------------------------
(* handleCtlConn.                                                          *)

(* CtlSubscribe, the first on the connection, under subsMu.                *)
Subscribe(c) ==
  /\ conn[c] = "open" /\ removal = NoRemoval
  /\ Appended(c)
  /\ conn' = [conn EXCEPT ![c] = "subscribed"]
  /\ NoteRace
  /\ UNCHANGED <<removal, fanout, queue, received, happened, dropped, steady>>

(* The connection ends: its deferred deregistration takes subsMu, finds    *)
(* its channel, ...                                                        *)
Disconnect(c) ==
  /\ conn[c] = "subscribed" /\ removal = NoRemoval
  /\ \E i \in 1..subs.len :
       /\ arrays[subs.array][i] = c
       /\ \A j \in 1..(i - 1) : arrays[subs.array][j] # c
       /\ removal' = [conn |-> c, at |-> i]
  /\ conn' = [conn EXCEPT ![c] = "leaving"]
  /\ steady' = steady \ {c}
  /\ NoteRace
  /\ UNCHANGED <<arrays, subs, fanout, queue, received, happened, dropped>>

(* ... shifts what follows, element by element, ...                        *)
Shift ==
  /\ removal # NoRemoval /\ removal.at < subs.len
  /\ arrays' = [arrays EXCEPT
                  ![subs.array][removal.at] = arrays[subs.array][removal.at + 1]]
  /\ removal' = [removal EXCEPT !.at = @ + 1]
  /\ NoteRace
  /\ UNCHANGED <<conn, subs, fanout, queue, received, happened, dropped, steady>>

(* ... shortens the slice, and the push goroutine's context is cancelled.  *)
Shorten ==
  /\ removal # NoRemoval /\ removal.at = subs.len
  /\ subs' = [subs EXCEPT !.len = @ - 1]
  /\ removal' = NoRemoval
  /\ conn' = [conn EXCEPT ![removal.conn] = "gone"]
  /\ NoteRace
  /\ UNCHANGED <<arrays, fanout, queue, received, happened, dropped, steady>>

(* The push goroutine forwards the next event; its client may be slow, and *)
(* once a write failed it forwards no more although the main goroutine,    *)
(* blocked in its read, stays subscribed.                                  *)
Push(c) ==
  /\ conn[c] \in {"subscribed", "leaving"} /\ queue[c] # <<>>
  /\ received' = [received EXCEPT ![c] = Append(@, Head(queue[c]))]
  /\ queue' = [queue EXCEPT ![c] = Tail(@)]
  /\ UNCHANGED <<conn, subsVars, fanout, happened, history>>

-----------------------------------------------------------------------------
(* pushToCtlSubscribers, in the read loop of the pipe the event came from. *)

Begin ==
  /\ ~FanningOut /\ removal = NoRemoval /\ happened < MaxEvents
  /\ happened' = happened + 1
  /\ fanout' = [event |-> happened + 1, array |-> subs.array, len |-> subs.len,
                next |-> 1]
  /\ steady' = Subscribers
  /\ UNCHANGED <<conn, subsVars, queue, received, dropped, raced>>

(* One element: the event is queued for whoever it names now, or dropped   *)
(* when that connection's queue is full.                                   *)
Offer ==
  LET c == arrays[fanout.array][fanout.next] IN
  /\ FanningOut /\ fanout.next <= fanout.len
  /\ IF Len(queue[c]) < QueueCap
       THEN /\ queue' = [queue EXCEPT ![c] = Append(@, fanout.event)]
            /\ dropped' = dropped
       ELSE /\ dropped' = [dropped EXCEPT ![c] = @ \cup {fanout.event}]
            /\ queue' = queue
  /\ fanout' = [fanout EXCEPT !.next = @ + 1]
  /\ UNCHANGED <<conn, subsVars, received, happened, steady, raced>>

End ==
  /\ FanningOut /\ fanout.next > fanout.len
  /\ fanout' = Idle
  /\ steady' = {}
  /\ UNCHANGED <<conn, subsVars, queue, received, happened, dropped, raced>>

-----------------------------------------------------------------------------
Next ==
  \/ \E c \in Conns : Subscribe(c) \/ Disconnect(c) \/ Push(c)
  \/ Shift \/ Shorten \/ Begin \/ Offer \/ End

Spec == Init /\ [][Next]_vars

(* The read loop and a deregistration run on; no client has to read, so a  *)
(* push goroutine may be stuck in its write for ever.                      *)
FairSpec == Spec /\ WF_vars(Offer \/ End) /\ WF_vars(Shift \/ Shorten)

-----------------------------------------------------------------------------
(* Properties.                                                             *)

(* Whenever subsMu is free ctlSubs holds every subscribed connection once  *)
(* and no other, whatever was appended and shifted in place before.        *)
SubsExact ==
  removal = NoRemoval =>
    LET listed == SubSeq(arrays[subs.array], 1, subs.len) IN
    /\ {listed[i] : i \in 1..Len(listed)} = Subscribers
    /\ \A i, j \in 1..Len(listed) : listed[i] = listed[j] => i = j

(* A connection gets events in the order keeperd handled them, and gets    *)
(* one twice only if ctlSubs changed during its fan-out.                   *)
PushedInOrder ==
  \A c \in Conns :
    LET all == received[c] \o queue[c] IN
    \A i, j \in 1..Len(all) :
      i < j => all[i] < all[j] \/ (all[i] = all[j] /\ all[i] \in raced)

Holds(c, e) == \E i \in 1..Len(received[c] \o queue[c]) : (received[c] \o queue[c])[i] = e

(* After a fan-out every connection that stayed subscribed was sent the    *)
(* event, unless its own queue was full or ctlSubs changed meanwhile: a    *)
(* slow subscriber never costs another one an event.                       *)
NoneForgotten ==
  FanningOut /\ fanout.next > fanout.len /\ fanout.event \notin raced =>
    \A c \in steady : Holds(c, fanout.event) \/ fanout.event \in dropped[c]

(* A fan-out ends although clients stop reading their connections: the     *)
(* pipe's read loop is never blocked by a subscriber.                      *)
FanoutEnds == FanningOut ~> ~FanningOut

(* main.go, handleCtlConn: after CtlSubscribe "keeperd will push           *)
(* CompletionEvent and FailureEvent frames to it for the lifetime of the   *)
(* connection", here as long as its queue has room.                        *)
PushedWhileSubscribed ==
  FanningOut /\ fanout.next > fanout.len =>
    \A c \in steady : Holds(c, fanout.event) \/ fanout.event \in dropped[c]
=============================================================================
