----------------------- MODULE CapabilityCalls_proofs -----------------------
(***************************************************************************)
(* Theorems about Switchboard, for any agents, pipes, frames and budget;   *)
(* and about the calls that are made over it: the round trip of a          *)
(* capability call implements CapabilityContract, for any number of calls  *)
(* and Wards, any traffic and any budget.                                  *)
(***************************************************************************)
EXTENDS CapabilityCalls, TLAPS

-----------------------------------------------------------------------------
(* Switchboard.                                                            *)

(***************************************************************************)
(* The inductive invariant.  What the handlers saw is ordered because      *)
(* lastSeqNo bounds every number accepted so far (Accepted); the budget    *)
(* holds because the limiter counts at least the bytes it lets pass        *)
(* (Charged); an unused pipe has no history (Fresh), and a used one has an *)
(* agent (Owned).                                                          *)
(***************************************************************************)
Accepted ==
  \A p \in Pipes :
    /\ \A i \in 1..Len(handled[p]) : handled[p][i].seqNo <= lastSeqNo[p]
    /\ \A i \in 1..Len(security[p].flooded) :
         security[p].flooded[i].seqNo <= lastSeqNo[p]

Charged == \A p \in Pipes : passed[p] <= window[p]

Fresh ==
  \A p \in Pipes : loop[p] = "unused" =>
    /\ wire[p] = <<>> /\ handled[p] = <<>> /\ sent[p] = 0
    /\ security[p].rewound = <<>> /\ security[p].flooded = <<>>

Owned == \A p \in Pipes : loop[p] # "unused" => owner[p] \in AgentIDs

IInv ==
  /\ TypeOK /\ Fresh /\ Owned
  /\ Accepted /\ HandledInOrder /\ NumberUsedOnce
  /\ Stamped /\ Charged /\ WithinBudget /\ AccountedFor

-----------------------------------------------------------------------------
(* Stamping changes the sender of a frame and nothing else that is read.   *)
LEMMA StampFacts ==
  ASSUME NEW f \in Frames, NEW a \in AgentIDs
  PROVE  /\ Stamp(f, a) \in Frames
         /\ Stamp(f, a).from = a
         /\ Stamp(f, a).seqNo = f.seqNo /\ Stamp(f, a).seqNo \in Nat
         /\ Stamp(f, a).size \in Nat
  BY SwitchboardAssumption DEF Stamp

(* Counting an overwrite leaves the frames recorded as dropped alone.      *)
LEMMA CountOverwriteFacts ==
  ASSUME NEW p \in Pipes, security[p] \in Events
  PROVE  /\ CountOverwrite(p) \in Events
         /\ CountOverwrite(p).rewound = security[p].rewound
         /\ CountOverwrite(p).flooded = security[p].flooded
  BY DEF CountOverwrite, Events

(* An event adds its frame to the frames of its kind.                      *)
LEMMA EmitFacts ==
  ASSUME NEW ev \in Events, NEW f \in Frames
  PROVE  /\ EmitRewind(ev, f) \in Events
         /\ EmitRewind(ev, f).rewound = Append(ev.rewound, f)
         /\ EmitRewind(ev, f).flooded = ev.flooded
         /\ EmitFlood(ev, f) \in Events
         /\ EmitFlood(ev, f).flooded = Append(ev.flooded, f)
         /\ EmitFlood(ev, f).rewound = ev.rewound
<1>1. Append(ev.rewound, f) \in Seq(Frames) /\ Append(ev.flooded, f) \in Seq(Frames)
  BY DEF Events
<1> QED
  BY <1>1 DEF EmitRewind, EmitFlood, Events

(* What a decoded frame is, once stamped, and what is left on the pipe.    *)
LEMMA DecodeFacts ==
  ASSUME NEW p \in Pipes, NEW used, TypeOK, Owned,
         Decode(p, Stamp(Head(wire[p]), owner[p]), used)
  PROVE  LET g == Stamp(Head(wire[p]), owner[p]) IN
         /\ g \in Frames /\ g.from = owner[p]
         /\ g.seqNo \in Nat /\ g.size \in Nat
         /\ wire' \in [Pipes -> Seq(Frames \cup {Garbage})]
         /\ \A q \in Pipes \ {p} : wire'[q] = wire[q]
         /\ Len(wire'[p]) = Len(wire[p]) - 1
<1>1. /\ wire[p] \in Seq(Frames \cup {Garbage}) /\ wire[p] # <<>>
      /\ Head(wire[p]) # Garbage /\ owner[p] \in AgentIDs
      /\ wire' = [wire EXCEPT ![p] = Tail(@)]
  BY DEF TypeOK, Owned, Decode
<1>2. Head(wire[p]) \in Frames
  BY <1>1
<1>3. Tail(wire[p]) \in Seq(Frames \cup {Garbage}) /\ Len(Tail(wire[p])) = Len(wire[p]) - 1
  BY <1>1
<1>4. /\ wire' \in [Pipes -> Seq(Frames \cup {Garbage})]
      /\ \A q \in Pipes \ {p} : wire'[q] = wire[q]
      /\ wire'[p] = Tail(wire[p])
  BY <1>1, <1>3 DEF TypeOK
<1> QED
  BY <1>1, <1>2, <1>3, <1>4, StampFacts

(* The limiter's count is a number, no smaller than the bytes charged.     *)
LEMMA AllowFacts ==
  ASSUME NEW used \in Nat, NEW n \in Nat, NEW elapsed \in BOOLEAN
  PROVE  /\ Allow(used, n, elapsed) \in Nat
         /\ Allow(used, n, elapsed) >= n
         /\ ~elapsed => Allow(used, n, elapsed) = used + n
         /\ elapsed => Allow(used, n, elapsed) = n
  BY DEF Allow

-----------------------------------------------------------------------------
(* Every step keeps every variable in its type, and every pipe that has    *)
(* been added with its agent.                                              *)
LEMMA TypeStep ==
  ASSUME TypeOK, Owned, [Next]_vars
  PROVE  TypeOK' /\ Owned'
<1> USE DEF LoopStates
<1>1. ASSUME NEW a \in AgentIDs, NEW p \in Pipes, AddPipe(a, p)
      PROVE  TypeOK' /\ Owned'
  BY <1>1 DEF AddPipe, TypeOK, Owned
<1>2. ASSUME NEW a \in AgentIDs, RemovePipe(a)
      PROVE  TypeOK' /\ Owned'
  BY <1>2 DEF RemovePipe, TypeOK, Owned
<1>3. CASE Cancel
  BY <1>3 DEF Cancel, TypeOK, Owned
<1>4. ASSUME NEW p \in Pipes, NEW elapsed \in BOOLEAN, PeekFlood(p, elapsed)
      PROVE  TypeOK' /\ Owned'
  <2>1. Allow(window[p], PeekBytes, elapsed) \in Nat
    BY AllowFacts, SwitchboardAssumption DEF TypeOK
  <2> QED
    BY <1>4, <2>1 DEF PeekFlood, TypeOK, Owned
<1>5. ASSUME NEW p \in Pipes, NEW elapsed \in BOOLEAN, ReadGarbage(p, elapsed)
      PROVE  TypeOK' /\ Owned'
  <2>1. Allow(window[p], PeekBytes, elapsed) \in Nat
    BY AllowFacts, SwitchboardAssumption DEF TypeOK
  <2>2. Tail(wire[p]) \in Seq(Frames \cup {Garbage})
    BY <1>5 DEF ReadGarbage, TypeOK
  <2> QED
    BY <1>5, <2>1, <2>2 DEF ReadGarbage, TypeOK, Owned
<1>6. ASSUME NEW p \in Pipes, NEW elapsed \in BOOLEAN, DropRewind(p, elapsed)
      PROVE  TypeOK' /\ Owned'
  <2> DEFINE used == Allow(window[p], PeekBytes, elapsed)
             g == Stamp(Head(wire[p]), owner[p])
  <2>1. used \in Nat
    BY AllowFacts, SwitchboardAssumption DEF TypeOK
  <2>2. Decode(p, g, used)
    BY <1>6 DEF DropRewind
  <2>3. g \in Frames /\ wire' \in [Pipes -> Seq(Frames \cup {Garbage})]
    BY <2>2, DecodeFacts
  <2>4. EmitRewind(CountOverwrite(p), g) \in Events
    BY <2>3, CountOverwriteFacts, EmitFacts DEF TypeOK
  <2> QED
    BY <1>6, <2>1, <2>2, <2>3, <2>4
    DEF DropRewind, TypeOK, Owned, NextIteration, Decode
<1>7. ASSUME NEW p \in Pipes, NEW elapsed \in BOOLEAN,
             NEW elapsed2 \in BOOLEAN, DropFlood(p, elapsed, elapsed2)
      PROVE  TypeOK' /\ Owned'
  <2> DEFINE used == Allow(window[p], PeekBytes, elapsed)
             g == Stamp(Head(wire[p]), owner[p])
             total == Allow(used, g.size, elapsed2)
  <2>1. used \in Nat
    BY AllowFacts, SwitchboardAssumption DEF TypeOK
  <2>2. Decode(p, g, used)
    BY <1>7 DEF DropFlood
  <2>3. /\ g \in Frames /\ wire' \in [Pipes -> Seq(Frames \cup {Garbage})]
        /\ g.seqNo \in Nat /\ g.size \in Nat
    BY <2>2, DecodeFacts
  <2>4. EmitFlood(CountOverwrite(p), g) \in Events
    BY <2>3, CountOverwriteFacts, EmitFacts DEF TypeOK
  <2>5. total \in Nat
    BY <2>1, <2>3, AllowFacts
  <2> QED
    BY <1>7, <2>2, <2>3, <2>4, <2>5
    DEF DropFlood, TypeOK, Owned, NextIteration, Decode
<1>8. ASSUME NEW p \in Pipes, NEW elapsed \in BOOLEAN,
             NEW elapsed2 \in BOOLEAN, Dispatch(p, elapsed, elapsed2)
      PROVE  TypeOK' /\ Owned'
  <2> DEFINE used == Allow(window[p], PeekBytes, elapsed)
             g == Stamp(Head(wire[p]), owner[p])
             total == Allow(used, g.size, elapsed2)
  <2>1. used \in Nat
    BY AllowFacts, SwitchboardAssumption DEF TypeOK
  <2>2. Decode(p, g, used)
    BY <1>8 DEF Dispatch
  <2>3. /\ g \in Frames /\ wire' \in [Pipes -> Seq(Frames \cup {Garbage})]
        /\ g.seqNo \in Nat /\ g.size \in Nat
    BY <2>2, DecodeFacts
  <2>4. CountOverwrite(p) \in Events
    BY CountOverwriteFacts DEF TypeOK
  <2>5. total \in Nat
    BY <2>1, <2>3, AllowFacts
  <2>6. Append(handled[p], g) \in Seq(Frames)
    BY <2>3 DEF TypeOK
  <2>7. (IF elapsed \/ elapsed2 THEN 0 ELSE passed[p]) + g.size \in Nat
    BY <2>3 DEF TypeOK
  <2> QED
    BY <1>8, <2>2, <2>3, <2>4, <2>5, <2>6, <2>7
    DEF Dispatch, TypeOK, Owned, Decode
<1>9. ASSUME NEW p \in Pipes, HandlerReturns(p)
      PROVE  TypeOK' /\ Owned'
  BY <1>9 DEF HandlerReturns, TypeOK, Owned, NextIteration
<1>10. ASSUME NEW p \in Pipes, Drain(p)
       PROVE  TypeOK' /\ Owned'
  <2>1. Tail(wire[p]) \in Seq(Frames \cup {Garbage})
    BY <1>10 DEF Drain, TypeOK
  <2> QED
    BY <1>10, <2>1 DEF Drain, routerVars, TypeOK, Owned
<1>11. ASSUME NEW p \in Pipes, PipeClosed(p)
       PROVE  TypeOK' /\ Owned'
  BY <1>11 DEF PipeClosed, TypeOK, Owned
<1>12. ASSUME NEW p \in Pipes, NEW x \in Frames \cup {Garbage}, Arrive(p, x)
       PROVE  TypeOK' /\ Owned'
  <2>1. Append(wire[p], x) \in Seq(Frames \cup {Garbage})
    BY DEF TypeOK
  <2> QED
    BY <1>12, <2>1 DEF Arrive, routerVars, TypeOK, Owned
<1>13. CASE UNCHANGED vars
  BY <1>13 DEF vars, routerVars, TypeOK, Owned
<1> QED
  BY <1>1, <1>2, <1>3, <1>4, <1>5, <1>6, <1>7, <1>8, <1>9, <1>10, <1>11,
     <1>12, <1>13 DEF Next, ReadStep

(* Type correctness, for any number of agents and pipes.                   *)
THEOREM TypeCorrect == Spec => [](TypeOK /\ Owned)
<1>1. Init => TypeOK /\ Owned
  <2>1. NoEvents \in Events
    BY DEF NoEvents, Events
  <2>2. <<>> \in Seq(Frames) /\ <<>> \in Seq(Frames \cup {Garbage})
    OBVIOUS
  <2>3. Init => /\ wire \in [Pipes -> Seq(Frames \cup {Garbage})]
                /\ handled \in [Pipes -> Seq(Frames)]
    BY <2>2 DEF Init
  <2>4. Init => security \in [Pipes -> Events] /\ loop \in [Pipes -> LoopStates]
    BY <2>1 DEF Init, LoopStates
  <2>5. Init => /\ owner \in [Pipes -> AgentIDs \cup {"none"}]
                /\ pipes \in [AgentIDs -> Pipes \cup {NoPipe}]
                /\ current \in [Pipes -> Frames \cup {NoFrame}]
    BY DEF Init
  <2>6. Init => /\ lastSeqNo \in [Pipes -> Nat] /\ window \in [Pipes -> Nat]
                /\ passed \in [Pipes -> Nat] /\ sent \in [Pipes -> Nat]
    BY DEF Init
  <2>7. Init => cancelled \in BOOLEAN
    BY Zenon DEF Init
  <2>8. Init => Owned
    BY DEF Init, Owned
  <2> QED
    BY <2>3, <2>4, <2>5, <2>6, <2>7, <2>8 DEF TypeOK
<1>2. TypeOK /\ Owned /\ [Next]_vars => (TypeOK /\ Owned)'
  BY TypeStep
<1> QED
  BY <1>1, <1>2, PTL DEF Spec

-----------------------------------------------------------------------------
(* Charging the limiter keeps its count above the bytes it let pass, with  *)
(* or without a new window, and never raises what passed.                  *)
LEMMA ChargeFacts ==
  ASSUME NEW w \in Nat, NEW b \in Nat, NEW n \in Nat, NEW elapsed \in BOOLEAN,
         b <= w, b <= Budget
  PROVE  /\ (IF elapsed THEN 0 ELSE b) \in Nat
         /\ (IF elapsed THEN 0 ELSE b) <= Allow(w, n, elapsed)
         /\ (IF elapsed THEN 0 ELSE b) + n <= Allow(w, n, elapsed)
         /\ (IF elapsed THEN 0 ELSE b) <= Budget
<1>1. CASE elapsed
  BY <1>1, SwitchboardAssumption DEF Allow
<1>2. CASE ~elapsed
  BY <1>2, SwitchboardAssumption DEF Allow
<1> QED
  BY <1>1, <1>2

(* The parts of the invariant as operators on values, so that a step is    *)
(* shown to keep them by the lemmas below rather than by expanding them.   *)
InOrder(h) ==
  \A i, j \in 1..Len(h) : i < j => h[i].seqNo < h[j].seqNo \/ h[i].seqNo = 0
Below(h, n) == \A i \in 1..Len(h) : h[i].seqNo <= n
From(h, a) == \A i \in 1..Len(h) : h[i].from = a
Apart(h, d) ==
  \A i \in 1..Len(h), j \in 1..Len(d) :
    d[j].seqNo > 0 => h[i].seqNo # d[j].seqNo

PipeInv(p) ==
  /\ loop[p] = "unused" =>
       /\ wire[p] = <<>> /\ handled[p] = <<>> /\ sent[p] = 0
       /\ security[p].rewound = <<>> /\ security[p].flooded = <<>>
  /\ InOrder(handled[p]) /\ Below(handled[p], lastSeqNo[p])
  /\ Below(security[p].flooded, lastSeqNo[p])
  /\ Apart(handled[p], security[p].flooded)
  /\ From(handled[p], owner[p])
  /\ passed[p] <= window[p] /\ passed[p] <= Budget
  /\ loop[p] \in {"reading", "handling"} =>
       sent[p] = Len(wire[p]) + Len(handled[p])
                 + Len(security[p].rewound) + Len(security[p].flooded)

LEMMA PipeInvIsIInv == (\A p \in Pipes : PipeInv(p)) <=>
  /\ Fresh /\ Accepted /\ HandledInOrder /\ NumberUsedOnce
  /\ Stamped /\ Charged /\ WithinBudget /\ AccountedFor
BY DEF PipeInv, Fresh, Accepted, HandledInOrder, NumberUsedOnce, Stamped,
       Charged, WithinBudget, AccountedFor, InOrder, Below, From, Apart

(* Appending a frame that is no rewind keeps the order and raises the      *)
(* bound to the frame's number.                                            *)
LEMMA AppendFacts ==
  ASSUME NEW h \in Seq(Frames), NEW g \in Frames, NEW n \in Nat,
         Below(h, n), g.seqNo > n \/ n = 0
  PROVE  /\ Below(Append(h, g), g.seqNo) /\ Below(h, g.seqNo)
         /\ InOrder(h) => InOrder(Append(h, g))
<1> DEFINE k == Append(h, g)
<1>1. /\ Len(h) \in Nat /\ Len(k) = Len(h) + 1
      /\ \A i \in 1..Len(h) : k[i] = h[i] /\ h[i] \in Frames
      /\ k[Len(h) + 1] = g
  OBVIOUS
<1>2. \A f \in Frames : f.seqNo \in Nat
  BY SwitchboardAssumption
<1> HIDE DEF k
<1>3. Below(h, g.seqNo)
  BY <1>1, <1>2 DEF Below
<1>4. Below(k, g.seqNo)
  BY <1>1, <1>2, <1>3 DEF Below
<1>5. ASSUME InOrder(h) PROVE InOrder(k)
  <2> SUFFICES ASSUME NEW i \in 1..Len(k), NEW j \in 1..Len(k), i < j
               PROVE  k[i].seqNo < k[j].seqNo \/ k[i].seqNo = 0
    BY DEF InOrder
  <2>1. CASE j = Len(h) + 1
    BY <1>1, <1>2, <2>1 DEF Below
  <2>2. CASE j \in 1..Len(h)
    BY <1>1, <1>5, <2>2 DEF InOrder
  <2> QED
    BY <1>1, <2>1, <2>2
<1> QED
  BY <1>3, <1>4, <1>5 DEF k

(* A frame whose number is above those accepted before, or still 0, is     *)
(* apart from all of them, whichever of the two sequences it joins.        *)
LEMMA AppendApart ==
  ASSUME NEW h \in Seq(Frames), NEW d \in Seq(Frames), NEW g \in Frames,
         NEW n \in Nat, Below(h, n), Below(d, n), g.seqNo > n \/ n = 0,
         Apart(h, d)
  PROVE  Apart(Append(h, g), d) /\ Apart(h, Append(d, g))
<1>1. /\ Len(h) \in Nat /\ Len(Append(h, g)) = Len(h) + 1
      /\ \A i \in 1..Len(h) : Append(h, g)[i] = h[i] /\ h[i] \in Frames
      /\ Append(h, g)[Len(h) + 1] = g
  OBVIOUS
<1>2. /\ Len(d) \in Nat /\ Len(Append(d, g)) = Len(d) + 1
      /\ \A i \in 1..Len(d) : Append(d, g)[i] = d[i] /\ d[i] \in Frames
      /\ Append(d, g)[Len(d) + 1] = g
  OBVIOUS
<1>3. \A f \in Frames : f.seqNo \in Nat
  BY SwitchboardAssumption
<1>4. Apart(Append(h, g), d)
  <2> SUFFICES ASSUME NEW i \in 1..Len(Append(h, g)), NEW j \in 1..Len(d),
                      d[j].seqNo > 0
               PROVE  Append(h, g)[i].seqNo # d[j].seqNo
    BY DEF Apart
  <2>1. CASE i = Len(h) + 1
    BY <1>1, <1>2, <1>3, <2>1 DEF Below
  <2>2. CASE i \in 1..Len(h)
    BY <1>1, <2>2 DEF Apart
  <2> QED
    BY <1>1, <2>1, <2>2
<1>5. Apart(h, Append(d, g))
  <2> SUFFICES ASSUME NEW i \in 1..Len(h), NEW j \in 1..Len(Append(d, g)),
                      Append(d, g)[j].seqNo > 0
               PROVE  h[i].seqNo # Append(d, g)[j].seqNo
    BY DEF Apart
  <2>1. CASE j = Len(d) + 1
    BY <1>1, <1>2, <1>3, <2>1 DEF Below
  <2>2. CASE j \in 1..Len(d)
    BY <1>2, <2>2 DEF Apart
  <2> QED
    BY <1>2, <2>1, <2>2
<1> QED
  BY <1>4, <1>5

LEMMA AppendFrom ==
  ASSUME NEW h \in Seq(Frames), NEW g \in Frames, NEW a, From(h, a), g.from = a
  PROVE  From(Append(h, g), a)
BY DEF From

(* A step that leaves a pipe's own state alone keeps its invariant.        *)
LEMMA PipeInvFrame ==
  ASSUME NEW p \in Pipes, PipeInv(p),
         loop'[p] = loop[p], wire'[p] = wire[p], handled'[p] = handled[p],
         security'[p] = security[p], lastSeqNo'[p] = lastSeqNo[p],
         owner'[p] = owner[p], passed'[p] = passed[p],
         window'[p] = window[p], sent'[p] = sent[p]
  PROVE  PipeInv(p)'
BY DEF PipeInv

(* Every step keeps the invariant of every pipe.                           *)
LEMMA PipeInvStep ==
  ASSUME TypeOK, Owned, \A p \in Pipes : PipeInv(p), [Next]_vars
  PROVE  \A p \in Pipes : PipeInv(p)'
<1>1. ASSUME NEW a \in AgentIDs, NEW p \in Pipes, AddPipe(a, p)
      PROVE  \A q \in Pipes : PipeInv(q)'
  <2>1. ASSUME NEW q \in Pipes \ {p} PROVE PipeInv(q)'
    BY <1>1, <2>1, PipeInvFrame DEF AddPipe, TypeOK
  <2>2. PipeInv(p)'
    <3>1. /\ UNCHANGED <<wire, handled, security, lastSeqNo, passed, window, sent>>
          /\ loop[p] = "unused" /\ loop'[p] # "unused"
      BY <1>1 DEF AddPipe, TypeOK
    <3>2. From(<<>>, owner'[p])
      BY DEF From
    <3>4. /\ wire[p] = <<>> /\ handled[p] = <<>> /\ sent[p] = 0
          /\ security[p].rewound = <<>> /\ security[p].flooded = <<>>
      BY <3>1 DEF PipeInv
    <3>3. sent'[p] = Len(wire'[p]) + Len(handled'[p])
                     + Len(security'[p].rewound) + Len(security'[p].flooded)
      BY <3>1, <3>4
    <3>5. From(handled'[p], owner'[p])
      BY <3>1, <3>2 DEF PipeInv
    <3> QED
      BY <3>1, <3>3, <3>5 DEF PipeInv
  <2> QED
    BY <2>1, <2>2
<1>2. ASSUME NEW a \in AgentIDs, RemovePipe(a)
      PROVE  \A q \in Pipes : PipeInv(q)'
  BY <1>2, PipeInvFrame DEF RemovePipe
<1>3. ASSUME Cancel
      PROVE  \A q \in Pipes : PipeInv(q)'
  BY <1>3, PipeInvFrame DEF Cancel
<1>4. ASSUME NEW p \in Pipes, NEW elapsed \in BOOLEAN, PeekFlood(p, elapsed)
      PROVE  \A q \in Pipes : PipeInv(q)'
  <2>1. ASSUME NEW q \in Pipes \ {p} PROVE PipeInv(q)'
    BY <1>4, <2>1, PipeInvFrame DEF PeekFlood, TypeOK
  <2>2. passed'[p] <= window'[p] /\ passed'[p] <= Budget
    <3>1. /\ passed'[p] = IF elapsed THEN 0 ELSE passed[p]
          /\ window'[p] = Allow(window[p], PeekBytes, elapsed)
      BY <1>4 DEF PeekFlood, TypeOK
    <3>2. /\ passed[p] \in Nat /\ window[p] \in Nat /\ PeekBytes \in Nat
          /\ passed[p] <= window[p] /\ passed[p] <= Budget
      BY SwitchboardAssumption DEF TypeOK, PipeInv
    <3> QED
      BY <3>1, <3>2, ChargeFacts
  <2>3. PipeInv(p)'
    BY <1>4, <2>2 DEF PeekFlood, TypeOK, PipeInv
  <2> QED
    BY <2>1, <2>3
<1>5. ASSUME NEW p \in Pipes, NEW elapsed \in BOOLEAN, ReadGarbage(p, elapsed)
      PROVE  \A q \in Pipes : PipeInv(q)'
  <2>1. ASSUME NEW q \in Pipes \ {p} PROVE PipeInv(q)'
    BY <1>5, <2>1, PipeInvFrame DEF ReadGarbage, TypeOK
  <2>2. passed'[p] <= window'[p] /\ passed'[p] <= Budget
    <3>1. /\ passed'[p] = IF elapsed THEN 0 ELSE passed[p]
          /\ window'[p] = Allow(window[p], PeekBytes, elapsed)
      BY <1>5 DEF ReadGarbage, TypeOK
    <3>2. /\ passed[p] \in Nat /\ window[p] \in Nat /\ PeekBytes \in Nat
          /\ passed[p] <= window[p] /\ passed[p] <= Budget
      BY SwitchboardAssumption DEF TypeOK, PipeInv
    <3> QED
      BY <3>1, <3>2, ChargeFacts
  <2>3. PipeInv(p)'
    BY <1>5, <2>2 DEF ReadGarbage, TypeOK, PipeInv
  <2> QED
    BY <2>1, <2>3
<1>6. ASSUME NEW p \in Pipes, NEW elapsed \in BOOLEAN, DropRewind(p, elapsed)
      PROVE  \A q \in Pipes : PipeInv(q)'
  <2> DEFINE used == Allow(window[p], PeekBytes, elapsed)
             g == Stamp(Head(wire[p]), owner[p])
  <2>1. Decode(p, g, used)
    BY <1>6 DEF DropRewind
  <2>2. /\ g \in Frames /\ \A q \in Pipes \ {p} : wire'[q] = wire[q]
        /\ Len(wire'[p]) = Len(wire[p]) - 1
    BY <2>1, DecodeFacts
  <2>3. ASSUME NEW q \in Pipes \ {p} PROVE PipeInv(q)'
    BY <1>6, <2>2, <2>3, PipeInvFrame DEF DropRewind, TypeOK
  <2>4. passed'[p] <= window'[p] /\ passed'[p] <= Budget
    <3>1. /\ passed'[p] = IF elapsed THEN 0 ELSE passed[p]
          /\ window'[p] = Allow(window[p], PeekBytes, elapsed)
      BY <1>6 DEF DropRewind, TypeOK
    <3>2. /\ passed[p] \in Nat /\ window[p] \in Nat /\ PeekBytes \in Nat
          /\ passed[p] <= window[p] /\ passed[p] <= Budget
      BY SwitchboardAssumption DEF TypeOK, PipeInv
    <3> QED
      BY <3>1, <3>2, ChargeFacts
  <2>5. /\ security'[p].flooded = security[p].flooded
        /\ security'[p].rewound = Append(security[p].rewound, g)
    <3>1. CountOverwrite(p) \in Events /\ CountOverwrite(p).flooded = security[p].flooded
          /\ CountOverwrite(p).rewound = security[p].rewound
      BY CountOverwriteFacts DEF TypeOK
    <3>2. security'[p] = EmitRewind(CountOverwrite(p), g)
      BY <1>6 DEF DropRewind, TypeOK
    <3> QED
      <4> HIDE DEF g
      <4> QED
        BY <2>2, <3>1, <3>2, EmitFacts
  <2>6. security[p].rewound \in Seq(Frames)
    BY DEF TypeOK, Events
  <2>7. Len(security'[p].rewound) = Len(security[p].rewound) + 1
    BY <2>2, <2>5, <2>6
  <2>8. loop[p] = "reading" /\ loop'[p] # "unused"
    BY <1>6, <2>1 DEF DropRewind, Decode, NextIteration, TypeOK
  <2>9. /\ handled' = handled /\ lastSeqNo' = lastSeqNo /\ owner' = owner
        /\ sent' = sent
    BY <1>6 DEF DropRewind
  <2>10. PipeInv(p)'
    <3>1. sent'[p] = Len(wire'[p]) + Len(handled'[p])
                     + Len(security'[p].rewound) + Len(security'[p].flooded)
      <4>1. sent[p] = Len(wire[p]) + Len(handled[p])
                      + Len(security[p].rewound) + Len(security[p].flooded)
        BY <2>8 DEF PipeInv
      <4>2. PICK w \in Nat, h \in Nat, r \in Nat, d \in Nat :
                  /\ Len(wire[p]) = w /\ Len(handled[p]) = h
                  /\ Len(security[p].rewound) = r /\ Len(security[p].flooded) = d
        <5>1. /\ wire[p] \in Seq(Frames \cup {Garbage}) /\ handled[p] \in Seq(Frames)
              /\ security[p].rewound \in Seq(Frames)
              /\ security[p].flooded \in Seq(Frames)
          BY DEF TypeOK, Events
        <5> QED
          BY SMTT(30), <5>1
      <4>3. sent[p] = w + h + r + d
        BY <4>1, <4>2
      <4>4. /\ sent'[p] = sent[p] /\ Len(wire'[p]) = w - 1
            /\ Len(handled'[p]) = h /\ Len(security'[p].rewound) = r + 1
            /\ Len(security'[p].flooded) = d
        BY <2>2, <2>5, <2>7, <2>9, <4>2
      <4> QED
        BY <4>3, <4>4
    <3> QED
      BY <2>4, <2>5, <2>8, <2>9, <3>1 DEF PipeInv
  <2> QED
    BY <2>3, <2>10
<1>7. ASSUME NEW p \in Pipes, NEW elapsed \in BOOLEAN,
             NEW elapsed2 \in BOOLEAN, DropFlood(p, elapsed, elapsed2)
      PROVE  \A q \in Pipes : PipeInv(q)'
  <2> DEFINE used == Allow(window[p], PeekBytes, elapsed)
             g == Stamp(Head(wire[p]), owner[p])
             total == Allow(used, g.size, elapsed2)
  <2>1. Decode(p, g, used)
    BY <1>7 DEF DropFlood
  <2>2. /\ g \in Frames /\ \A q \in Pipes \ {p} : wire'[q] = wire[q]
        /\ Len(wire'[p]) = Len(wire[p]) - 1
        /\ g.seqNo \in Nat /\ g.size \in Nat
    BY <2>1, DecodeFacts
  <2>3. ASSUME NEW q \in Pipes \ {p} PROVE PipeInv(q)'
    BY <1>7, <2>2, <2>3, PipeInvFrame DEF DropFlood, TypeOK
  <2>4. passed'[p] <= window'[p] /\ passed'[p] <= Budget
    <3>1. /\ passed[p] \in Nat /\ window[p] \in Nat /\ PeekBytes \in Nat
          /\ passed[p] <= window[p] /\ passed[p] <= Budget
      BY SwitchboardAssumption DEF TypeOK, PipeInv
    <3> DEFINE b1 == IF elapsed THEN 0 ELSE passed[p]
               b2 == IF elapsed2 THEN 0 ELSE b1
    <3>2. /\ passed'[p] = b2
          /\ window'[p] = total
      BY <1>7 DEF DropFlood, TypeOK, Within
    <3>3. used \in Nat /\ b1 \in Nat /\ b1 <= used /\ b1 <= Budget
      BY <3>1, ChargeFacts, AllowFacts
    <3>4. total \in Nat /\ b2 \in Nat /\ b2 <= total /\ b2 + g.size <= total
          /\ b2 <= Budget
      <4> HIDE DEF used, b1, g
      <4> QED
        BY <3>3, <2>2, ChargeFacts, AllowFacts
    <3>5. Budget \in Nat
      BY SwitchboardAssumption
    <3> HIDE DEF used, total, b1, b2, g
    <3> QED
      BY <3>2, <3>4, <3>5, <2>2
  <2>5. /\ security'[p].rewound = security[p].rewound
        /\ security'[p].flooded = Append(security[p].flooded, g)
    <3>1. CountOverwrite(p) \in Events /\ CountOverwrite(p).flooded = security[p].flooded
          /\ CountOverwrite(p).rewound = security[p].rewound
      BY CountOverwriteFacts DEF TypeOK
    <3>2. security'[p] = EmitFlood(CountOverwrite(p), g)
      BY <1>7 DEF DropFlood, TypeOK
    <3> QED
      <4> HIDE DEF g
      <4> QED
        BY <2>2, <3>1, <3>2, EmitFacts
  <2>6. /\ security[p].flooded \in Seq(Frames) /\ security[p].rewound \in Seq(Frames)
        /\ handled[p] \in Seq(Frames) /\ wire[p] \in Seq(Frames \cup {Garbage})
        /\ sent[p] \in Nat /\ lastSeqNo[p] \in Nat
    BY DEF TypeOK, Events
  <2>7. Len(security'[p].flooded) = Len(security[p].flooded) + 1
    BY <2>2, <2>5, <2>6
  <2>8. loop[p] = "reading" /\ loop'[p] # "unused"
    BY <1>7, <2>1 DEF DropFlood, Decode, NextIteration, TypeOK
  <2>9. /\ handled' = handled /\ owner' = owner /\ sent' = sent
        /\ lastSeqNo'[p] = g.seqNo
        /\ (g.seqNo > lastSeqNo[p] \/ lastSeqNo[p] = 0)
    BY <1>7, <2>2, <2>6 DEF DropFlood, Rewinds, TypeOK
  <2>10. \A f \in Frames : f.seqNo \in Nat
    BY SwitchboardAssumption
  <2> HIDE DEF g, used, total
  <2>11. sent'[p] = Len(wire'[p]) + Len(handled'[p])
                    + Len(security'[p].rewound) + Len(security'[p].flooded)
    <3>1. sent[p] = Len(wire[p]) + Len(handled[p])
                    + Len(security[p].rewound) + Len(security[p].flooded)
      BY <2>8 DEF PipeInv
    <3>2. PICK w \in Nat, h \in Nat, r \in Nat, d \in Nat :
               /\ Len(wire[p]) = w /\ Len(handled[p]) = h
               /\ Len(security[p].rewound) = r /\ Len(security[p].flooded) = d
      BY <2>6
    <3>3. sent[p] = w + h + r + d
      BY <3>1, <3>2
    <3>4. /\ sent'[p] = sent[p] /\ Len(wire'[p]) = w - 1
          /\ Len(handled'[p]) = h /\ Len(security'[p].rewound) = r
          /\ Len(security'[p].flooded) = d + 1
      BY <2>2, <2>5, <2>7, <2>9, <3>2
    <3> QED
      BY <3>3, <3>4
  <2>12. Below(security'[p].flooded, lastSeqNo'[p])
    BY <2>2, <2>5, <2>6, <2>9, AppendFacts DEF PipeInv
  <2>13. Below(handled'[p], lastSeqNo'[p])
    BY <2>2, <2>6, <2>9, AppendFacts DEF PipeInv
  <2>14. Apart(handled'[p], security'[p].flooded)
    BY <2>2, <2>5, <2>6, <2>9, AppendApart DEF PipeInv
  <2>15. PipeInv(p)'
    BY <2>4, <2>8, <2>9, <2>11, <2>12, <2>13, <2>14 DEF PipeInv
  <2> QED
    BY <2>3, <2>15
<1>8. ASSUME NEW p \in Pipes, NEW elapsed \in BOOLEAN,
             NEW elapsed2 \in BOOLEAN, Dispatch(p, elapsed, elapsed2)
      PROVE  \A q \in Pipes : PipeInv(q)'
  <2> DEFINE used == Allow(window[p], PeekBytes, elapsed)
             g == Stamp(Head(wire[p]), owner[p])
             total == Allow(used, g.size, elapsed2)
  <2>1. Decode(p, g, used)
    BY <1>8 DEF Dispatch
  <2>2. /\ g \in Frames /\ \A q \in Pipes \ {p} : wire'[q] = wire[q]
        /\ Len(wire'[p]) = Len(wire[p]) - 1
        /\ g.seqNo \in Nat /\ g.size \in Nat /\ g.from = owner[p]
    BY <2>1, DecodeFacts
  <2>3. ASSUME NEW q \in Pipes \ {p} PROVE PipeInv(q)'
    <3>1. security'[q] = security[q]
      BY <1>8, <2>3 DEF Dispatch, TypeOK
    <3> QED
      BY <1>8, <2>2, <2>3, <3>1, PipeInvFrame DEF Dispatch, TypeOK
  <2>4. passed'[p] <= window'[p] /\ passed'[p] <= Budget
    <3>1. /\ passed[p] \in Nat /\ window[p] \in Nat /\ PeekBytes \in Nat
          /\ passed[p] <= window[p] /\ passed[p] <= Budget
      BY SwitchboardAssumption DEF TypeOK, PipeInv
    <3> DEFINE b1 == IF elapsed THEN 0 ELSE passed[p]
               b2 == IF elapsed2 THEN 0 ELSE b1
    <3>2. /\ passed'[p] = b2 + g.size
          /\ window'[p] = total /\ total <= Budget
      BY <1>8 DEF Dispatch, TypeOK, Within
    <3>3. used \in Nat /\ b1 \in Nat /\ b1 <= used /\ b1 <= Budget
      BY <3>1, ChargeFacts, AllowFacts
    <3>4. total \in Nat /\ b2 \in Nat /\ b2 <= total /\ b2 + g.size <= total
          /\ b2 <= Budget
      <4> HIDE DEF used, b1, g
      <4> QED
        BY <3>3, <2>2, ChargeFacts, AllowFacts
    <3>5. Budget \in Nat
      BY SwitchboardAssumption
    <3> HIDE DEF used, total, b1, b2, g
    <3> QED
      BY <3>2, <3>4, <3>5, <2>2
  <2>5. /\ security'[p].rewound = security[p].rewound
        /\ security'[p].flooded = security[p].flooded
        /\ handled'[p] = Append(handled[p], g)
    BY <1>8, <2>2, CountOverwriteFacts DEF Dispatch, TypeOK
  <2>6. /\ security[p].flooded \in Seq(Frames) /\ security[p].rewound \in Seq(Frames)
        /\ handled[p] \in Seq(Frames) /\ wire[p] \in Seq(Frames \cup {Garbage})
        /\ sent[p] \in Nat /\ lastSeqNo[p] \in Nat
    BY DEF TypeOK, Events
  <2>7. Len(handled'[p]) = Len(handled[p]) + 1
    BY <2>2, <2>5, <2>6
  <2>8. loop[p] = "reading" /\ loop'[p] # "unused"
    BY <1>8, <2>1 DEF Dispatch, Decode, TypeOK
  <2>9. /\ owner' = owner /\ sent' = sent /\ lastSeqNo'[p] = g.seqNo
        /\ (g.seqNo > lastSeqNo[p] \/ lastSeqNo[p] = 0)
    BY <1>8, <2>2, <2>6 DEF Dispatch, Rewinds, TypeOK
  <2>10. \A f \in Frames : f.seqNo \in Nat
    BY SwitchboardAssumption
  <2> HIDE DEF g, used, total
  <2>11. sent'[p] = Len(wire'[p]) + Len(handled'[p])
                    + Len(security'[p].rewound) + Len(security'[p].flooded)
    <3>1. sent[p] = Len(wire[p]) + Len(handled[p])
                    + Len(security[p].rewound) + Len(security[p].flooded)
      BY <2>8 DEF PipeInv
    <3>2. PICK w \in Nat, h \in Nat, r \in Nat, d \in Nat :
               /\ Len(wire[p]) = w /\ Len(handled[p]) = h
               /\ Len(security[p].rewound) = r /\ Len(security[p].flooded) = d
      BY <2>6
    <3>3. sent[p] = w + h + r + d
      BY <3>1, <3>2
    <3>4. /\ sent'[p] = sent[p] /\ Len(wire'[p]) = w - 1
          /\ Len(handled'[p]) = h + 1 /\ Len(security'[p].rewound) = r
          /\ Len(security'[p].flooded) = d
      BY <2>2, <2>5, <2>7, <2>9, <3>2
    <3> QED
      BY <3>3, <3>4
  <2>12. Below(security'[p].flooded, lastSeqNo'[p])
    BY <2>2, <2>5, <2>6, <2>9, AppendFacts DEF PipeInv
  <2>13. /\ Below(handled'[p], lastSeqNo'[p]) /\ InOrder(handled'[p])
         /\ From(handled'[p], owner'[p])
    BY <2>2, <2>5, <2>6, <2>9, AppendFacts, AppendFrom DEF PipeInv
  <2>14. Apart(handled'[p], security'[p].flooded)
    BY <2>2, <2>5, <2>6, <2>9, AppendApart DEF PipeInv
  <2>16. PipeInv(p)'
    BY <2>4, <2>8, <2>11, <2>12, <2>13, <2>14 DEF PipeInv
  <2> QED
    BY <2>3, <2>16
<1>9. ASSUME NEW p \in Pipes, HandlerReturns(p)
      PROVE  \A q \in Pipes : PipeInv(q)'
  <2>1. ASSUME NEW q \in Pipes \ {p} PROVE PipeInv(q)'
    BY <1>9, <2>1, PipeInvFrame DEF HandlerReturns, TypeOK
  <2>2. PipeInv(p)'
    BY <1>9 DEF HandlerReturns, NextIteration, TypeOK, PipeInv
  <2> QED
    BY <2>1, <2>2
<1>10. ASSUME NEW p \in Pipes, Drain(p)
       PROVE  \A q \in Pipes : PipeInv(q)'
  <2>1. ASSUME NEW q \in Pipes \ {p} PROVE PipeInv(q)'
    BY <1>10, <2>1, PipeInvFrame DEF Drain, routerVars, TypeOK
  <2>2. PipeInv(p)'
    BY <1>10 DEF Drain, routerVars, TypeOK, PipeInv
  <2> QED
    BY <2>1, <2>2
<1>11. ASSUME NEW p \in Pipes, PipeClosed(p)
       PROVE  \A q \in Pipes : PipeInv(q)'
  <2>1. ASSUME NEW q \in Pipes \ {p} PROVE PipeInv(q)'
    BY <1>11, <2>1, PipeInvFrame DEF PipeClosed, TypeOK
  <2>2. PipeInv(p)'
    BY <1>11 DEF PipeClosed, TypeOK, PipeInv
  <2> QED
    BY <2>1, <2>2
<1>12. ASSUME NEW p \in Pipes, NEW x \in Frames \cup {Garbage}, Arrive(p, x)
       PROVE  \A q \in Pipes : PipeInv(q)'
  <2>1. ASSUME NEW q \in Pipes \ {p} PROVE PipeInv(q)'
    BY <1>12, <2>1, PipeInvFrame DEF Arrive, routerVars, TypeOK
  <2>2. Len(wire'[p]) = Len(wire[p]) + 1 /\ sent'[p] = sent[p] + 1
    BY <1>12 DEF Arrive, TypeOK
  <2>3. loop[p] # "unused" /\ UNCHANGED routerVars
    BY <1>12 DEF Arrive
  <2>4. Len(wire[p]) \in Nat /\ sent[p] \in Nat
    BY DEF TypeOK
  <2>5. PipeInv(p)'
    <3>1. UNCHANGED <<loop, handled, security, lastSeqNo, owner, passed, window>>
      BY <2>3 DEF routerVars
    <3>2. PICK w \in Nat, h \in Nat, r \in Nat, d \in Nat :
               /\ Len(wire[p]) = w /\ Len(handled[p]) = h
               /\ Len(security[p].rewound) = r /\ Len(security[p].flooded) = d
      <4>1. /\ wire[p] \in Seq(Frames \cup {Garbage}) /\ handled[p] \in Seq(Frames)
            /\ security[p].rewound \in Seq(Frames)
            /\ security[p].flooded \in Seq(Frames)
        BY DEF TypeOK, Events
      <4> QED
        BY <4>1
    <3>3. loop[p] \in {"reading", "handling"} =>
            sent'[p] = Len(wire'[p]) + Len(handled[p])
                       + Len(security[p].rewound) + Len(security[p].flooded)
      <4>1. loop[p] \in {"reading", "handling"} =>
              sent[p] = Len(wire[p]) + Len(handled[p])
                        + Len(security[p].rewound) + Len(security[p].flooded)
        BY DEF PipeInv
      <4> QED
        BY <2>2, <3>2, <4>1
    <3> QED
      BY <2>3, <3>1, <3>3 DEF PipeInv
  <2> QED
    BY <2>1, <2>5
<1>13. CASE UNCHANGED vars
  BY <1>13, PipeInvFrame DEF vars, routerVars
<1> QED
  BY <1>1, <1>2, <1>3, <1>4, <1>5, <1>6, <1>7, <1>8, <1>9, <1>10, <1>11,
     <1>12, <1>13 DEF Next, ReadStep

(* The inductive invariant holds of every behaviour.                       *)
THEOREM Invariance == Spec => []IInv
<1>1. Init => \A p \in Pipes : PipeInv(p)
  <2> SUFFICES ASSUME Init, NEW p \in Pipes PROVE PipeInv(p)
    OBVIOUS
  <2>1. /\ loop[p] = "unused" /\ wire[p] = <<>> /\ handled[p] = <<>>
        /\ sent[p] = 0 /\ passed[p] = 0 /\ window[p] = 0
        /\ security[p].rewound = <<>> /\ security[p].flooded = <<>>
    BY DEF Init, NoEvents
  <2>2. \A n : InOrder(<<>>) /\ Below(<<>>, n) /\ Apart(<<>>, <<>>) /\ From(<<>>, n)
    BY DEF InOrder, Below, Apart, From
  <2> QED
    BY <2>1, <2>2, SwitchboardAssumption DEF PipeInv
<1>2. /\ TypeOK /\ Owned /\ (\A p \in Pipes : PipeInv(p)) /\ [Next]_vars
      => (\A p \in Pipes : PipeInv(p))'
  BY PipeInvStep
<1>3. TypeOK /\ Owned /\ (\A p \in Pipes : PipeInv(p)) => IInv
  BY PipeInvIsIInv DEF IInv
<1> QED
  BY <1>1, <1>2, <1>3, TypeCorrect, PTL DEF Spec

(* On every pipe the handlers are given frames in the order of their       *)
(* numbers, whatever a Ward writes (readLoop's rewind test).               *)
THEOREM Ordered == Spec => []HandledInOrder
BY Invariance, PTL DEF IInv

(* The number of a frame dropped for its size is never handled later.      *)
THEOREM UsedOnce == Spec => []NumberUsedOnce
BY Invariance, PTL DEF IInv

(* Handlers only ever see the identity keeperd gave to the pipe.           *)
THEOREM Identity == Spec => []Stamped
BY Invariance, PTL DEF IInv

(* What handlers are given in one window of the limiter fits its budget.   *)
THEOREM Budgeted == Spec => []WithinBudget
BY Invariance, PTL DEF IInv

(* A running loop has handled or reported every frame it took.             *)
THEOREM NothingLost == Spec => []AccountedFor
BY Invariance, PTL DEF IInv

(* Once the context is cancelled no loop goes back to reading.             *)
THEOREM CancelStops == Spec => NoNewIterationAfterCancel
<1> DEFINE Stops == \A p \in Pipes :
              cancelled /\ loop[p] # "reading" => loop'[p] # "reading"
<1>1. TypeOK /\ [Next]_vars => [Stops]_vars
  <2> SUFFICES ASSUME TypeOK, Next PROVE Stops
    OBVIOUS
  <2>1. ASSUME NEW a \in AgentIDs, NEW p \in Pipes, AddPipe(a, p) PROVE Stops
    BY <2>1 DEF AddPipe, TypeOK
  <2>2. ASSUME NEW a \in AgentIDs, RemovePipe(a) PROVE Stops
    BY <2>2 DEF RemovePipe
  <2>3. CASE Cancel
    BY <2>3 DEF Cancel
  <2>4. ASSUME NEW p \in Pipes, ReadStep(p) PROVE Stops
    BY <2>4 DEF ReadStep, PeekFlood, ReadGarbage, DropRewind, DropFlood,
                Dispatch, Decode, TypeOK
  <2>5. ASSUME NEW p \in Pipes, HandlerReturns(p) PROVE Stops
    BY <2>5 DEF HandlerReturns, NextIteration, TypeOK
  <2>6. ASSUME NEW p \in Pipes, Drain(p) PROVE Stops
    BY <2>6 DEF Drain, routerVars
  <2>7. ASSUME NEW p \in Pipes, PipeClosed(p) PROVE Stops
    BY <2>7 DEF PipeClosed, TypeOK
  <2>8. ASSUME NEW p \in Pipes, NEW x \in Frames \cup {Garbage}, Arrive(p, x)
        PROVE  Stops
    BY <2>8 DEF Arrive, routerVars
  <2> QED
    BY <2>1, <2>2, <2>3, <2>4, <2>5, <2>6, <2>7, <2>8 DEF Next
<1> QED
  BY <1>1, TypeCorrect, PTL DEF Spec, NoNewIterationAfterCancel

-----------------------------------------------------------------------------
(* CapabilityCalls.                                                        *)

(***************************************************************************)
(* The inductive invariant.  A request is in one place at a time, on the   *)
(* pipe or before the handler, until it is decided (Requests), so it is    *)
(* decided once; a number is that of one call of its Ward (Numbers), and   *)
(* every reply on its way back carries the verdict on a call that has the  *)
(* number of the one it is given to (Replies).                             *)
(***************************************************************************)
Sent ==
  [from : {Agent}, seqNo : Nat, size : {RequestSize}, kind : {"request"}, call : Calls]
    \cup [from : {Agent}, seqNo : Nat, size : {EventSize}, kind : {"event"}, call : {NoCall}]
Replied == [seqNo : Nat, verdict : Verdicts, call : Calls]

Shape ==
  /\ loop \in [Pipes -> LoopStates] /\ wire \in [Pipes -> Seq(Sent)]
  /\ current = [p \in Pipes |-> current[p]]
  /\ counter \in [Pipes -> Nat] /\ seqOf \in [Calls -> Nat]
  /\ pc \in [Calls -> CallStates]
  /\ verdict \in [Calls -> Verdicts \cup {"none"}]
  /\ outcome = [c \in Calls |-> outcome[c]]
  /\ mailbox \in [Calls -> Replied \cup {NoReply}]
  /\ delivering \in [Pipes -> Replied \cup {NoReply}]
  /\ reply \in [Pipes -> Replied \cup {NoReply}]
  /\ toWard \in [Pipes -> Seq(Replied)]
  /\ handler = [p \in Pipes |-> handler[p]]

Numbers ==
  /\ \A c \in Calls :
       /\ pc[c] = "idle" => seqOf[c] = 0
       /\ pc[c] # "idle" => 0 < seqOf[c] /\ seqOf[c] <= counter[WardOf(c)]
  /\ \A c, d \in Calls : WardOf(c) = WardOf(d) /\ seqOf[c] > 0 /\ seqOf[c] = seqOf[d] => c = d

Unwritten == {"idle", "allocated", "registered"}

Progress ==
  \A c \in Calls :
    /\ pc[c] \in Unwritten => verdict[c] = "none"
    /\ pc[c] \in Unwritten \cup {"waiting"} => outcome[c] = "none"

IsRequest(f) == f.kind = "request"
Undecided(p, f) ==
  /\ f.call \in Calls /\ WardOf(f.call) = p /\ f.seqNo = seqOf[f.call]
  /\ pc[f.call] \notin Unwritten /\ verdict[f.call] = "none" /\ outcome[f.call] # "pipe_error"

OnWire(p) ==
  /\ \A i \in 1..Len(wire[p]) : IsRequest(wire[p][i]) => Undecided(p, wire[p][i])
  /\ \A i, j \in 1..Len(wire[p]) :
       IsRequest(wire[p][i]) /\ IsRequest(wire[p][j]) /\ wire[p][i].call = wire[p][j].call
         => i = j

AtHandler(p) ==
  loop[p] = "handling" /\ IsRequest(current[p]) /\ handler[p] = "entry" =>
    /\ Undecided(p, current[p])
    /\ \A i \in 1..Len(wire[p]) : IsRequest(wire[p][i]) => wire[p][i].call # current[p].call

Requests == \A p \in Pipes : OnWire(p) /\ AtHandler(p)

Answers(r) ==
  /\ r.call \in Calls /\ seqOf[r.call] = r.seqNo /\ r.seqNo > 0
  /\ verdict[r.call] = r.verdict /\ r.verdict # "none"

Replies ==
  /\ \A p \in Pipes :
       /\ handler[p] # "entry" => loop[p] = "handling" /\ IsRequest(current[p]) /\ Answers(reply[p])
       /\ delivering[p] # NoReply => Answers(delivering[p])
       /\ \A i \in 1..Len(toWard[p]) : Answers(toWard[p][i])
  /\ \A c \in Calls : mailbox[c] # NoReply => Answers(mailbox[c]) /\ mailbox[c].seqNo = seqOf[c]

CallsInv == Shape /\ Numbers /\ Progress /\ Requests /\ Replies

-----------------------------------------------------------------------------
(* Sequences, element by element.                                          *)

(* What is in a sequence with one more element.                            *)
LEMMA AppendElements ==
  ASSUME NEW S, NEW s \in Seq(S), NEW x \in S
  PROVE  /\ Append(s, x) \in Seq(S)
         /\ \A i \in 1..Len(Append(s, x)) :
              \/ i \in 1..Len(s) /\ Append(s, x)[i] = s[i]
              \/ i = Len(s) + 1 /\ Append(s, x)[i] = x
OBVIOUS

(* What is in a sequence without its first element.                        *)
LEMMA TailElements ==
  ASSUME NEW S, NEW s \in Seq(S), s # <<>>
  PROVE  /\ Tail(s) \in Seq(S) /\ 1 \in 1..Len(s) /\ Head(s) = s[1] /\ Head(s) \in S
         /\ \A i \in 1..Len(Tail(s)) : i + 1 \in 1..Len(s) /\ i + 1 # 1 /\ Tail(s)[i] = s[i + 1]
OBVIOUS

-----------------------------------------------------------------------------
(* The invariant holds at the start.                                       *)
LEMMA InitInv == CInit => CallsInv
<1> SUFFICES ASSUME CInit PROVE CallsInv
  OBVIOUS
<1>1. Shape
  BY DEF CInit, Init, Shape, LoopStates, CallStates
<1>2. Numbers /\ Progress
  BY DEF CInit, Numbers, Progress
<1>3. Requests
  <2> SUFFICES ASSUME NEW p \in Pipes PROVE OnWire(p) /\ AtHandler(p)
    BY DEF Requests
  <2>1. wire[p] = <<>> /\ loop[p] = "unused"
    BY DEF CInit, Init
  <2> QED
    BY <2>1 DEF OnWire, AtHandler
<1>4. Replies
  <2>1. \A p \in Pipes : handler[p] = "entry" /\ delivering[p] = NoReply /\ toWard[p] = <<>>
    BY DEF CInit
  <2>2. \A c \in Calls : mailbox[c] = NoReply
    BY DEF CInit
  <2> QED
    BY <2>1, <2>2 DEF Replies
<1> QED
  BY <1>1, <1>2, <1>3, <1>4 DEF CallsInv

-----------------------------------------------------------------------------
(* What most steps leave alone.                                            *)

(* Requests stay what they are when a call only goes on.                   *)
LEMMA RequestsKept ==
  ASSUME CallsInv, UNCHANGED <<wire, loop, current, handler, verdict>>,
         \A c \in Calls : pc[c] \notin Unwritten => pc'[c] \notin Unwritten /\ seqOf'[c] = seqOf[c],
         \A c \in Calls : pc[c] \notin Unwritten /\ outcome'[c] = "pipe_error" => outcome[c] = "pipe_error"
  PROVE  Requests'
<1> SUFFICES ASSUME NEW p \in Pipes PROVE OnWire(p)' /\ AtHandler(p)'
  BY DEF Requests
<1>1. OnWire(p) /\ AtHandler(p)
  BY DEF CallsInv, Requests
<1>2. ASSUME NEW f, Undecided(p, f) PROVE Undecided(p, f)'
  BY <1>2 DEF Undecided
<1> QED
  BY <1>1, <1>2 DEF OnWire, AtHandler

(* A reply keeps its meaning: numbers and verdicts, once there, stay.      *)
LEMMA AnswersKept ==
  ASSUME NEW r, Answers(r),
         \A c \in Calls : seqOf[c] > 0 => seqOf'[c] = seqOf[c],
         \A c \in Calls : verdict[c] # "none" => verdict'[c] = verdict[c]
  PROVE  Answers(r)'
BY DEF Answers

(* Replies stay what they are when only numbers are given.                 *)
LEMMA RepliesKept ==
  ASSUME CallsInv, UNCHANGED <<loop, current, handler, reply, delivering, toWard, mailbox, verdict>>,
         \A c \in Calls : seqOf[c] > 0 => seqOf'[c] = seqOf[c]
  PROVE  Replies'
<1>1. ASSUME NEW r, Answers(r) PROVE Answers(r)'
  BY <1>1, AnswersKept
<1>2. ASSUME NEW c \in Calls, mailbox'[c] # NoReply
      PROVE  Answers(mailbox[c])' /\ mailbox'[c].seqNo = seqOf'[c]
  <2>1. Answers(mailbox[c]) /\ mailbox[c].seqNo = seqOf[c] /\ mailbox' = mailbox
    BY <1>2 DEF CallsInv, Replies
  <2>2. seqOf'[c] = seqOf[c]
    BY <2>1 DEF Answers
  <2> QED
    BY <1>1, <2>1, <2>2
<1>3. ASSUME NEW p \in Pipes
      PROVE  /\ handler'[p] # "entry" => loop'[p] = "handling" /\ IsRequest(current'[p]) /\ Answers(reply[p])'
             /\ delivering'[p] # NoReply => Answers(delivering[p])'
             /\ \A i \in 1..Len(toWard'[p]) : Answers(toWard[p][i])'
  BY <1>1 DEF CallsInv, Replies
<1> QED
  BY <1>2, <1>3 DEF Replies

-----------------------------------------------------------------------------
(* The Ward.                                                               *)

(* A new number is above all numbers of the Ward.                          *)
LEMMA AllocateInv == ASSUME CallsInv, NEW c \in Calls, WardOf(c) \in Pipes, Allocate(c) PROVE CallsInv'
<1> DEFINE n == counter[WardOf(c)] + 1
<1>1. pc[c] = "idle" /\ seqOf[c] = 0 /\ n \in Nat /\ n > 0
  BY DEF Allocate, CallsInv, Shape, Numbers
<1>2. /\ counter' = [counter EXCEPT ![WardOf(c)] = n] /\ seqOf' = [seqOf EXCEPT ![c] = n]
      /\ pc' = [pc EXCEPT ![c] = "allocated"]
  BY DEF Allocate, To, CallsInv, Shape
<1>3. UNCHANGED <<loop, wire, current, verdict, outcome, mailbox, delivering, reply, toWard, handler>>
  BY DEF Allocate, vars, routerVars, keeperVars
<1>4. \A d \in Calls : d # c => seqOf'[d] = seqOf[d] /\ pc'[d] = pc[d]
  BY <1>2 DEF CallsInv, Shape
<1>5. seqOf'[c] = n /\ pc'[c] = "allocated" /\ counter'[WardOf(c)] = n
  BY <1>2 DEF CallsInv, Shape
<1>6. \A d \in Calls : seqOf[d] \in Nat /\ (WardOf(d) = WardOf(c) => seqOf[d] <= counter[WardOf(c)])
  <2> SUFFICES ASSUME NEW d \in Calls
               PROVE  seqOf[d] \in Nat /\ (WardOf(d) = WardOf(c) => seqOf[d] <= counter[WardOf(c)])
    OBVIOUS
  <2>1. seqOf[d] \in Nat /\ counter[WardOf(c)] \in Nat
    BY DEF CallsInv, Shape
  <2>2. pc[d] = "idle" => seqOf[d] = 0
    BY DEF CallsInv, Numbers
  <2>3. pc[d] # "idle" => seqOf[d] <= counter[WardOf(d)]
    BY DEF CallsInv, Numbers
  <2> QED
    BY <2>1, <2>2, <2>3
<1>7. Shape'
  BY <1>1, <1>2, <1>3 DEF CallsInv, Shape, CallStates
<1> HIDE DEF n
<1>8. Numbers'
  <2>1. \A d \in Calls : /\ pc'[d] = "idle" => seqOf'[d] = 0
                         /\ pc'[d] # "idle" => 0 < seqOf'[d] /\ seqOf'[d] <= counter'[WardOf(d)]
    <3> SUFFICES ASSUME NEW d \in Calls
                 PROVE  /\ pc'[d] = "idle" => seqOf'[d] = 0
                        /\ pc'[d] # "idle" => 0 < seqOf'[d] /\ seqOf'[d] <= counter'[WardOf(d)]
      OBVIOUS
    <3>1. CASE d = c
      BY <3>1, <1>1, <1>5
    <3>2. CASE d # c
      <4>1. counter'[WardOf(d)] \in Nat /\ counter'[WardOf(d)] >= counter[WardOf(d)]
        BY <1>1, <1>2, CallsAssumption DEF CallsInv, Shape, n
      <4>2. pc[d] = "idle" => seqOf[d] = 0
        BY DEF CallsInv, Numbers
      <4>3. pc[d] # "idle" => 0 < seqOf[d] /\ seqOf[d] <= counter[WardOf(d)]
        BY DEF CallsInv, Numbers
      <4>4. counter[WardOf(d)] \in Nat /\ seqOf[d] \in Nat
        BY CallsAssumption DEF CallsInv, Shape
      <4> QED
        BY <3>2, <4>1, <4>2, <4>3, <4>4, <1>4
    <3> QED
      BY <3>1, <3>2
  <2>2. \A d, e \in Calls : WardOf(d) = WardOf(e) /\ seqOf'[d] > 0 /\ seqOf'[d] = seqOf'[e] => d = e
    <3>1. \A d \in Calls : d # c /\ WardOf(d) = WardOf(c) => seqOf'[d] # n
      BY <1>4, <1>6 DEF n, CallsInv, Shape
    <3> QED
      BY <3>1, <1>4, <1>5 DEF CallsInv, Numbers
  <2> QED
    BY <2>1, <2>2 DEF Numbers
<1>9. Progress'
  BY <1>1, <1>3, <1>4, <1>5 DEF CallsInv, Progress, Unwritten
<1>10. Requests'
  <2>1. \A d \in Calls : pc[d] \notin Unwritten => pc'[d] \notin Unwritten /\ seqOf'[d] = seqOf[d]
    BY <1>1, <1>4 DEF Unwritten
  <2> QED
    BY <2>1, <1>3, RequestsKept
<1>11. Replies'
  <2>1. \A d \in Calls : seqOf[d] > 0 => seqOf'[d] = seqOf[d]
    BY <1>1, <1>4
  <2> QED
    BY <2>1, <1>3, RepliesKept
<1> QED
  BY <1>7, <1>8, <1>9, <1>10, <1>11 DEF CallsInv

(* A call that goes on without a frame on the pipe.                        *)
LEMMA GoesOn ==
  ASSUME CallsInv, NEW c \in Calls, NEW q \in CallStates, pc' = [pc EXCEPT ![c] = q],
         UNCHANGED <<loop, wire, current, counter, seqOf, verdict, delivering, reply, toWard, handler>>,
         pc[c] # "idle" /\ q # "idle",
         q \in Unwritten \cup {"waiting"} => pc[c] \in Unwritten /\ q \in Unwritten,
         outcome' = [d \in Calls |-> outcome'[d]],
         \A d \in Calls : d = c \/ outcome'[d] = outcome[d],
         q \in Unwritten => outcome' = outcome,
         \A d \in Calls : pc[d] \notin Unwritten /\ outcome'[d] = "pipe_error" => outcome[d] = "pipe_error",
         \A d \in Calls : mailbox'[d] \in {mailbox[d], NoReply},
         mailbox' = [d \in Calls |-> mailbox'[d]]
  PROVE  CallsInv'
<1>1. \A d \in Calls : d # c => pc'[d] = pc[d]
  BY DEF CallsInv, Shape
<1>2. pc'[c] = q
  BY DEF CallsInv, Shape
<1>3. Shape'
  BY DEF CallsInv, Shape
<1>4. Numbers'
  BY <1>1, <1>2 DEF CallsInv, Numbers
<1>5. Progress'
  BY <1>1, <1>2 DEF CallsInv, Progress
<1>6. Requests'
  <2>1. \A d \in Calls : pc[d] \notin Unwritten => pc'[d] \notin Unwritten
    BY <1>1, <1>2
  <2> QED
    BY <2>1, RequestsKept
<1>7. Replies'
  BY AnswersKept DEF CallsInv, Replies
<1> QED
  BY <1>3, <1>4, <1>5, <1>6, <1>7 DEF CallsInv

(* Registering a channel, ...                                              *)
LEMMA RegisterInv == ASSUME CallsInv, NEW c \in Calls, Register(c) PROVE CallsInv'
<1>1. pc[c] = "allocated" /\ pc' = [pc EXCEPT ![c] = "registered"]
  BY DEF Register, To
<1>2. UNCHANGED <<loop, wire, current, counter, seqOf, verdict, delivering, reply, toWard, handler,
                  outcome, mailbox>>
  BY DEF Register, vars, routerVars, keeperVars
<1>3. outcome' = [d \in Calls |-> outcome'[d]] /\ mailbox' = [d \in Calls |-> mailbox'[d]]
  BY <1>2 DEF CallsInv, Shape
<1> QED
  BY <1>1, <1>2, <1>3, GoesOn DEF CallStates, Unwritten

(* ... not getting the request onto the pipe, ...                          *)
LEMMA TransmitFailsInv == ASSUME CallsInv, NEW c \in Calls, TransmitFails(c) PROVE CallsInv'
<1>1. pc[c] = "registered" /\ pc' = [pc EXCEPT ![c] = "returning"]
  BY DEF TransmitFails, To
<1>2. UNCHANGED <<loop, wire, current, counter, seqOf, verdict, delivering, reply, toWard, handler,
                  mailbox>>
  BY DEF TransmitFails, vars, routerVars, keeperVars
<1>3. /\ outcome' = [d \in Calls |-> outcome'[d]] /\ \A d \in Calls : d = c \/ outcome'[d] = outcome[d]
      /\ mailbox' = [d \in Calls |-> mailbox'[d]]
  BY DEF TransmitFails, CallsInv, Shape
<1>4. \A d \in Calls : pc[d] \notin Unwritten /\ outcome'[d] = "pipe_error" => outcome[d] = "pipe_error"
  BY <1>1, <1>3 DEF Unwritten
<1> QED
  BY <1>1, <1>2, <1>3, <1>4, GoesOn DEF CallStates, Unwritten

(* ... taking a reply from it, ...                                         *)
LEMMA ReceiveInv == ASSUME CallsInv, NEW c \in Calls, Receive(c) PROVE CallsInv'
<1>1. pc[c] = "waiting" /\ pc' = [pc EXCEPT ![c] = "returning"]
  BY DEF Receive, To
<1>2. UNCHANGED <<loop, wire, current, counter, seqOf, verdict, delivering, reply, toWard, handler>>
  BY DEF Receive, vars, routerVars, keeperVars
<1>3. /\ outcome' = [d \in Calls |-> outcome'[d]] /\ \A d \in Calls : d = c \/ outcome'[d] = outcome[d]
      /\ mailbox' = [d \in Calls |-> mailbox'[d]] /\ \A d \in Calls : mailbox'[d] \in {mailbox[d], NoReply}
  BY DEF Receive, CallsInv, Shape
<1>4. \A d \in Calls : pc[d] \notin Unwritten /\ outcome'[d] = "pipe_error" => outcome[d] = "pipe_error"
  <2>1. outcome'[c] = Told(mailbox[c].verdict) /\ mailbox[c] \in Replied
    BY DEF Receive, CallsInv, Shape
  <2>2. outcome'[c] # "pipe_error"
    BY <2>1 DEF Told, Replied, Verdicts
  <2> QED
    BY <2>2, <1>3
<1> QED
  BY <1>1, <1>2, <1>3, <1>4, GoesOn DEF CallStates, Unwritten

(* ... giving up ...                                                       *)
LEMMA TimeOutInv == ASSUME CallsInv, NEW c \in Calls, TimeOut(c) PROVE CallsInv'
<1>1. pc[c] = "waiting" /\ pc' = [pc EXCEPT ![c] = "returning"]
  BY DEF TimeOut, To
<1>2. UNCHANGED <<loop, wire, current, counter, seqOf, verdict, delivering, reply, toWard, handler,
                  mailbox>>
  BY DEF TimeOut, vars, routerVars, keeperVars
<1>3. /\ outcome' = [d \in Calls |-> outcome'[d]] /\ \A d \in Calls : d = c \/ outcome'[d] = outcome[d]
      /\ mailbox' = [d \in Calls |-> mailbox'[d]]
  BY DEF TimeOut, CallsInv, Shape
<1>4. \A d \in Calls : pc[d] \notin Unwritten /\ outcome'[d] = "pipe_error" => outcome[d] = "pipe_error"
  <2>1. outcome'[c] = "timeout"
    BY DEF TimeOut, CallsInv, Shape
  <2> QED
    BY <2>1, <1>3
<1> QED
  BY <1>1, <1>2, <1>3, <1>4, GoesOn DEF CallStates, Unwritten

(* ... and returning touch no frame and no reply.                          *)
LEMMA ReturnInv == ASSUME CallsInv, NEW c \in Calls, Return(c) PROVE CallsInv'
<1>1. pc[c] = "returning" /\ pc' = [pc EXCEPT ![c] = "done"]
  BY DEF Return, To
<1>2. UNCHANGED <<loop, wire, current, counter, seqOf, verdict, delivering, reply, toWard, handler,
                  outcome, mailbox>>
  BY DEF Return, vars, routerVars, keeperVars
<1>3. outcome' = [d \in Calls |-> outcome'[d]] /\ mailbox' = [d \in Calls |-> mailbox'[d]]
  BY <1>2 DEF CallsInv, Shape
<1> QED
  BY <1>1, <1>2, <1>3, GoesOn DEF CallStates, Unwritten

(* The request gets onto the pipe, where none of this call is yet.         *)
LEMMA TransmitInv == ASSUME CallsInv, NEW c \in Calls, WardOf(c) \in Pipes, Transmit(c) PROVE CallsInv'
<1> DEFINE w == WardOf(c)
           f == Request(c)
<1>1. pc[c] = "registered" /\ pc' = [pc EXCEPT ![c] = "waiting"] /\ wire' = [wire EXCEPT ![w] = Append(wire[w], f)]
  BY DEF Transmit, To, Arrive, CallsInv, Shape
<1>2. UNCHANGED <<loop, current, counter, seqOf, verdict, outcome, mailbox, delivering, reply, toWard, handler>>
  BY DEF Transmit, Arrive, routerVars, keeperVars
<1>3. f \in Sent /\ f.call = c /\ f.seqNo = seqOf[c] /\ IsRequest(f) /\ f' = f
  BY <1>2 DEF Request, Sent, IsRequest, CallsInv, Shape
<1>4. wire[w] \in Seq(Sent)
  BY DEF CallsInv, Shape
<1> HIDE DEF f
<1>5. /\ Append(wire[w], f) \in Seq(Sent)
      /\ \A i \in 1..Len(Append(wire[w], f)) :
           \/ i \in 1..Len(wire[w]) /\ Append(wire[w], f)[i] = wire[w][i]
           \/ i = Len(wire[w]) + 1 /\ Append(wire[w], f)[i] = f
  BY <1>3, <1>4, AppendElements
<1>6. \A d \in Calls : d # c => pc'[d] = pc[d]
  BY <1>1 DEF CallsInv, Shape
<1>7. pc'[c] = "waiting"
  BY <1>1 DEF CallsInv, Shape
<1>8. Shape'
  BY <1>1, <1>2, <1>5 DEF CallsInv, Shape, CallStates
<1>9. Numbers' /\ Progress'
  <2>1. Numbers'
    BY <1>1, <1>2, <1>6, <1>7 DEF CallsInv, Numbers
  <2>2. Progress'
    BY <1>1, <1>2, <1>6, <1>7 DEF CallsInv, Progress, Unwritten
  <2> QED
    BY <2>1, <2>2
<1>10. Requests'
  <2> SUFFICES ASSUME NEW p \in Pipes PROVE OnWire(p)' /\ AtHandler(p)'
    BY DEF Requests
  <2>1. OnWire(p) /\ AtHandler(p)
    BY DEF CallsInv, Requests
  <2>2. ASSUME NEW g, Undecided(p, g) PROVE Undecided(p, g)' /\ g.call # c
    BY <2>2, <1>1, <1>2, <1>6 DEF Undecided, Unwritten
  <2>3. CASE p # w
    <3>1. wire'[p] = wire[p]
      BY <2>3, <1>1 DEF CallsInv, Shape
    <3> QED
      BY <3>1, <2>1, <2>2, <1>2 DEF OnWire, AtHandler
  <2>4. CASE p = w
    <3>1. Undecided(w, f)'
      <4>1. verdict'[c] = "none" /\ outcome'[c] = "none"
        BY <1>1, <1>2 DEF Unwritten, CallsInv, Progress
      <4> QED
        BY <4>1, <1>2, <1>3, <1>7 DEF Undecided, Unwritten
    <3>2. /\ Len(wire'[w]) = Len(Append(wire[w], f))
          /\ \A i \in 1..Len(wire'[w]) :
               \/ i \in 1..Len(wire[w]) /\ wire'[w][i] = wire[w][i]
               \/ i = Len(wire[w]) + 1 /\ wire'[w][i] = f
      BY <1>1, <1>5 DEF CallsInv, Shape
    <3>3. \A i \in 1..Len(wire[w]) : IsRequest(wire[w][i]) => wire[w][i].call # c
      BY <2>1, <2>2, <2>4 DEF OnWire
    <3>4. OnWire(w)'
      <4>1. ASSUME NEW i \in 1..Len(wire'[w]), IsRequest(wire'[w][i]) PROVE Undecided(w, wire[w][i])'
        <5>1. CASE i \in 1..Len(wire[w]) /\ wire'[w][i] = wire[w][i]
          <6>1. Undecided(w, wire[w][i])
            BY <4>1, <5>1, <2>1, <2>4 DEF OnWire
          <6> QED
            BY <5>1, <6>1, <3>3, <4>1, <1>2, <1>6 DEF Undecided
        <5>2. CASE wire'[w][i] = f
          BY <5>2, <3>1, <1>3 DEF Undecided
        <5> QED
          BY <3>2, <5>1, <5>2
      <4>2. \A i, j \in 1..Len(wire'[w]) :
              IsRequest(wire'[w][i]) /\ IsRequest(wire'[w][j])
                /\ wire'[w][i].call = wire'[w][j].call => i = j
        <5>1. \A i \in 1..Len(wire'[w]) : IsRequest(wire'[w][i]) =>
                 \/ i \in 1..Len(wire[w]) /\ wire'[w][i] = wire[w][i] /\ wire'[w][i].call # c
                 \/ i = Len(wire[w]) + 1 /\ wire'[w][i].call = c
          BY <3>2, <3>3, <1>3
        <5> HIDE DEF w
        <5>2. \A i, j \in 1..Len(wire[w]) :
                IsRequest(wire[w][i]) /\ IsRequest(wire[w][j]) /\ wire[w][i].call = wire[w][j].call => i = j
          BY <2>1, <2>4 DEF OnWire
        <5> SUFFICES ASSUME NEW i \in 1..Len(wire'[w]), NEW j \in 1..Len(wire'[w]),
                            IsRequest(wire'[w][i]), IsRequest(wire'[w][j]),
                            wire'[w][i].call = wire'[w][j].call
                     PROVE  i = j
          OBVIOUS
        <5>3. CASE wire'[w][i].call = c
          BY <5>1, <5>3
        <5>4. CASE wire'[w][i].call # c
          <6>1. /\ i \in 1..Len(wire[w]) /\ wire'[w][i] = wire[w][i]
                /\ j \in 1..Len(wire[w]) /\ wire'[w][j] = wire[w][j]
            BY <5>1, <5>4
          <6> QED
            BY <5>2, <6>1
        <5> QED
          BY <5>3, <5>4
      <4> QED
        BY <4>1, <4>2 DEF OnWire
    <3>5. AtHandler(w)'
      BY <2>1, <2>2, <2>4, <3>2, <1>2, <1>3 DEF AtHandler
    <3> QED
      BY <2>4, <3>4, <3>5
  <2> QED
    BY <2>3, <2>4
<1>11. Replies'
  BY <1>2, RepliesKept
<1> QED
  BY <1>8, <1>9, <1>10, <1>11 DEF CallsInv

(* An event is no request.                                                 *)
LEMMA SendEventInv == ASSUME CallsInv, NEW w \in Pipes, SendEvent(w) PROVE CallsInv'
<1> DEFINE f == Event(counter[w] + 1)
<1>1. /\ wire' = [wire EXCEPT ![w] = Append(wire[w], f)]
      /\ counter' = [counter EXCEPT ![w] = counter[w] + 1]
  BY DEF SendEvent, Arrive, CallsInv, Shape
<1>2. UNCHANGED <<loop, current, seqOf, pc, verdict, outcome, mailbox, delivering, reply, toWard, handler>>
  BY DEF SendEvent, Arrive, routerVars, keeperVars
<1>3. f \in Sent /\ ~IsRequest(f) /\ wire[w] \in Seq(Sent)
  BY DEF Event, Sent, IsRequest, CallsInv, Shape
<1> HIDE DEF f
<1>4. /\ Append(wire[w], f) \in Seq(Sent)
      /\ \A i \in 1..Len(Append(wire[w], f)) :
           \/ i \in 1..Len(wire[w]) /\ Append(wire[w], f)[i] = wire[w][i]
           \/ i = Len(wire[w]) + 1 /\ Append(wire[w], f)[i] = f
  BY <1>3, AppendElements
<1>5. Shape'
  BY <1>1, <1>2, <1>4 DEF CallsInv, Shape
<1>6. Numbers' /\ Progress'
  <2>1. \A p \in Pipes : counter'[p] >= counter[p] /\ counter[p] \in Nat /\ counter'[p] \in Nat
    BY <1>1 DEF CallsInv, Shape
  <2>2. \A c \in Calls : pc[c] # "idle" => seqOf[c] <= counter'[WardOf(c)]
    BY <2>1, CallsAssumption DEF CallsInv, Shape, Numbers
  <2>3. Numbers'
    BY <2>2, <1>2 DEF CallsInv, Numbers
  <2> QED
    BY <2>3, <1>2 DEF CallsInv, Progress
<1>7. Requests'
  <2> SUFFICES ASSUME NEW p \in Pipes PROVE OnWire(p)' /\ AtHandler(p)'
    BY DEF Requests
  <2>1. OnWire(p) /\ AtHandler(p)
    BY DEF CallsInv, Requests
  <2>2. ASSUME NEW g, Undecided(p, g) PROVE Undecided(p, g)'
    BY <2>2, <1>2 DEF Undecided
  <2>3. \A i \in 1..Len(wire'[p]) : IsRequest(wire'[p][i]) => i \in 1..Len(wire[p]) /\ wire'[p][i] = wire[p][i]
    <3>1. CASE p = w
      BY <3>1, <1>1, <1>3, <1>4 DEF CallsInv, Shape
    <3>2. CASE p # w
      BY <3>2, <1>1 DEF CallsInv, Shape
    <3> QED
      BY <3>1, <3>2
  <2> QED
    BY <2>1, <2>2, <2>3, <1>2 DEF OnWire, AtHandler
<1>8. Replies'
  BY <1>2, RepliesKept
<1> QED
  BY <1>5, <1>6, <1>7, <1>8 DEF CallsInv

(* One that is not sent only uses its number up.                           *)
LEMMA SendEventFailsInv == ASSUME CallsInv, NEW w \in Pipes, SendEventFails(w) PROVE CallsInv'
<1>1. counter' = [counter EXCEPT ![w] = counter[w] + 1]
  BY DEF SendEventFails
<1>2. UNCHANGED <<loop, wire, current, seqOf, pc, verdict, outcome, mailbox, delivering, reply, toWard, handler>>
  BY DEF SendEventFails, vars, routerVars, keeperVars
<1>3. Shape'
  BY <1>1, <1>2 DEF CallsInv, Shape
<1>4. Numbers' /\ Progress'
  <2>1. \A p \in Pipes : counter'[p] >= counter[p] /\ counter[p] \in Nat /\ counter'[p] \in Nat
    BY <1>1 DEF CallsInv, Shape
  <2>2. \A c \in Calls : pc[c] # "idle" => seqOf[c] <= counter'[WardOf(c)]
    BY <2>1, CallsAssumption DEF CallsInv, Shape, Numbers
  <2>3. Numbers'
    BY <2>2, <1>2 DEF CallsInv, Numbers
  <2> QED
    BY <2>3, <1>2 DEF CallsInv, Progress
<1>5. Requests'
  BY <1>2, RequestsKept
<1>6. Replies'
  BY <1>2, RepliesKept
<1> QED
  BY <1>3, <1>4, <1>5, <1>6 DEF CallsInv

(* The run loop takes a reply off the pipe.                                *)
LEMMA TakeReplyInv == ASSUME CallsInv, NEW p \in Pipes, TakeReply(p) PROVE CallsInv'
<1> DEFINE r == Head(toWard[p])
<1>1. /\ toWard[p] # <<>> /\ toWard' = [toWard EXCEPT ![p] = Tail(toWard[p])]
      /\ \E x \in {r, NoReply} : delivering' = [delivering EXCEPT ![p] = x]
  BY DEF TakeReply
<1>2. UNCHANGED <<loop, wire, current, counter, seqOf, pc, verdict, outcome, mailbox, reply, handler>>
  BY DEF TakeReply, vars, routerVars, keeperVars
<1>3. /\ Tail(toWard[p]) \in Seq(Replied) /\ 1 \in 1..Len(toWard[p]) /\ r = toWard[p][1] /\ r \in Replied
      /\ \A i \in 1..Len(Tail(toWard[p])) : i + 1 \in 1..Len(toWard[p]) /\ Tail(toWard[p])[i] = toWard[p][i + 1]
  BY <1>1, TailElements DEF CallsInv, Shape
<1>4. Answers(r)
  BY <1>3 DEF CallsInv, Replies
<1> HIDE DEF r
<1>5. Shape'
  BY <1>1, <1>2, <1>3 DEF CallsInv, Shape
<1>6. Numbers' /\ Progress'
  BY <1>2 DEF CallsInv, Numbers, Progress
<1>7. Requests'
  BY <1>2, RequestsKept
<1>8. Replies'
  <2>1. ASSUME NEW x, Answers(x) PROVE Answers(x)'
    BY <1>2, <2>1, AnswersKept
  <2>2. \A q \in Pipes : delivering'[q] # NoReply => Answers(delivering[q])'
    BY <1>1, <1>4, <2>1 DEF CallsInv, Shape, Replies
  <2>3. \A q \in Pipes : \A i \in 1..Len(toWard'[q]) : Answers(toWard[q][i])'
    <3> SUFFICES ASSUME NEW q \in Pipes, NEW i \in 1..Len(toWard'[q]) PROVE Answers(toWard[q][i])'
      OBVIOUS
    <3>1. CASE q = p
      <4>1. toWard'[q] = Tail(toWard[p])
        BY <3>1, <1>1 DEF CallsInv, Shape
      <4>2. i + 1 \in 1..Len(toWard[p]) /\ toWard'[q][i] = toWard[p][i + 1]
        BY <4>1, <1>3
      <4>3. Answers(toWard[p][i + 1])
        BY <4>2 DEF CallsInv, Replies
      <4> QED
        BY <4>2, <4>3, <2>1
    <3>2. CASE q # p
      BY <3>2, <1>1, <2>1 DEF CallsInv, Shape, Replies
    <3> QED
      BY <3>1, <3>2
  <2> QED
    BY <2>1, <2>2, <2>3, <1>2 DEF CallsInv, Replies
<1> QED
  BY <1>5, <1>6, <1>7, <1>8 DEF CallsInv

(* The reply is given to a call with its number.                           *)
LEMMA DeliverInv == ASSUME CallsInv, NEW p \in Pipes, Deliver(p) PROVE CallsInv'
<1> DEFINE r == delivering[p]
<1>1. /\ r # NoReply /\ delivering' = [delivering EXCEPT ![p] = NoReply]
      /\ mailbox' = [c \in Calls |-> IF WardOf(c) = p /\ seqOf[c] = r.seqNo /\ mailbox[c] = NoReply
                                       THEN r ELSE mailbox[c]]
  BY DEF Deliver
<1>2. UNCHANGED <<loop, wire, current, counter, seqOf, pc, verdict, outcome, toWard, reply, handler>>
  BY DEF Deliver, vars, routerVars, keeperVars
<1>3. Answers(r) /\ r \in Replied
  BY <1>1 DEF CallsInv, Shape, Replies
<1>4. \A c \in Calls : mailbox'[c] = mailbox[c] \/ (mailbox'[c] = r /\ r.seqNo = seqOf[c])
  BY <1>1
<1> HIDE DEF r
<1>5. Shape'
  BY <1>1, <1>2, <1>3 DEF CallsInv, Shape
<1>6. Numbers' /\ Progress'
  BY <1>2 DEF CallsInv, Numbers, Progress
<1>7. Requests'
  BY <1>2, RequestsKept
<1>8. Replies'
  <2>1. ASSUME NEW x, Answers(x) PROVE Answers(x)'
    BY <1>2, <2>1, AnswersKept
  <2>2. \A c \in Calls : mailbox'[c] # NoReply => Answers(mailbox[c])' /\ mailbox'[c].seqNo = seqOf'[c]
    BY <1>2, <1>3, <1>4, <2>1 DEF CallsInv, Replies
  <2>3. \A q \in Pipes : delivering'[q] # NoReply => Answers(delivering[q])'
    BY <1>1, <2>1 DEF CallsInv, Shape, Replies
  <2> QED
    BY <2>1, <2>2, <2>3, <1>2 DEF CallsInv, Replies
<1> QED
  BY <1>5, <1>6, <1>7, <1>8 DEF CallsInv

-----------------------------------------------------------------------------
(* keeperd.                                                                *)

(* The router takes a frame off the pipe, or leaves it; it is the one      *)
(* given to the handler, if any is.                                        *)
LEMMA RouteFacts ==
  ASSUME Shape, NEW p \in Pipes, ReadStep(p) \/ Drain(p)
  PROVE  /\ \A q \in Pipes : q # p => wire'[q] = wire[q] /\ loop'[q] = loop[q] /\ current'[q] = current[q]
         /\ wire' = [wire EXCEPT ![p] = wire'[p]]
         /\ wire'[p] = wire[p] \/ (wire[p] # <<>> /\ wire'[p] = Tail(wire[p]))
         /\ loop'[p] = "handling" => /\ wire[p] # <<>> /\ wire'[p] = Tail(wire[p])
                                     /\ current'[p] = Stamp(Head(wire[p]), owner[p])
         /\ loop[p] # "handling"
         /\ loop' \in [Pipes -> LoopStates] /\ current' = [q \in Pipes |-> current'[q]]
<1>1. CASE \E e \in BOOLEAN : PeekFlood(p, e)
  BY <1>1 DEF Shape, PeekFlood, LoopStates
<1>2. CASE \E e \in BOOLEAN : ReadGarbage(p, e)
  BY <1>2 DEF Shape, ReadGarbage, LoopStates
<1>3. CASE \E e \in BOOLEAN : DropRewind(p, e)
  BY <1>3 DEF Shape, DropRewind, Decode, LoopStates, NextIteration
<1>4. CASE \E e, e2 \in BOOLEAN : DropFlood(p, e, e2)
  BY <1>4 DEF Shape, DropFlood, Decode, LoopStates, NextIteration
<1>5. CASE \E e, e2 \in BOOLEAN : Dispatch(p, e, e2)
  BY <1>5 DEF Shape, Dispatch, Decode, LoopStates
<1>6. CASE Drain(p)
  BY <1>6 DEF Shape, Drain, routerVars
<1> QED
  BY <1>1, <1>2, <1>3, <1>4, <1>5, <1>6 DEF ReadStep

(* The frame given to the handler was on the pipe, once.                   *)
LEMMA RouteInv == ASSUME CallsInv, NEW p \in Pipes, Route(p) PROVE CallsInv'
<1>1. UNCHANGED <<counter, seqOf, pc, verdict, outcome, mailbox, delivering, reply, toWard, handler>>
  BY DEF Route, callVars, wardVars, keeperVars
<1>2. /\ \A q \in Pipes : q # p => wire'[q] = wire[q] /\ loop'[q] = loop[q] /\ current'[q] = current[q]
      /\ wire' = [wire EXCEPT ![p] = wire'[p]]
      /\ wire'[p] = wire[p] \/ (wire[p] # <<>> /\ wire'[p] = Tail(wire[p]))
      /\ loop'[p] = "handling" => /\ wire[p] # <<>> /\ wire'[p] = Tail(wire[p])
                                  /\ current'[p] = Stamp(Head(wire[p]), owner[p])
      /\ loop[p] # "handling"
      /\ loop' \in [Pipes -> LoopStates] /\ current' = [q \in Pipes |-> current'[q]]
  BY RouteFacts DEF Route, CallsInv
<1>3. wire[p] \in Seq(Sent)
  BY DEF CallsInv, Shape
<1>4. wire[p] # <<>> =>
        /\ Tail(wire[p]) \in Seq(Sent) /\ 1 \in 1..Len(wire[p]) /\ Head(wire[p]) = wire[p][1]
        /\ Head(wire[p]) \in Sent
        /\ \A i \in 1..Len(Tail(wire[p])) :
             i + 1 \in 1..Len(wire[p]) /\ i + 1 # 1 /\ Tail(wire[p])[i] = wire[p][i + 1]
  BY <1>3, TailElements
<1>5. Shape'
  <2>1. wire'[p] \in Seq(Sent)
    BY <1>2, <1>3, <1>4
  <2>2. wire' \in [Pipes -> Seq(Sent)]
    BY <1>2, <2>1 DEF CallsInv, Shape
  <2> QED
    BY <1>1, <1>2, <2>2 DEF CallsInv, Shape
<1>6. Numbers' /\ Progress'
  BY <1>1 DEF CallsInv, Numbers, Progress
<1>7. Requests'
  <2> SUFFICES ASSUME NEW q \in Pipes PROVE OnWire(q)' /\ AtHandler(q)'
    BY DEF Requests
  <2>1. OnWire(q) /\ AtHandler(q)
    BY DEF CallsInv, Requests
  <2>2. \A f : Undecided(q, f) => /\ f.call \in Calls /\ WardOf(f.call) = q /\ f.seqNo = seqOf'[f.call]
                                  /\ pc'[f.call] \notin Unwritten /\ verdict'[f.call] = "none"
                                  /\ outcome'[f.call] # "pipe_error"
    BY <1>1 DEF Undecided
  <2>3. CASE wire'[q] = wire[q]
    <3>1. OnWire(q)'
      BY <2>1, <2>2, <2>3 DEF OnWire, Undecided
    <3>2. AtHandler(q)'
      <4>1. CASE q # p
        BY <4>1, <2>1, <2>2, <2>3, <1>1, <1>2 DEF AtHandler, Undecided
      <4>2. CASE q = p /\ loop'[p] # "handling"
        BY <4>2 DEF AtHandler
      <4>3. CASE q = p /\ loop'[p] = "handling"
        <5>1. wire[p] # <<>> /\ Tail(wire[p]) = wire[p]
          BY <4>3, <2>3, <1>2
        <5>2. Len(Tail(wire[p])) = Len(wire[p]) - 1 /\ Len(wire[p]) \in Nat
          BY <5>1, <1>3
        <5>3. Len(Tail(wire[p])) = Len(wire[p])
          BY <5>1
        <5> QED
          BY <5>2, <5>3
      <4> QED
        BY <4>1, <4>2, <4>3
    <3> QED
      BY <3>1, <3>2
  <2>4. CASE q = p /\ wire[p] # <<>> /\ wire'[p] = Tail(wire[p])
    <3>1. \A i \in 1..Len(wire'[p]) : i + 1 \in 1..Len(wire[p]) /\ i + 1 # 1 /\ wire'[p][i] = wire[p][i + 1]
      BY <2>4, <1>4
    <3>2. OnWire(p)'
      <4>1. \A i \in 1..Len(wire'[p]) : IsRequest(wire'[p][i]) => Undecided(p, wire[p][i + 1])
        BY <2>1, <2>4, <3>1 DEF OnWire
      <4>2. \A i \in 1..Len(wire'[p]) : IsRequest(wire'[p][i]) => Undecided(p, wire[p][i])'
        BY <4>1, <2>2, <2>4, <3>1 DEF Undecided
      <4>3. \A i, j \in 1..Len(wire'[p]) :
              IsRequest(wire'[p][i]) /\ IsRequest(wire'[p][j])
                /\ wire'[p][i].call = wire'[p][j].call => i = j
        <5> SUFFICES ASSUME NEW i \in 1..Len(wire'[p]), NEW j \in 1..Len(wire'[p]),
                            IsRequest(wire'[p][i]), IsRequest(wire'[p][j]),
                            wire'[p][i].call = wire'[p][j].call
                     PROVE  i = j
          OBVIOUS
        <5>1. i + 1 = j + 1
          BY <2>1, <2>4, <3>1 DEF OnWire
        <5>2. i \in Nat /\ j \in Nat
          <6>1. wire'[p] \in Seq(Sent)
            BY <2>4, <1>4
          <6> QED
            BY <6>1
        <5> QED
          BY <5>1, <5>2
      <4> QED
        BY <4>2, <4>3 DEF OnWire
    <3>3. AtHandler(p)'
      <4> SUFFICES ASSUME loop'[p] = "handling", IsRequest(current'[p])
                   PROVE  /\ Undecided(p, current[p])'
                          /\ \A i \in 1..Len(wire'[p]) :
                               IsRequest(wire'[p][i]) => wire'[p][i].call # current'[p].call
        BY DEF AtHandler
      <4> DEFINE g == wire[p][1]
      <4>1. current'[p] = Stamp(g, owner[p]) /\ g \in Sent
        BY <2>4, <1>2, <1>4
      <4>2. current'[p].call = g.call /\ current'[p].seqNo = g.seqNo /\ current'[p].kind = g.kind
        BY <4>1 DEF Stamp, Sent
      <4>3. IsRequest(g) /\ Undecided(p, g)
        BY <4>2, <2>1, <2>4, <1>4 DEF IsRequest, OnWire
      <4>4. Undecided(p, current[p])'
        BY <4>2, <4>3, <2>2, <2>4 DEF Undecided
      <4>5. ASSUME NEW i \in 1..Len(wire'[p]), IsRequest(wire'[p][i]) PROVE wire'[p][i].call # g.call
        BY <4>3, <4>5, <2>1, <2>4, <3>1, <1>4 DEF OnWire
      <4> QED
        BY <4>2, <4>4, <4>5
    <3> QED
      BY <2>4, <3>2, <3>3
  <2> QED
    BY <2>3, <2>4, <1>2
<1>8. Replies'
  <2>1. \A q \in Pipes : handler[q] # "entry" => loop'[q] = loop[q] /\ current'[q] = current[q]
    BY <1>2 DEF CallsInv, Replies
  <2> QED
    BY <2>1, <1>1, AnswersKept DEF CallsInv, Replies
<1> QED
  BY <1>5, <1>6, <1>7, <1>8 DEF CallsInv

(* An event is handled: nothing of a call changes.                         *)
LEMMA HandleEventInv == ASSUME CallsInv, NEW p \in Pipes, HandleEvent(p) PROVE CallsInv'
<1>1. /\ loop[p] = "handling" /\ ~IsRequest(current[p])
      /\ loop' = [loop EXCEPT ![p] = NextIteration] /\ current' = [current EXCEPT ![p] = NoFrame]
  BY DEF HandleEvent, HandlerReturns, IsRequest
<1>2. UNCHANGED <<wire, counter, seqOf, pc, verdict, outcome, mailbox, delivering, reply, toWard, handler>>
  BY DEF HandleEvent, HandlerReturns, callVars, wardVars, keeperVars
<1>3. \A q \in Pipes : q # p => loop'[q] = loop[q] /\ current'[q] = current[q]
  BY <1>1 DEF CallsInv, Shape
<1>4. loop'[p] \in {"exited", "reading"}
  BY <1>1 DEF CallsInv, Shape, NextIteration
<1>5. Shape'
  BY <1>1, <1>2 DEF CallsInv, Shape, NextIteration, LoopStates
<1>6. Numbers' /\ Progress'
  BY <1>2 DEF CallsInv, Numbers, Progress
<1>7. Requests'
  <2> SUFFICES ASSUME NEW q \in Pipes PROVE OnWire(q)' /\ AtHandler(q)'
    BY DEF Requests
  <2>1. OnWire(q) /\ AtHandler(q)
    BY DEF CallsInv, Requests
  <2>2. OnWire(q)'
    BY <2>1, <1>2 DEF OnWire, Undecided
  <2>3. AtHandler(q)'
    BY <2>1, <1>2, <1>3, <1>4 DEF AtHandler, Undecided
  <2> QED
    BY <2>2, <2>3
<1>8. Replies'
  BY <1>1, <1>2, <1>3, AnswersKept DEF CallsInv, Replies
<1> QED
  BY <1>5, <1>6, <1>7, <1>8 DEF CallsInv

(* What the handler is given was not decided before.                       *)
LEMMA DecideFacts ==
  ASSUME CallsInv, NEW p \in Pipes, NEW v \in Verdicts, Decide(p, v)
  PROVE  LET c == current[p].call IN
         /\ Undecided(p, current[p]) /\ verdict' = [verdict EXCEPT ![c] = v]
         /\ c \in Calls /\ verdict[c] = "none" /\ pc[c] # "idle" /\ outcome[c] # "pipe_error"
<1>1. Undecided(p, current[p])
  BY DEF Decide, IsRequest, CallsInv, Requests, AtHandler
<1> QED
  BY <1>1 DEF Decide, Undecided, Unwritten

(* The decision is on the one request of its call.                         *)
LEMMA DecideInv == ASSUME CallsInv, NEW p \in Pipes, NEW v \in Verdicts, Decide(p, v) PROVE CallsInv'
<1> DEFINE c == current[p].call
           r == Reply(current[p].seqNo, v, c)
<1>1. Undecided(p, current[p]) /\ c \in Calls /\ verdict' = [verdict EXCEPT ![c] = v]
  BY DecideFacts
<1>2. /\ loop[p] = "handling" /\ IsRequest(current[p]) /\ handler[p] = "entry"
      /\ reply' = [reply EXCEPT ![p] = r] /\ handler' = [handler EXCEPT ![p] = "lookup"]
  BY DEF Decide, IsRequest
<1>3. UNCHANGED <<loop, wire, current, counter, seqOf, pc, outcome, mailbox, delivering, toWard>>
  BY DEF Decide, vars, routerVars, wardVars
<1>4. v \in Verdicts /\ v # "none"
  BY DEF Verdicts
<1>5. /\ verdict'[c] = v /\ \A d \in Calls : d # c => verdict'[d] = verdict[d]
      /\ verdict[c] = "none"
  BY <1>1 DEF CallsInv, Shape, Undecided
<1>6. r \in Replied /\ r.call = c /\ r.seqNo = seqOf[c] /\ r.verdict = v /\ 0 < seqOf[c]
  BY <1>1 DEF Reply, Replied, Undecided, Unwritten, CallsInv, Shape, Numbers
<1>7. handler'[p] = "lookup" /\ reply'[p] = r /\ \A q \in Pipes : q # p => handler'[q] = handler[q] /\ reply'[q] = reply[q]
  BY <1>2 DEF CallsInv, Shape
<1>8. \A q \in Pipes : q # p => WardOf(c) # q
  BY <1>1 DEF Undecided
<1>9. pc[c] \notin Unwritten
  BY <1>1 DEF Undecided
<1>10. AtHandler(p)
  BY DEF CallsInv, Requests
<1>11. \A i \in 1..Len(wire[p]) : IsRequest(wire[p][i]) => wire[p][i].call # c
  BY <1>2, <1>10 DEF AtHandler
<1> HIDE DEF c, r
<1>12. Shape'
  <2>1. verdict' \in [Calls -> Verdicts \cup {"none"}]
    BY <1>1 DEF CallsInv, Shape
  <2>2. reply' \in [Pipes -> Replied \cup {NoReply}] /\ handler' = [q \in Pipes |-> handler'[q]]
    BY <1>2, <1>6 DEF CallsInv, Shape
  <2> QED
    BY <2>1, <2>2, <1>3 DEF CallsInv, Shape
<1>13. Numbers' /\ Progress'
  <2>1. Numbers'
    BY <1>3 DEF CallsInv, Numbers
  <2>2. Progress'
    BY <1>3, <1>5, <1>9 DEF CallsInv, Progress
  <2> QED
    BY <2>1, <2>2
<1>14. Requests'
  <2> SUFFICES ASSUME NEW q \in Pipes PROVE OnWire(q)' /\ AtHandler(q)'
    BY DEF Requests
  <2>1. OnWire(q) /\ AtHandler(q)
    BY DEF CallsInv, Requests
  <2>2. \A i \in 1..Len(wire[q]) : IsRequest(wire[q][i]) => wire[q][i].call # c /\ Undecided(q, wire[q][i])
    BY <2>1, <1>8, <1>11 DEF OnWire, Undecided
  <2>3. OnWire(q)'
    BY <2>1, <2>2, <1>3, <1>5 DEF OnWire, Undecided
  <2>4. AtHandler(q)'
    BY <2>1, <1>3, <1>5, <1>7, <1>8 DEF AtHandler, Undecided
  <2> QED
    BY <2>3, <2>4
<1>15. Replies'
  <2>1. \A d \in Calls : verdict[d] # "none" => verdict'[d] = verdict[d]
    BY <1>5
  <2>2. Answers(reply[p])'
    BY <1>1, <1>3, <1>4, <1>5, <1>6, <1>7 DEF Answers
  <2>3. ASSUME NEW q \in Pipes, handler'[q] # "entry"
        PROVE  loop'[q] = "handling" /\ IsRequest(current'[q]) /\ Answers(reply[q])'
    <3>1. CASE q = p
      BY <3>1, <2>2, <1>2, <1>3
    <3>2. CASE q # p
      BY <3>2, <2>1, <2>3, <1>3, <1>7 DEF CallsInv, Replies, Answers
    <3> QED
      BY <3>1, <3>2
  <2>4. ASSUME NEW q \in Pipes
        PROVE  /\ delivering'[q] # NoReply => Answers(delivering[q])'
               /\ \A i \in 1..Len(toWard'[q]) : Answers(toWard[q][i])'
    BY <2>1, <1>3 DEF CallsInv, Replies, Answers
  <2>5. \A d \in Calls : mailbox'[d] # NoReply => Answers(mailbox[d])' /\ mailbox'[d].seqNo = seqOf'[d]
    BY <2>1, <1>3 DEF CallsInv, Replies, Answers
  <2> QED
    BY <2>3, <2>4, <2>5 DEF Replies
<1> QED
  BY <1>12, <1>13, <1>14, <1>15 DEF CallsInv

(* Router.Send has found a pipe.                                           *)
LEMMA LookupInv == ASSUME CallsInv, NEW p \in Pipes, Lookup(p) PROVE CallsInv'
<1>1. handler[p] = "lookup" /\ handler' = [handler EXCEPT ![p] = "write"]
  BY DEF Lookup
<1>2. UNCHANGED <<loop, wire, current, counter, seqOf, pc, verdict, outcome, mailbox, delivering, reply, toWard>>
  BY DEF Lookup, vars, routerVars, wardVars
<1>3. \A q \in Pipes : handler'[q] = "entry" <=> handler[q] = "entry"
  BY <1>1 DEF CallsInv, Shape
<1>4. Shape'
  BY <1>1, <1>2 DEF CallsInv, Shape
<1>5. Numbers' /\ Progress'
  BY <1>2 DEF CallsInv, Numbers, Progress
<1>6. Requests'
  <2>1. \A q \in Pipes : OnWire(q) /\ AtHandler(q)
    BY DEF CallsInv, Requests
  <2> QED
    BY <2>1, <1>2, <1>3 DEF Requests, OnWire, AtHandler, Undecided
<1>7. Replies'
  BY <1>2, <1>3 DEF CallsInv, Replies, Answers
<1> QED
  BY <1>4, <1>5, <1>6, <1>7 DEF CallsInv

(* The handler returns, with its reply written or lost.                    *)
LEMMA HandlerEnds ==
  ASSUME CallsInv, NEW p \in Pipes, handler[p] # "entry", HandlerReturns(p),
         handler' = [handler EXCEPT ![p] = "entry"], reply' = [reply EXCEPT ![p] = NoReply],
         UNCHANGED <<wardVars, verdict>>,
         toWard' \in [Pipes -> Seq(Replied)],
         \A q \in Pipes : \A i \in 1..Len(toWard'[q]) : Answers(toWard'[q][i])
  PROVE  CallsInv'
<1>1. /\ loop' = [loop EXCEPT ![p] = NextIteration] /\ current' = [current EXCEPT ![p] = NoFrame]
      /\ UNCHANGED <<wire, counter, seqOf, pc, verdict, outcome, mailbox, delivering>>
  BY DEF HandlerReturns, wardVars
<1>2. /\ \A q \in Pipes : q # p => /\ loop'[q] = loop[q] /\ current'[q] = current[q]
                                  /\ handler'[q] = handler[q] /\ reply'[q] = reply[q]
      /\ handler'[p] = "entry" /\ loop'[p] # "handling"
  BY <1>1 DEF CallsInv, Shape, NextIteration
<1>3. Shape'
  BY <1>1 DEF CallsInv, Shape, NextIteration, LoopStates
<1>4. Numbers' /\ Progress'
  BY <1>1 DEF CallsInv, Numbers, Progress
<1>5. Requests'
  <2> SUFFICES ASSUME NEW q \in Pipes PROVE OnWire(q)' /\ AtHandler(q)'
    BY DEF Requests
  <2>1. OnWire(q) /\ AtHandler(q)
    BY DEF CallsInv, Requests
  <2>2. OnWire(q)'
    BY <2>1, <1>1 DEF OnWire, Undecided
  <2>3. AtHandler(q)'
    BY <2>1, <1>1, <1>2 DEF AtHandler, Undecided
  <2> QED
    BY <2>2, <2>3
<1>6. Replies'
  BY <1>1, <1>2 DEF CallsInv, Replies, Answers
<1> QED
  BY <1>3, <1>4, <1>5, <1>6 DEF CallsInv

(* A reply that is lost ...                                                *)
LEMMA UnsendableInv == ASSUME CallsInv, NEW p \in Pipes, Unsendable(p) PROVE CallsInv'
<1>1. /\ handler[p] # "entry" /\ HandlerReturns(p)
      /\ handler' = [handler EXCEPT ![p] = "entry"] /\ reply' = [reply EXCEPT ![p] = NoReply]
      /\ UNCHANGED <<wardVars, verdict, toWard>>
  BY DEF Unsendable
<1>2. /\ toWard' \in [Pipes -> Seq(Replied)]
      /\ \A q \in Pipes : \A i \in 1..Len(toWard'[q]) : Answers(toWard'[q][i])
  BY <1>1 DEF CallsInv, Shape, Replies
<1> QED
  BY <1>1, <1>2, HandlerEnds

(* ... and one that is written to some Ward.                               *)
LEMMA AnswerInv == ASSUME CallsInv, NEW p \in Pipes, Answer(p) PROVE CallsInv'
<1> DEFINE r == reply[p]
           w == target[p]
<1>1. /\ handler[p] # "entry" /\ HandlerReturns(p)
      /\ handler' = [handler EXCEPT ![p] = "entry"] /\ reply' = [reply EXCEPT ![p] = NoReply]
      /\ UNCHANGED <<wardVars, verdict>>
      /\ toWard' = [toWard EXCEPT ![w] = Append(toWard[w], r)]
  BY DEF Answer
<1>2. Answers(r) /\ r \in Replied
  <2>1. Answers(r) /\ r \in Replied \cup {NoReply}
    BY <1>1 DEF CallsInv, Shape, Replies
  <2> QED
    BY <2>1 DEF Answers, NoReply, Reply
<1> HIDE DEF r, w
<1>3. ASSUME NEW q \in Pipes
      PROVE  toWard'[q] \in Seq(Replied) /\ \A i \in 1..Len(toWard'[q]) : Answers(toWard'[q][i])
  <2>1. toWard[q] \in Seq(Replied) /\ \A i \in 1..Len(toWard[q]) : Answers(toWard[q][i])
    BY DEF CallsInv, Shape, Replies
  <2>2. CASE q # w
    BY <2>1, <2>2, <1>1 DEF CallsInv, Shape
  <2>3. CASE q = w
    <3>1. toWard'[q] = Append(toWard[q], r)
      BY <2>3, <1>1 DEF CallsInv, Shape
    <3>2. /\ Append(toWard[q], r) \in Seq(Replied)
          /\ \A i \in 1..Len(Append(toWard[q], r)) :
               \/ i \in 1..Len(toWard[q]) /\ Append(toWard[q], r)[i] = toWard[q][i]
               \/ i = Len(toWard[q]) + 1 /\ Append(toWard[q], r)[i] = r
      BY <2>1, <1>2, AppendElements
    <3> QED
      BY <2>1, <3>1, <3>2, <1>2
  <2> QED
    BY <2>2, <2>3
<1>4. toWard' \in [Pipes -> Seq(Replied)]
  <2>1. toWard' = [q \in Pipes |-> toWard'[q]]
    BY <1>1 DEF CallsInv, Shape
  <2> QED
    BY <2>1, <1>3
<1> QED
  BY <1>1, <1>3, <1>4, HandlerEnds

-----------------------------------------------------------------------------
(* Create and destroy.                                                     *)

(* A new pipe has nothing on it.                                           *)
LEMMA CreateInv == ASSUME CallsInv, NEW p \in Pipes, Create(p) PROVE CallsInv'
<1>1. /\ loop[p] = "unused" /\ loop' = [loop EXCEPT ![p] = IF cancelled THEN "exited" ELSE "reading"]
      /\ UNCHANGED <<wire, current, counter, seqOf, pc, verdict, outcome, mailbox, delivering, reply,
                     toWard, handler>>
  BY DEF Create, AddPipe, callVars, wardVars, keeperVars
<1>2. \A q \in Pipes : (loop[q] = "handling" <=> loop'[q] = "handling")
  BY <1>1 DEF CallsInv, Shape
<1>3. Shape'
  BY <1>1 DEF CallsInv, Shape, LoopStates
<1>4. Numbers' /\ Progress'
  BY <1>1 DEF CallsInv, Numbers, Progress
<1>5. Requests'
  <2>1. \A q \in Pipes : OnWire(q) /\ AtHandler(q)
    BY DEF CallsInv, Requests
  <2> QED
    BY <2>1, <1>1, <1>2 DEF Requests, OnWire, AtHandler, Undecided
<1>6. Replies'
  BY <1>1, <1>2 DEF CallsInv, Replies, Answers
<1> QED
  BY <1>3, <1>4, <1>5, <1>6 DEF CallsInv

(* What the invariant speaks of, unchanged.                                *)
LEMMA NothingChanged ==
  ASSUME CallsInv, UNCHANGED <<loop, wire, current, counter, seqOf, pc, verdict, outcome, mailbox,
                           delivering, reply, toWard, handler>>
  PROVE  CallsInv'
<1>1. Shape' /\ Numbers' /\ Progress'
  BY DEF CallsInv, Shape, Numbers, Progress
<1>2. Requests'
  BY RequestsKept
<1>3. Replies'
  BY RepliesKept
<1> QED
  BY <1>1, <1>2, <1>3 DEF CallsInv

-----------------------------------------------------------------------------
(* The theorems.                                                           *)

(* Every step keeps the invariant.                                         *)
LEMMA StepInv == ASSUME CallsInv, [CNext]_allVars PROVE CallsInv'
<1>1. ASSUME NEW c \in Calls, Allocate(c) \/ TransmitFails(c) \/ CallStep(c) PROVE CallsInv'
  <2>1. WardOf(c) \in Pipes
    BY CallsAssumption
  <2> QED
    BY <1>1, <2>1, AllocateInv, RegisterInv, TransmitInv, TransmitFailsInv, ReceiveInv, TimeOutInv,
       ReturnInv DEF CallStep
<1>2. ASSUME NEW p \in Pipes, Create(p) \/ Send(p) \/ Route(p) \/ RunLoop(p) PROVE CallsInv'
  BY <1>2, CreateInv, SendEventInv, SendEventFailsInv, RouteInv, TakeReplyInv, DeliverInv DEF RunLoop, Send
<1>3. ASSUME NEW p \in Pipes, Handle(p) PROVE CallsInv'
  BY <1>3, HandleEventInv, DecideInv, LookupInv, UnsendableInv, AnswerInv DEF Handle
<1>4. CASE Destroy
  BY <1>4, NothingChanged DEF Destroy, RemovePipe, callVars, wardVars, keeperVars
<1>5. CASE UNCHANGED allVars
  BY <1>5, NothingChanged DEF allVars, vars, routerVars, callVars, wardVars, keeperVars
<1> QED
  BY <1>1, <1>2, <1>3, <1>4, <1>5 DEF CNext

(* A call takes the next number of its Ward, which no call there has.      *)
LEMMA AllocateMakes == ASSUME CallsInv, NEW c \in Calls, Allocate(c) PROVE Contract!Make(c)
<1> DEFINE n == counter[WardOf(c)] + 1
<1>1. /\ pc[c] = "idle" /\ seqOf' = [seqOf EXCEPT ![c] = n] /\ UNCHANGED <<verdict, outcome>>
  BY DEF Allocate, keeperVars
<1>2. seqOf[c] = 0 /\ counter[WardOf(c)] \in Nat
  BY <1>1, CallsAssumption DEF CallsInv, Shape, Numbers
<1>3. \A d \in Calls : WardOf(d) = WardOf(c) => seqOf[d] < n
  <2> SUFFICES ASSUME NEW d \in Calls, WardOf(d) = WardOf(c) PROVE seqOf[d] < n
    OBVIOUS
  <2>1. pc[d] = "idle" => seqOf[d] = 0
    BY DEF CallsInv, Numbers
  <2>2. pc[d] # "idle" => seqOf[d] <= counter[WardOf(d)]
    BY DEF CallsInv, Numbers
  <2>3. seqOf[d] \in Nat
    BY DEF CallsInv, Shape
  <2> QED
    BY <2>1, <2>2, <2>3, <1>2
<1>4. n \in Nat \ {0}
  BY <1>2
<1> HIDE DEF n
<1>5. seqOf'[c] = n
  BY <1>1 DEF CallsInv, Shape
<1>6. \A d \in Calls : WardOf(d) = WardOf(c) => seqOf[d] # n
  <2>1. \A d \in Calls : seqOf[d] \in Nat
    BY DEF CallsInv, Shape
  <2> QED
    BY <2>1, <1>3, <1>4
<1> QED
  BY <1>1, <1>2, <1>4, <1>5, <1>6 DEF Contract!Make

(* What a reply tells is what keeperd decided on the call itself, or on    *)
(* one of the same number in another Ward.                                 *)
LEMMA ReceiveAnswers ==
  ASSUME CallsInv, NEW c \in Calls, Receive(c)
  PROVE  \E d \in Calls : Contract!Answer(c, d)
<1> DEFINE d == mailbox[c].call
<1>1. /\ pc[c] = "waiting" /\ mailbox[c] # NoReply
      /\ outcome' = [outcome EXCEPT ![c] = Told(mailbox[c].verdict)] /\ UNCHANGED <<seqOf, verdict>>
  BY DEF Receive, keeperVars
<1>2. Answers(mailbox[c]) /\ mailbox[c].seqNo = seqOf[c]
  BY <1>1 DEF CallsInv, Replies
<1>3. /\ d \in Calls /\ seqOf[d] = seqOf[c] /\ seqOf[c] > 0
      /\ mailbox[c].verdict = verdict[d] /\ verdict[d] # "none"
  BY <1>2 DEF Answers
<1>4. outcome[c] = "none"
  BY <1>1 DEF CallsInv, Progress
<1> HIDE DEF d
<1>5. d = c \/ WardOf(c) # WardOf(d)
  BY <1>3 DEF CallsInv, Numbers
<1>6. Contract!Answer(c, d)
  BY <1>1, <1>3, <1>4, <1>5 DEF Contract!Answer, Contract!MistakenFor
<1> QED
  BY <1>3, <1>6

(* Every step is a step of the contract or a stutter.                      *)
LEMMA StepRefines ==
  ASSUME CallsInv, [CNext]_allVars
  PROVE  [Contract!Next]_(Contract!contractVars)
<1> USE DEF Contract!contractVars
<1>1. ASSUME NEW c \in Calls, Allocate(c) PROVE Contract!Make(c)
  BY <1>1, AllocateMakes
<1>2. ASSUME NEW c \in Calls, Receive(c) PROVE \E d \in Calls : Contract!Answer(c, d)
  BY <1>2, ReceiveAnswers
<1>3. ASSUME NEW c \in Calls, TimeOut(c) PROVE Contract!GiveUp(c)
  <2>1. /\ pc[c] = "waiting" /\ outcome' = [outcome EXCEPT ![c] = "timeout"] /\ UNCHANGED <<seqOf, verdict>>
    BY <1>3 DEF TimeOut, keeperVars
  <2>2. outcome[c] = "none"
    BY <2>1 DEF CallsInv, Progress
  <2>3. seqOf[c] # 0
    BY <2>1 DEF CallsInv, Numbers
  <2> QED
    BY <2>1, <2>2, <2>3 DEF Contract!GiveUp
<1>4. ASSUME NEW c \in Calls, TransmitFails(c) PROVE Contract!Fail(c)
  <2>1. /\ pc[c] = "registered" /\ outcome' = [outcome EXCEPT ![c] = "pipe_error"]
        /\ UNCHANGED <<seqOf, verdict>>
    BY <1>4 DEF TransmitFails, keeperVars
  <2>2. outcome[c] = "none" /\ verdict[c] = "none"
    BY <2>1 DEF CallsInv, Progress, Unwritten
  <2>3. seqOf[c] # 0
    BY <2>1 DEF CallsInv, Numbers
  <2> QED
    BY <2>1, <2>2, <2>3 DEF Contract!Fail
<1>5. ASSUME NEW p \in Pipes, NEW v \in Verdicts, Decide(p, v) PROVE Contract!Decide(current[p].call, v)
  <2> DEFINE c == current[p].call
  <2>1. /\ verdict' = [verdict EXCEPT ![c] = v] /\ c \in Calls /\ verdict[c] = "none"
        /\ pc[c] # "idle" /\ outcome[c] # "pipe_error"
    BY <1>5, DecideFacts
  <2>2. seqOf[c] # 0
    BY <2>1 DEF CallsInv, Shape, Numbers
  <2>3. UNCHANGED <<seqOf, outcome>>
    BY <1>5 DEF Decide, wardVars
  <2> QED
    BY <2>1, <2>2, <2>3 DEF Contract!Decide
<1>6. ASSUME NEW p \in Pipes, NEW v \in Verdicts, Decide(p, v) PROVE current[p].call \in Calls
  BY <1>6, DecideFacts
<1>7. ASSUME NEW c \in Calls, Register(c) \/ Transmit(c) \/ Return(c)
      PROVE  UNCHANGED Contract!contractVars
  BY <1>7 DEF Register, Transmit, Return, keeperVars
<1>8. ASSUME NEW p \in Pipes,
             \/ Create(p) \/ Send(p) \/ Route(p) \/ TakeReply(p) \/ Deliver(p)
             \/ HandleEvent(p) \/ Lookup(p) \/ Unsendable(p) \/ Answer(p)
      PROVE  UNCHANGED Contract!contractVars
  BY <1>8 DEF Create, Send, SendEvent, SendEventFails, Route, TakeReply, Deliver, HandleEvent, Lookup,
              Unsendable, Answer, callVars, wardVars, keeperVars
<1>9. CASE Destroy \/ UNCHANGED allVars
  BY <1>9 DEF Destroy, allVars, callVars, wardVars, keeperVars
<1> QED
  BY <1>1, <1>2, <1>3, <1>4, <1>5, <1>6, <1>7, <1>8, <1>9
     DEF CNext, CallStep, RunLoop, Handle, Contract!Next

(* The invariant holds in every reachable state.                           *)
THEOREM CallsInvariance == CSpec => []CallsInv
<1>1. CallsInv /\ [CNext]_allVars => CallsInv'
  BY StepInv
<1> QED
  BY <1>1, InitInv, PTL DEF CSpec

(* The round trip starts as the contract does.                             *)
LEMMA InitRefines == CInit => Contract!Init
BY DEF CInit, Contract!Init

(* Any calls in any Wards of the agent, one after the other or not:        *)
(* whatever the router drops, keeperd loses and a Ward delivers late, a    *)
(* call gets one outcome, as its contract says (executeTool,               *)
(* handleCapabilityRequest).                                               *)
THEOREM Refinement == CSpec => ContractSpec
<1>1. CallsInv /\ [CNext]_allVars => [Contract!Next]_(Contract!contractVars)
  BY StepRefines
<1> QED
  BY <1>1, CallsInvariance, InitRefines, PTL DEF CSpec, ContractSpec, Contract!Spec

(* As long as the agent has had one Ward, no call is mistaken for another. *)
SameWard == \A c, d \in Calls : WardOf(c) = WardOf(d)
OwnVerdict ==
  \A c \in Calls : outcome[c] \notin {"none", "timeout", "pipe_error"}
                   => verdict[c] # "none" /\ outcome[c] = Told(verdict[c])

LEMMA OwnVerdictStep ==
  ASSUME SameWard, CallsInv, OwnVerdict, [CNext]_allVars PROVE OwnVerdict'
<1> USE DEF OwnVerdict
<1>1. outcome = [c \in Calls |-> outcome[c]] /\ verdict = [c \in Calls |-> verdict[c]]
  BY DEF CallsInv, Shape
<1>2. ASSUME NEW c \in Calls, Contract!Make(c) \/ Contract!Fail(c) \/ Contract!GiveUp(c) PROVE OwnVerdict'
  BY <1>1, <1>2 DEF Contract!Make, Contract!Fail, Contract!GiveUp
<1>3. ASSUME NEW c \in Calls, NEW d \in Calls, Contract!Answer(c, d) PROVE OwnVerdict'
  <2>1. verdict[c] # "none" /\ outcome' = [outcome EXCEPT ![c] = Told(verdict[c])] /\ verdict' = verdict
    BY <1>3 DEF Contract!Answer, Contract!MistakenFor, SameWard
  <2> QED
    BY <1>1, <2>1
<1>4. ASSUME NEW c \in Calls, NEW v \in Verdicts, Contract!Decide(c, v) PROVE OwnVerdict'
  BY <1>1, <1>4 DEF Contract!Decide
<1>5. CASE UNCHANGED Contract!contractVars
  BY <1>5 DEF Contract!contractVars
<1> QED
  BY <1>2, <1>3, <1>4, <1>5, StepRefines DEF Contract!Next

(* In one Ward an outcome that is no timeout and no pipe_error is what     *)
(* keeperd decided on this very call (deliverCapabilityResponse finds the  *)
(* call by the number its reply echoes).                                   *)
THEOREM OwnInOneWard == ASSUME SameWard PROVE CSpec => []OwnVerdict
<1>1. CInit => OwnVerdict
  BY DEF CInit, OwnVerdict
<1>2. CallsInv /\ OwnVerdict /\ [CNext]_allVars => OwnVerdict'
  BY OwnVerdictStep
<1> QED
  BY <1>1, <1>2, CallsInvariance, PTL DEF CSpec

(***************************************************************************)
(* Events.  Their numbers are allocated under the lock that orders the     *)
(* writes, so each is above all that was written before it (Ascending).    *)
(***************************************************************************)
StampedFrames == [from : AgentIDs \cup {"none"}, seqNo : Nat, size : {RequestSize, EventSize},
            kind : {"request", "event"}, call : Calls \cup {NoCall}]

Emitted ==
  [rewound : Seq(StampedFrames), flooded : Seq(StampedFrames), overwritten : Nat]

EShape ==
  /\ owner \in [Pipes -> AgentIDs \cup {"none"}] /\ lastSeqNo \in [Pipes -> Nat]
  /\ security \in [Pipes -> Emitted]

IsEvent(f) == f.kind = "event"

Ascending(p) ==
  /\ lastSeqNo[p] <= counter[p]
  /\ \A i \in 1..Len(wire[p]) :
       wire[p][i].seqNo <= counter[p] /\ (IsEvent(wire[p][i]) => lastSeqNo[p] < wire[p][i].seqNo)
  /\ \A i, j \in 1..Len(wire[p]) :
       i < j /\ IsEvent(wire[p][j]) => wire[p][i].seqNo < wire[p][j].seqNo

NoneRewound(p) == \A i \in 1..Len(security[p].rewound) : ~IsEvent(security[p].rewound[i])

EInv == EShape /\ \A p \in Pipes : Ascending(p) /\ NoneRewound(p)

(* Nothing has been sent at the start.                                     *)
LEMMA EInitInv == CInit => EInv
<1> SUFFICES ASSUME CInit PROVE EInv
  OBVIOUS
<1>1. EShape
  <2>1. NoEvents \in Emitted
    BY DEF NoEvents, Emitted
  <2> QED
    BY <2>1 DEF CInit, Init, EShape
<1>2. ASSUME NEW p \in Pipes PROVE Ascending(p) /\ NoneRewound(p)
  <2>1. /\ wire[p] = <<>> /\ lastSeqNo[p] = 0 /\ counter[p] = 0
        /\ security[p].rewound = <<>>
    BY DEF CInit, Init, NoEvents
  <2> QED
    BY <2>1 DEF Ascending, NoneRewound
<1> QED
  BY <1>1, <1>2 DEF EInv

(* Numbers that are only allocated disturb nothing.                        *)
LEMMA NothingSent ==
  ASSUME Shape, EInv, UNCHANGED <<wire, lastSeqNo, security>>,
         owner' \in [Pipes -> AgentIDs \cup {"none"}],
         \A p \in Pipes : counter'[p] \in Nat /\ counter'[p] >= counter[p]
  PROVE  EInv'
<1>1. EShape'
  BY DEF EInv, EShape
<1>2. ASSUME NEW p \in Pipes PROVE Ascending(p)' /\ NoneRewound(p)'
  <2>1. Ascending(p) /\ NoneRewound(p) /\ wire[p] \in Seq(Sent) /\ counter[p] \in Nat /\ lastSeqNo[p] \in Nat
    BY DEF EInv, EShape, Shape
  <2>2. \A i \in 1..Len(wire[p]) : wire[p][i].seqNo \in Nat
    <3>1. \A f \in Sent : f.seqNo \in Nat
      BY DEF Sent
    <3> QED
      BY <2>1, <3>1
  <2> QED
    BY <2>1, <2>2 DEF Ascending, NoneRewound
<1> QED
  BY <1>1, <1>2 DEF EInv

(* A frame is sent, with a number allocated by then; that of an event is   *)
(* allocated in this very step.                                            *)
LEMMA FrameSent ==
  ASSUME Shape, EInv, NEW w \in Pipes, NEW f \in Sent,
         wire' = [wire EXCEPT ![w] = Append(wire[w], f)],
         UNCHANGED <<owner, lastSeqNo, security>>,
         \A p \in Pipes : counter'[p] \in Nat /\ counter'[p] >= counter[p],
         f.seqNo <= counter'[w], IsEvent(f) => counter[w] < f.seqNo
  PROVE  EInv'
<1>1. EShape'
  BY DEF EInv, EShape
<1>2. ASSUME NEW p \in Pipes PROVE Ascending(p)' /\ NoneRewound(p)'
  <2>1. Ascending(p) /\ NoneRewound(p) /\ wire[p] \in Seq(Sent) /\ counter[p] \in Nat /\ lastSeqNo[p] \in Nat
    BY DEF EInv, EShape, Shape
  <2>2. f.seqNo \in Nat /\ \A i \in 1..Len(wire[p]) : wire[p][i].seqNo \in Nat
    <3>1. \A g \in Sent : g.seqNo \in Nat
      BY DEF Sent
    <3> QED
      BY <2>1, <3>1
  <2>3. NoneRewound(p)'
    BY <2>1 DEF NoneRewound
  <2>4. CASE p # w
    <3>1. wire'[p] = wire[p]
      BY <2>4 DEF Shape
    <3>2. lastSeqNo'[p] <= counter'[p]
      BY <2>1 DEF Ascending
    <3>3. \A i \in 1..Len(wire'[p]) :
            wire'[p][i].seqNo <= counter'[p] /\ (IsEvent(wire'[p][i]) => lastSeqNo[p] < wire'[p][i].seqNo)
      <4> SUFFICES ASSUME NEW i \in 1..Len(wire[p])
                   PROVE  /\ wire[p][i].seqNo <= counter'[p]
                          /\ IsEvent(wire[p][i]) => lastSeqNo[p] < wire[p][i].seqNo
        BY <3>1
      <4>1. wire[p][i].seqNo <= counter[p] /\ counter[p] <= counter'[p]
        BY <2>1 DEF Ascending
      <4>2. wire[p][i].seqNo \in Nat /\ counter[p] \in Nat /\ counter'[p] \in Nat
        BY <2>1, <2>2
      <4>3. IsEvent(wire[p][i]) => lastSeqNo[p] < wire[p][i].seqNo
        BY <2>1 DEF Ascending
      <4> QED
        BY <4>1, <4>2, <4>3
    <3>4. \A i, j \in 1..Len(wire'[p]) :
            i < j /\ IsEvent(wire'[p][j]) => wire'[p][i].seqNo < wire'[p][j].seqNo
      BY <2>1, <3>1 DEF Ascending
    <3> QED
      BY <2>3, <3>2, <3>3, <3>4 DEF Ascending
  <2>5. CASE p = w
    <3>1. /\ Append(wire[w], f) \in Seq(Sent)
          /\ \A i \in 1..Len(Append(wire[w], f)) :
               \/ i \in 1..Len(wire[w]) /\ Append(wire[w], f)[i] = wire[w][i]
               \/ i = Len(wire[w]) + 1 /\ Append(wire[w], f)[i] = f
      BY <2>1, <2>5, AppendElements
    <3>2. wire'[w] = Append(wire[w], f)
      BY DEF Shape
    <3>3. \A i \in 1..Len(wire'[w]) :
            wire'[w][i].seqNo <= counter'[w] /\ (IsEvent(wire'[w][i]) => lastSeqNo[w] < wire'[w][i].seqNo)
      BY <2>1, <2>2, <2>5, <3>1, <3>2 DEF Ascending
    <3>4. ASSUME NEW i \in 1..Len(wire'[w]), NEW j \in 1..Len(wire'[w]), i < j, IsEvent(wire'[w][j])
          PROVE  wire'[w][i].seqNo < wire'[w][j].seqNo
      <4>1. Len(wire[w]) \in Nat /\ i \in Nat /\ j \in Nat /\ Len(wire'[w]) = Len(wire[w]) + 1
        BY <2>1, <2>5, <3>1, <3>2
      <4>2. i \in 1..Len(wire[w]) /\ wire'[w][i] = wire[w][i]
        BY <3>1, <3>2, <3>4, <4>1
      <4>3. CASE j \in 1..Len(wire[w]) /\ wire'[w][j] = wire[w][j]
        BY <2>1, <2>5, <3>4, <4>2, <4>3 DEF Ascending
      <4>4. CASE wire'[w][j] = f
        <5>1. wire[w][i].seqNo <= counter[w] /\ counter[w] < f.seqNo
          BY <2>1, <2>5, <3>4, <4>2, <4>4 DEF Ascending
        <5> QED
          BY <5>1, <2>1, <2>2, <2>5, <4>2, <4>4
      <4> QED
        BY <3>1, <3>2, <4>3, <4>4
    <3>5. lastSeqNo[w] <= counter'[w]
      BY <2>1, <2>5 DEF Ascending
    <3> QED
      BY <2>3, <2>5, <3>3, <3>4, <3>5 DEF Ascending
  <2> QED
    BY <2>4, <2>5
<1> QED
  BY <1>1, <1>2 DEF EInv

(* The read loop drops a frame as a rewind only if its number is not above *)
(* the last accepted one; an accepted number is that of the frame it took. *)
LEMMA ReadFacts ==
  ASSUME Shape, EShape, NEW p \in Pipes, ReadStep(p) \/ Drain(p)
  PROVE  LET g == Stamp(Head(wire[p]), owner[p]) IN
         /\ owner' = owner /\ security' \in [Pipes -> Emitted]
         /\ \A q \in Pipes : q # p => lastSeqNo'[q] = lastSeqNo[q] /\ security'[q] = security[q]
         /\ lastSeqNo' = [lastSeqNo EXCEPT ![p] = lastSeqNo'[p]]
         /\ lastSeqNo'[p] = lastSeqNo[p] \/ /\ lastSeqNo'[p] = g.seqNo
                                            /\ wire[p] # <<>> /\ wire'[p] = Tail(wire[p])
         /\ \/ security'[p].rewound = security[p].rewound
            \/ /\ security'[p].rewound = Append(security[p].rewound, g)
               /\ g.seqNo <= lastSeqNo[p] /\ wire[p] # <<>>
<1> DEFINE g == Stamp(Head(wire[p]), owner[p])
           base == CountOverwrite(p)
<1>1. wire[p] # <<>> => g \in StampedFrames
  <2> SUFFICES ASSUME wire[p] # <<>> PROVE g \in StampedFrames
    OBVIOUS
  <2>1. Head(wire[p]) \in Sent /\ owner[p] \in AgentIDs \cup {"none"}
    BY TailElements DEF Shape, EShape
  <2> QED
    BY <2>1 DEF Stamp, Sent, StampedFrames
<1>2. base \in Emitted /\ base.rewound = security[p].rewound
  <2>1. ASSUME NEW e \in Emitted
        PROVE  /\ [e EXCEPT !.overwritten = @ + 1] \in Emitted
               /\ [e EXCEPT !.overwritten = @ + 1].rewound = e.rewound
    BY DEF Emitted
  <2>2. security[p] \in Emitted
    BY DEF EShape
  <2> QED
    BY <2>1, <2>2 DEF CountOverwrite
<1> HIDE DEF g, base
<1>3. CASE \E e \in BOOLEAN : PeekFlood(p, e)
  BY <1>3 DEF Shape, EShape, PeekFlood
<1>4. CASE \E e \in BOOLEAN : ReadGarbage(p, e)
  BY <1>4 DEF Shape, EShape, ReadGarbage
<1>5. CASE \E e \in BOOLEAN : DropRewind(p, e)
  <2>1. /\ owner' = owner /\ lastSeqNo' = lastSeqNo /\ wire[p] # <<>> /\ g.seqNo <= lastSeqNo[p]
        /\ security' = [security EXCEPT ![p] = EmitRewind(base, g)]
    BY <1>5 DEF DropRewind, Decode, Rewinds, g, base
  <2>2. EmitRewind(base, g) \in Emitted /\ EmitRewind(base, g).rewound = Append(security[p].rewound, g)
    BY <1>1, <1>2, <2>1 DEF EmitRewind, Emitted
  <2> QED
    BY <2>1, <2>2 DEF EShape, g
<1>6. CASE \E e, e2 \in BOOLEAN : DropFlood(p, e, e2)
  <2>1. /\ owner' = owner /\ wire[p] # <<>> /\ wire' = [wire EXCEPT ![p] = Tail(wire[p])]
        /\ lastSeqNo' = [lastSeqNo EXCEPT ![p] = g.seqNo]
        /\ security' = [security EXCEPT ![p] = EmitFlood(base, g)]
    BY <1>6 DEF DropFlood, Decode, g, base
  <2>2. EmitFlood(base, g) \in Emitted /\ EmitFlood(base, g).rewound = security[p].rewound
    BY <1>1, <1>2, <2>1 DEF EmitFlood, Emitted
  <2> QED
    BY <2>1, <2>2 DEF Shape, EShape, g
<1>7. CASE \E e, e2 \in BOOLEAN : Dispatch(p, e, e2)
  <2>1. /\ owner' = owner /\ wire[p] # <<>> /\ wire' = [wire EXCEPT ![p] = Tail(wire[p])]
        /\ lastSeqNo' = [lastSeqNo EXCEPT ![p] = g.seqNo]
        /\ security' = [security EXCEPT ![p] = base]
    BY <1>7 DEF Dispatch, Decode, g, base
  <2> QED
    BY <1>2, <2>1 DEF Shape, EShape, g
<1>8. CASE Drain(p)
  BY <1>8 DEF Shape, EShape, Drain, routerVars
<1> QED
  BY <1>3, <1>4, <1>5, <1>6, <1>7, <1>8 DEF ReadStep

(* A frame read is not rewound if it is an event, and what is behind it on *)
(* the pipe is above it if it is one.                                      *)
LEMMA RouteEInv == ASSUME CallsInv, EInv, NEW p \in Pipes, Route(p) PROVE EInv'
<1> DEFINE g == Stamp(Head(wire[p]), owner[p])
<1>1. counter' = counter
  BY DEF Route, callVars, wardVars
<1>2. /\ \A q \in Pipes : q # p => wire'[q] = wire[q]
      /\ wire'[p] = wire[p] \/ (wire[p] # <<>> /\ wire'[p] = Tail(wire[p]))
  BY RouteFacts DEF Route, CallsInv
<1>3. /\ owner' = owner /\ security' \in [Pipes -> Emitted]
      /\ \A q \in Pipes : q # p => lastSeqNo'[q] = lastSeqNo[q] /\ security'[q] = security[q]
      /\ lastSeqNo' = [lastSeqNo EXCEPT ![p] = lastSeqNo'[p]]
      /\ lastSeqNo'[p] = lastSeqNo[p] \/ /\ lastSeqNo'[p] = g.seqNo
                                         /\ wire[p] # <<>> /\ wire'[p] = Tail(wire[p])
      /\ \/ security'[p].rewound = security[p].rewound
         \/ /\ security'[p].rewound = Append(security[p].rewound, g)
            /\ g.seqNo <= lastSeqNo[p] /\ wire[p] # <<>>
  BY ReadFacts DEF Route, CallsInv, EInv
<1>4. wire[p] # <<>> =>
        /\ 1 \in 1..Len(wire[p]) /\ Head(wire[p]) = wire[p][1] /\ Head(wire[p]) \in Sent
        /\ Tail(wire[p]) \in Seq(Sent)
        /\ \A i \in 1..Len(Tail(wire[p])) :
             i + 1 \in 1..Len(wire[p]) /\ i + 1 # 1 /\ Tail(wire[p])[i] = wire[p][i + 1]
  BY TailElements DEF CallsInv, Shape
<1>5. wire[p] # <<>> => /\ g \in StampedFrames /\ g.seqNo = wire[p][1].seqNo
                        /\ IsEvent(g) <=> IsEvent(wire[p][1])
  <2>1. owner[p] \in AgentIDs \cup {"none"}
    BY DEF EInv, EShape
  <2> QED
    BY <1>4, <2>1 DEF Stamp, Sent, StampedFrames, IsEvent
<1>6. Ascending(p) /\ NoneRewound(p) /\ counter[p] \in Nat /\ lastSeqNo[p] \in Nat
  BY DEF EInv, EShape, CallsInv, Shape
<1>7. security[p].rewound \in Seq(StampedFrames) /\ wire[p] \in Seq(Sent)
  BY DEF EInv, EShape, Emitted, CallsInv, Shape
<1>8. \A i \in 1..Len(wire[p]) : wire[p][i].seqNo \in Nat
  <2>1. \A f \in Sent : f.seqNo \in Nat
    BY DEF Sent
  <2> QED
    BY <1>7, <2>1
<1> HIDE DEF g
<1>9. security'[p].rewound \in Seq(StampedFrames) /\ NoneRewound(p)'
  <2>1. CASE security'[p].rewound = security[p].rewound
    BY <2>1, <1>6, <1>7 DEF NoneRewound
  <2>2. CASE /\ security'[p].rewound = Append(security[p].rewound, g)
             /\ g.seqNo <= lastSeqNo[p] /\ wire[p] # <<>>
    <3>1. ~IsEvent(g)
      BY <2>2, <1>4, <1>5, <1>6, <1>8 DEF Ascending
    <3>2. /\ Append(security[p].rewound, g) \in Seq(StampedFrames)
          /\ \A i \in 1..Len(Append(security[p].rewound, g)) :
               \/ /\ i \in 1..Len(security[p].rewound)
                  /\ Append(security[p].rewound, g)[i] = security[p].rewound[i]
               \/ i = Len(security[p].rewound) + 1 /\ Append(security[p].rewound, g)[i] = g
      BY <2>2, <1>5, <1>7, AppendElements
    <3> QED
      BY <2>2, <3>1, <3>2, <1>6 DEF NoneRewound
  <2> QED
    BY <2>1, <2>2, <1>3
<1>10. EShape'
  <2>1. lastSeqNo'[p] \in Nat
    BY <1>3, <1>4, <1>5, <1>6, <1>8
  <2>2. lastSeqNo' \in [Pipes -> Nat]
    BY <2>1, <1>3 DEF EInv, EShape
  <2> QED
    BY <2>2, <1>3, <1>9 DEF EInv, EShape
<1>11. Ascending(p)'
  <2>1. CASE wire'[p] = wire[p] /\ lastSeqNo'[p] = lastSeqNo[p]
    BY <2>1, <1>1, <1>6 DEF Ascending
  <2>2. CASE wire[p] # <<>> /\ wire'[p] = Tail(wire[p])
    <3>1. lastSeqNo'[p] = lastSeqNo[p] \/ lastSeqNo'[p] = wire[p][1].seqNo
      BY <2>2, <1>3, <1>5
    <3>2. \A i \in 1..Len(wire'[p]) : i + 1 \in 1..Len(wire[p]) /\ i + 1 > 1 /\ wire'[p][i] = wire[p][i + 1]
      BY <2>2, <1>4
    <3>3. 1 \in 1..Len(wire[p]) /\ Len(wire[p]) \in Nat
      BY <2>2, <1>4, <1>7
    <3>4. lastSeqNo'[p] <= counter[p]
      BY <3>1, <3>3, <1>6 DEF Ascending
    <3>5. ASSUME NEW i \in 1..Len(wire'[p])
          PROVE  /\ wire'[p][i].seqNo <= counter[p]
                 /\ IsEvent(wire'[p][i]) => lastSeqNo'[p] < wire'[p][i].seqNo
      BY <3>1, <3>2, <3>3, <1>6 DEF Ascending
    <3>6. ASSUME NEW i \in 1..Len(wire'[p]), NEW j \in 1..Len(wire'[p]), i < j, IsEvent(wire'[p][j])
          PROVE  wire'[p][i].seqNo < wire'[p][j].seqNo
      <4>1. i + 1 < j + 1
        <5>1. Len(wire'[p]) \in Nat
          BY <2>2, <1>4
        <5> QED
          BY <5>1, <3>6
      <4> QED
        BY <4>1, <3>2, <3>6, <1>6 DEF Ascending
    <3> QED
      BY <3>4, <3>5, <3>6, <1>1 DEF Ascending
  <2> QED
    BY <2>1, <2>2, <1>2, <1>3
<1>12. ASSUME NEW q \in Pipes, q # p PROVE Ascending(q)' /\ NoneRewound(q)'
  BY <1>12, <1>1, <1>2, <1>3 DEF EInv, Ascending, NoneRewound
<1> QED
  BY <1>9, <1>10, <1>11, <1>12 DEF EInv

(* Every step keeps the numbers ascending.                                 *)
LEMMA EStepInv == ASSUME CallsInv, EInv, [CNext]_allVars PROVE EInv'
<1>1. ASSUME UNCHANGED <<wire, lastSeqNo, security, counter>>,
             owner' \in [Pipes -> AgentIDs \cup {"none"}]
      PROVE  EInv'
  <2>1. \A p \in Pipes : counter'[p] \in Nat /\ counter'[p] >= counter[p]
    BY <1>1 DEF CallsInv, Shape
  <2> QED
    BY <1>1, <2>1, NothingSent DEF CallsInv
<1>2. owner \in [Pipes -> AgentIDs \cup {"none"}]
  BY DEF EInv, EShape
<1>3. ASSUME NEW c \in Calls, Allocate(c) PROVE EInv'
  <2>1. UNCHANGED <<wire, lastSeqNo, security, owner>>
    BY <1>3 DEF Allocate, vars, routerVars
  <2>2. counter' = [counter EXCEPT ![WardOf(c)] = counter[WardOf(c)] + 1]
    BY <1>3 DEF Allocate
  <2>3. \A p \in Pipes : counter'[p] \in Nat /\ counter'[p] >= counter[p]
    BY <2>2 DEF CallsInv, Shape
  <2> QED
    BY <1>2, <2>1, <2>3, NothingSent DEF CallsInv
<1>4. ASSUME NEW c \in Calls, Transmit(c) PROVE EInv'
  <2> DEFINE w == WardOf(c)
  <2>1. /\ pc[c] = "registered" /\ wire' = [wire EXCEPT ![w] = Append(wire[w], Request(c))]
        /\ UNCHANGED <<owner, lastSeqNo, security, counter>>
    BY <1>4 DEF Transmit, Arrive, routerVars
  <2>2. w \in Pipes
    BY CallsAssumption
  <2>3. /\ Request(c) \in Sent /\ ~IsEvent(Request(c)) /\ Request(c).seqNo = seqOf[c]
    BY DEF Request, Sent, IsEvent, CallsInv, Shape
  <2>4. seqOf[c] <= counter'[w]
    BY <2>1 DEF CallsInv, Numbers
  <2>5. \A p \in Pipes : counter'[p] \in Nat /\ counter'[p] >= counter[p]
    BY <2>1 DEF CallsInv, Shape
  <2> HIDE DEF w
  <2> QED
    BY <2>1, <2>2, <2>3, <2>4, <2>5, FrameSent DEF CallsInv
<1>5. ASSUME NEW w \in Pipes, SendEvent(w) PROVE EInv'
  <2> DEFINE n == counter[w] + 1
  <2>1. /\ counter' = [counter EXCEPT ![w] = n]
        /\ wire' = [wire EXCEPT ![w] = Append(wire[w], Event(n))]
        /\ UNCHANGED <<owner, lastSeqNo, security>>
    BY <1>5 DEF SendEvent, Arrive, routerVars
  <2>2. n \in Nat /\ counter[w] < n
    BY DEF CallsInv, Shape
  <2>3. Event(n) \in Sent /\ Event(n).seqNo = n
    BY <2>2 DEF Event, Sent
  <2>4. n <= counter'[w] /\ \A p \in Pipes : counter'[p] \in Nat /\ counter'[p] >= counter[p]
    BY <2>1, <2>2 DEF CallsInv, Shape
  <2> HIDE DEF n
  <2> QED
    BY <2>1, <2>2, <2>3, <2>4, FrameSent DEF CallsInv
<1>11. ASSUME NEW w \in Pipes, SendEventFails(w) PROVE EInv'
  <2>1. UNCHANGED <<wire, lastSeqNo, security, owner>> /\ counter' = [counter EXCEPT ![w] = counter[w] + 1]
    BY <1>11 DEF SendEventFails, vars, routerVars
  <2>2. \A p \in Pipes : counter'[p] \in Nat /\ counter'[p] >= counter[p]
    BY <2>1 DEF CallsInv, Shape
  <2> QED
    BY <1>2, <2>1, <2>2, NothingSent DEF CallsInv
<1>6. ASSUME NEW p \in Pipes, Create(p) PROVE EInv'
  <2>1. UNCHANGED <<wire, lastSeqNo, security, counter>> /\ owner' = [owner EXCEPT ![p] = Agent]
    BY <1>6 DEF Create, AddPipe, callVars, wardVars
  <2>2. Agent \in AgentIDs
    BY CallsAssumption
  <2> QED
    BY <1>1, <1>2, <2>1, <2>2
<1>7. ASSUME NEW c \in Calls, Register(c) \/ TransmitFails(c) \/ Receive(c) \/ TimeOut(c) \/ Return(c) PROVE EInv'
  BY <1>1, <1>2, <1>7 DEF Register, TransmitFails, Receive, TimeOut, Return, vars, routerVars
<1>8. ASSUME NEW p \in Pipes, RunLoop(p) PROVE EInv'
  BY <1>1, <1>2, <1>8 DEF RunLoop, TakeReply, Deliver, vars, routerVars
<1>9. ASSUME NEW p \in Pipes, Handle(p) PROVE EInv'
  BY <1>1, <1>2, <1>9 DEF Handle, HandleEvent, Lookup, Unsendable, Answer, Decide, HandlerReturns,
                          vars, routerVars, callVars, wardVars
<1>10. CASE Destroy \/ UNCHANGED allVars
  BY <1>1, <1>2, <1>10 DEF Destroy, RemovePipe, allVars, vars, routerVars, callVars, wardVars
<1> QED
  BY <1>3, <1>4, <1>5, <1>6, <1>7, <1>8, <1>9, <1>10, <1>11, RouteEInv DEF CNext, CallStep, Send

(* No completion or failure event is ever dropped as a rewind (send, in    *)
(* cmd/ward/main.go, allocates its number under the lock of the pipe).     *)
THEOREM EventsPass == CSpec => []EventsNeverRewound
<1>1. CallsInv /\ EInv /\ [CNext]_allVars => EInv'
  BY EStepInv
<1>2. EInv => EventsNeverRewound
  BY DEF EInv, NoneRewound, IsEvent, EventsNeverRewound
<1> QED
  BY <1>1, <1>2, CallsInvariance, EInitInv, PTL DEF CSpec
=============================================================================
