------------------------- MODULE CtlFanout_proofs -------------------------
(***************************************************************************)
(* Theorems about the event stream, for any number of connections, events  *)
(* and queue slots.                                                        *)
(***************************************************************************)
EXTENDS CtlFanout, SequenceTheorems, TLAPS

(***************************************************************************)
(* The inductive invariant.  While a removal shifts the slice, the element *)
(* at its position is a duplicate (or the leaver itself): the slice        *)
(* without it is the set of subscribers (Slice).  A fan-out's own copy     *)
(* names connections, never an unwritten element of the array (Copied);    *)
(* as long as no change overlapped it, its copy is the slice, and exactly  *)
(* the connections in front of its index were offered the event (Offered). *)
(***************************************************************************)
Sent(c) == received[c] \o queue[c]
SentTo(c, e) == \E i \in 1..Len(Sent(c)) : Sent(c)[i] = e

Typed ==
  /\ conn \in [Conns -> {"open", "subscribed", "leaving", "gone"}]
  /\ arrays \in Seq(Seq(Conns \cup {NoConn}))
  /\ subs \in [array : 1..Len(arrays), len : Nat]
  /\ removal \in [conn : Conns \cup {NoConn}, at : Nat]
  /\ fanout \in [event : Nat, array : 1..Len(arrays), len : Nat, next : Nat \ {0}]

QueuesTyped ==
  /\ queue \in [Conns -> Seq(Nat)] /\ received \in [Conns -> Seq(Nat)]
  /\ happened \in Nat
  /\ dropped \in [Conns -> SUBSET Nat]
  /\ steady \subseteq Conns /\ raced \subseteq Nat

Slots == (1..subs.len) \ {removal.at}

Slice ==
  /\ subs.len <= Len(arrays[subs.array])
  /\ removal # NoRemoval => /\ removal.conn \in Conns /\ conn[removal.conn] = "leaving"
                            /\ removal.at \in 1..subs.len
  /\ \A i \in 1..subs.len : arrays[subs.array][i] \in Conns
  /\ \A i \in Slots : conn[arrays[subs.array][i]] = "subscribed"
  /\ \A c \in Subscribers : \E i \in Slots : arrays[subs.array][i] = c
  /\ \A i, j \in Slots : arrays[subs.array][i] = arrays[subs.array][j] => i = j

Copied ==
  /\ fanout.len <= Len(arrays[fanout.array])
  /\ \A i \in 1..fanout.len : arrays[fanout.array][i] \in Conns
  /\ FanningOut => fanout.event = happened

Offered ==
  FanningOut /\ fanout.event \notin raced =>
    /\ removal = NoRemoval /\ steady = Subscribers
    /\ fanout.array = subs.array /\ fanout.len = subs.len
    /\ \A i \in 1..fanout.len : i < fanout.next =>
         LET c == arrays[fanout.array][i] IN
         SentTo(c, fanout.event) \/ fanout.event \in dropped[c]
    /\ \A c \in Conns : SentTo(c, fanout.event) =>
         \E i \in 1..fanout.len : i < fanout.next /\ arrays[fanout.array][i] = c

Ordered ==
  \A c \in Conns :
    /\ \A i \in 1..Len(Sent(c)) : Sent(c)[i] <= happened
    /\ \A i, j \in 1..Len(Sent(c)) :
         i < j => Sent(c)[i] < Sent(c)[j] \/ (Sent(c)[i] = Sent(c)[j] /\ Sent(c)[i] \in raced)

Inv == Typed /\ QueuesTyped /\ Slice /\ Copied /\ Offered /\ Ordered

-----------------------------------------------------------------------------
(* Sequences.                                                              *)

(* What a push moves from the queue to the connection stays in place.      *)
LEMMA MovedInPlace ==
  ASSUME NEW S, NEW s \in Seq(S), NEW q \in Seq(S), q # <<>>
  PROVE  Append(s, Head(q)) \o Tail(q) = s \o q
<1>1. /\ Append(s, Head(q)) \in Seq(S) /\ Tail(q) \in Seq(S)
      /\ Len(q) > 0 /\ Len(Tail(q)) = Len(q) - 1 /\ q[1] = Head(q)
  OBVIOUS
<1>2. Len(Append(s, Head(q)) \o Tail(q)) = Len(s \o q)
  BY <1>1
<1>3. ASSUME NEW i \in 1..Len(s \o q)
      PROVE  (Append(s, Head(q)) \o Tail(q))[i] = (s \o q)[i]
  <2>1. CASE i <= Len(s)
    BY <1>1, <2>1
  <2>2. CASE i = Len(s) + 1
    BY <1>1, <2>2
  <2>3. CASE i > Len(s) + 1
    <3>1. (Append(s, Head(q)) \o Tail(q))[i] = Tail(q)[i - (Len(s) + 1)]
      BY <1>1, <2>3
    <3>2. (s \o q)[i] = q[i - Len(s)]
      BY <2>3
    <3>3. Tail(q)[i - (Len(s) + 1)] = q[i - Len(s)]
      BY <1>1, <2>3
    <3> QED
      BY <3>1, <3>2, <3>3
  <2> QED
    BY <2>1, <2>2, <2>3
<1> QED
  <2>1. Append(s, Head(q)) \o Tail(q) \in Seq(S) /\ s \o q \in Seq(S)
    BY <1>1
  <2> QED
    BY <1>2, <1>3, <2>1

(* What is queued comes last of everything sent.                           *)
LEMMA QueuedLast ==
  ASSUME NEW S, NEW s \in Seq(S), NEW q \in Seq(S), NEW e \in S
  PROVE  /\ s \o Append(q, e) \in Seq(S)
         /\ Len(s \o Append(q, e)) = Len(s \o q) + 1
         /\ \A i \in 1..Len(s \o q) : (s \o Append(q, e))[i] = (s \o q)[i]
         /\ (s \o Append(q, e))[Len(s \o q) + 1] = e
<1>1. /\ Append(q, e) \in Seq(S) /\ Len(Append(q, e)) = Len(q) + 1
      /\ Len(s \o q) = Len(s) + Len(q)
  OBVIOUS
<1>2. ASSUME NEW i \in 1..Len(s \o q) PROVE (s \o Append(q, e))[i] = (s \o q)[i]
  <2>1. CASE i <= Len(s)
    BY <1>1, <2>1
  <2>2. CASE i > Len(s)
    BY <1>1, <2>2
  <2> QED
    BY <2>1, <2>2
<1> QED
  BY <1>1, <1>2

(* A store into one element of one array changes nothing else.             *)
LEMMA StoredInPlace ==
  ASSUME NEW X, NEW aa \in Seq(Seq(X)), NEW a \in 1..Len(aa), NEW i \in 1..Len(aa[a]),
         NEW c \in X, NEW bb, bb = [aa EXCEPT ![a][i] = c]
  PROVE  /\ bb \in Seq(Seq(X)) /\ Len(bb) = Len(aa)
         /\ \A b \in 1..Len(aa) :
              /\ Len(bb[b]) = Len(aa[b])
              /\ \A k \in 1..Len(aa[b]) : bb[b][k] = IF b = a /\ k = i THEN c ELSE aa[b][k]
<1>1. aa[a] \in Seq(X) /\ \A b \in 1..Len(aa) : aa[b] \in Seq(X)
  OBVIOUS
<1>2. [aa[a] EXCEPT ![i] = c] \in Seq(X) /\ Len([aa[a] EXCEPT ![i] = c]) = Len(aa[a])
  BY <1>1
<1>3. bb = [aa EXCEPT ![a] = [aa[a] EXCEPT ![i] = c]]
  OBVIOUS
<1>4. bb \in Seq(Seq(X)) /\ Len(bb) = Len(aa)
  BY <1>2, <1>3
<1>5. \A b \in 1..Len(aa) : bb[b] = IF b = a THEN [aa[a] EXCEPT ![i] = c] ELSE aa[b]
  BY <1>3
<1>6. \A k \in 1..Len(aa[a]) : [aa[a] EXCEPT ![i] = c][k] = IF k = i THEN c ELSE aa[a][k]
  BY <1>1
<1> QED
  BY <1>2, <1>4, <1>5, <1>6

-----------------------------------------------------------------------------
(* Go's append, in either case: the slice keeps its elements and gains one *)
(* at its end; no array loses an element that was written.                 *)
LEMMA AppendGrows ==
  ASSUME Typed, Slice, NEW c \in Conns, Appended(c)
  PROVE  /\ arrays' \in Seq(Seq(Conns \cup {NoConn})) /\ Len(arrays') >= Len(arrays)
         /\ subs' \in [array : 1..Len(arrays'), len : Nat]
         /\ subs'.len = subs.len + 1 /\ subs'.len <= Len(arrays'[subs'.array])
         /\ \A i \in 1..subs.len : arrays'[subs'.array][i] = arrays[subs.array][i]
         /\ arrays'[subs'.array][subs.len + 1] = c
         /\ \A b \in 1..Len(arrays) :
              /\ Len(arrays'[b]) = Len(arrays[b])
              /\ \A k \in 1..Len(arrays[b]) : arrays'[b][k] \in {arrays[b][k], c}
<1> DEFINE X == Conns \cup {NoConn}
           old == arrays[subs.array]
           n == subs.len
           kept == SubSeq(old, 1, n) \o <<c>>
           room == [i \in 1..(IF n = 0 THEN 0 ELSE n - 1) |-> NoConn]
<1>1. /\ arrays \in Seq(Seq(X)) /\ subs.array \in 1..Len(arrays) /\ old \in Seq(X)
      /\ n \in Nat /\ n <= Len(old) /\ c \in X
      /\ subs \in [array : 1..Len(arrays), len : Nat]
  BY DEF Typed, Slice
<1>2. CASE n < Len(old)
  <2>1. arrays' = [arrays EXCEPT ![subs.array][n + 1] = c] /\ subs' = [subs EXCEPT !.len = n + 1]
    BY <1>2 DEF Appended
  <2>2. subs'.array = subs.array /\ subs'.len = n + 1 /\ n + 1 \in 1..Len(old)
    BY <1>1, <1>2, <2>1
  <2>3. /\ arrays' \in Seq(Seq(X)) /\ Len(arrays') = Len(arrays)
        /\ \A b \in 1..Len(arrays) :
             /\ Len(arrays'[b]) = Len(arrays[b])
             /\ \A k \in 1..Len(arrays[b]) :
                  arrays'[b][k] = IF b = subs.array /\ k = n + 1 THEN c ELSE arrays[b][k]
    BY <1>1, <2>1, <2>2, StoredInPlace
  <2>4. subs' \in [array : 1..Len(arrays'), len : Nat]
    <3>1. subs' = [array |-> subs.array, len |-> n + 1]
      BY <1>1, <2>1
    <3> QED
      BY <1>1, <2>3, <3>1
  <2>5. \A i \in 1..n : i \in 1..Len(old) /\ i # n + 1
    BY <1>1
  <2> HIDE DEF n
  <2>6. \A i \in 1..n : arrays'[subs'.array][i] = old[i]
    BY <1>1, <2>2, <2>3, <2>5
  <2>7. arrays'[subs'.array][n + 1] = c
    BY <1>1, <2>2, <2>3
  <2>8. \A b \in 1..Len(arrays) : \A k \in 1..Len(arrays[b]) : arrays'[b][k] \in {arrays[b][k], c}
    BY <2>3
  <2>9. Len(arrays') >= Len(arrays) /\ subs'.len <= Len(arrays'[subs'.array])
    BY <1>1, <2>2, <2>3
  <2> QED
    BY <2>2, <2>3, <2>4, <2>6, <2>7, <2>8, <2>9 DEF n
<1>3. CASE ~(n < Len(old))
  <2>1. /\ arrays' = Append(arrays, kept \o room)
        /\ subs' = [array |-> Len(arrays) + 1, len |-> n + 1]
    BY <1>3 DEF Appended
  <2>2. SubSeq(old, 1, n) \in Seq(X) /\ Len(SubSeq(old, 1, n)) = n
    BY <1>1
  <2>3. \A i \in 1..n : SubSeq(old, 1, n)[i] = old[i]
    BY <1>1
  <2>4. /\ kept \in Seq(X) /\ Len(kept) = n + 1 /\ kept[n + 1] = c
        /\ \A i \in 1..n : kept[i] = old[i]
    BY <1>1, <2>2, <2>3
  <2>5. room \in Seq(X)
    BY <1>1
  <2> HIDE DEF kept, room, old
  <2>6. /\ kept \o room \in Seq(X) /\ Len(kept \o room) >= n + 1
        /\ \A i \in 1..(n + 1) : (kept \o room)[i] = kept[i]
    BY <1>1, <2>4, <2>5
  <2>7. /\ arrays' \in Seq(Seq(X)) /\ Len(arrays') = Len(arrays) + 1
        /\ arrays'[Len(arrays) + 1] = kept \o room
        /\ \A b \in 1..Len(arrays) : arrays'[b] = arrays[b]
    BY <1>1, <2>1, <2>6
  <2>8. subs'.array = Len(arrays) + 1 /\ subs'.len = n + 1
    BY <2>1
  <2>9. subs' \in [array : 1..Len(arrays'), len : Nat]
    BY <1>1, <2>1, <2>7
  <2>10. \A i \in 1..n : arrays'[subs'.array][i] = old[i]
    BY <1>1, <2>4, <2>6, <2>7, <2>8
  <2> QED
    BY SMTT(30), <1>1, <2>4, <2>6, <2>7, <2>8, <2>9, <2>10 DEF old
<1> QED
  BY <1>2, <1>3

-----------------------------------------------------------------------------
(* The invariant, action by action.                                        *)

LEMMA SentTyped ==
  ASSUME QueuesTyped, NEW c \in Conns
  PROVE  Sent(c) \in Seq(Nat) /\ Len(Sent(c)) \in Nat /\ \A i \in 1..Len(Sent(c)) : Sent(c)[i] \in Nat
<1>1. received[c] \in Seq(Nat) /\ queue[c] \in Seq(Nat)
  BY DEF QueuesTyped
<1>2. Sent(c) \in Seq(Nat)
  BY <1>1 DEF Sent
<1> QED
  BY <1>2

(* As long as nothing is sent, the order of what was sent stays.           *)
LEMMA NothingSent ==
  ASSUME Ordered, raced \subseteq raced', happened' = happened,
         \A c \in Conns : Sent(c)' = Sent(c)
  PROVE  Ordered'
BY DEF Ordered

LEMMA InitInv == Init => Inv
<1> SUFFICES ASSUME Init PROVE Inv
  OBVIOUS
<1>1. Len(arrays) = 1 /\ arrays[1] = <<>> /\ Len(arrays[1]) = 0
  BY DEF Init
<1>2. Typed /\ QueuesTyped
  <2>1. arrays \in Seq(Seq(Conns \cup {NoConn}))
    BY DEF Init
  <2>2. queue \in [Conns -> Seq(Nat)] /\ received \in [Conns -> Seq(Nat)]
    BY DEF Init
  <2> QED
    BY <1>1, <2>1, <2>2 DEF Init, Typed, QueuesTyped, NoRemoval, Idle
<1>3. Slice
  BY <1>1 DEF Init, Slice, Slots, NoRemoval, Subscribers
<1>4. Copied /\ Offered
  BY <1>1 DEF Init, Copied, Offered, FanningOut, Idle
<1>5. \A c \in Conns : received[c] = <<>> /\ queue[c] = <<>>
  BY DEF Init
<1>6. \A c \in Conns : Len(Sent(c)) = 0
  <2>1. Len(<<>> \o <<>>) = 0
    OBVIOUS
  <2> QED
    BY <1>5, <2>1 DEF Sent
<1>7. ASSUME NEW c \in Conns PROVE 1..Len(Sent(c)) = {}
  <2>1. Len(Sent(c)) = 0
    BY <1>6
  <2> QED
    BY <2>1
<1>8. Ordered
  BY <1>7 DEF Ordered
<1> QED
  BY <1>2, <1>3, <1>4, <1>8 DEF Inv

(* A change of ctlSubs leaves what was sent alone, and takes the fan-out   *)
(* in progress, if there is one, out of Offered.                           *)
LEMMA RacedStep ==
  ASSUME Inv, NoteRace, UNCHANGED <<fanout, queue, received, happened>>
  PROVE  raced' \subseteq Nat /\ Offered' /\ Ordered'
<1>1. raced \subseteq raced' /\ raced' \subseteq Nat /\ (FanningOut => fanout.event \in raced')
  BY DEF NoteRace, Inv, Typed, QueuesTyped
<1>2. Offered'
  BY <1>1 DEF Offered, FanningOut
<1>3. Ordered'
  <2>1. \A c \in Conns : Sent(c)' = Sent(c)
    BY DEF Sent
  <2> QED
    BY <1>1, <2>1, NothingSent DEF Inv
<1> QED
  BY <1>1, <1>2, <1>3

LEMMA SubscribeStep ==
  ASSUME Inv, NEW c \in Conns, Subscribe(c)
  PROVE  Inv'
<1>1. raced' \subseteq Nat /\ Offered' /\ Ordered'
  BY RacedStep DEF Subscribe
<1>2. /\ arrays' \in Seq(Seq(Conns \cup {NoConn})) /\ Len(arrays') >= Len(arrays)
      /\ subs' \in [array : 1..Len(arrays'), len : Nat]
      /\ subs'.len = subs.len + 1 /\ subs'.len <= Len(arrays'[subs'.array])
      /\ \A i \in 1..subs.len : arrays'[subs'.array][i] = arrays[subs.array][i]
      /\ arrays'[subs'.array][subs.len + 1] = c
      /\ \A b \in 1..Len(arrays) :
           /\ Len(arrays'[b]) = Len(arrays[b])
           /\ \A k \in 1..Len(arrays[b]) : arrays'[b][k] \in {arrays[b][k], c}
  BY AppendGrows DEF Subscribe, Inv
<1>3. /\ conn \in [Conns -> {"open", "subscribed", "leaving", "gone"}] /\ conn[c] = "open"
      /\ conn' = [conn EXCEPT ![c] = "subscribed"]
      /\ removal = NoRemoval /\ removal' = NoRemoval /\ subs.len \in Nat
      /\ Len(arrays) \in Nat /\ Len(arrays') \in Nat
  <2>1. Len(arrays) \in Nat /\ Len(arrays') \in Nat
    <3>1. arrays \in Seq(Seq(Conns \cup {NoConn}))
      BY DEF Inv, Typed
    <3> QED
      BY <1>2, <3>1
  <2> QED
    BY <2>1 DEF Subscribe, Inv, Typed
<1>4. Typed'
  <2>1. fanout' \in [event : Nat, array : 1..Len(arrays'), len : Nat, next : Nat \ {0}]
    BY <1>2, <1>3 DEF Subscribe, Inv, Typed
  <2> QED
    BY <1>1, <1>2, <1>3, <2>1 DEF Subscribe, Inv, Typed
<1>5. Slice'
  <2>1. Slots = 1..subs.len /\ Slots' = 1..(subs.len + 1)
    BY <1>2, <1>3 DEF Slots, NoRemoval
  <2>2. \A i \in 1..subs.len : conn[arrays'[subs'.array][i]] = "subscribed"
    BY ZenonT(40), <1>2, <1>3, <2>1 DEF Inv, Slice
  <2>3. \A i \in 1..(subs.len + 1) : i \in 1..subs.len \/ i = subs.len + 1
    BY <1>3
  <2>4. \A i \in Slots' : /\ arrays'[subs'.array][i] \in Conns
                          /\ conn'[arrays'[subs'.array][i]] = "subscribed"
    BY <1>2, <1>3, <2>1, <2>2, <2>3 DEF Inv, Slice
  <2>5. \A d \in Subscribers' : \E i \in Slots' : arrays'[subs'.array][i] = d
    <3> SUFFICES ASSUME NEW d \in Subscribers' PROVE \E i \in Slots' : arrays'[subs'.array][i] = d
      OBVIOUS
    <3>1. CASE d = c
      BY <1>2, <1>3, <2>1, <3>1
    <3>2. CASE d # c
      <4>1. d \in Subscribers
        BY <1>3, <3>2 DEF Subscribers
      <4>2. \E i \in 1..subs.len : arrays[subs.array][i] = d
        BY <2>1, <4>1 DEF Inv, Slice
      <4>3. 1..subs.len \subseteq Slots'
        BY <1>3, <2>1
      <4> QED
        BY <1>2, <4>2, <4>3
    <3> QED
      BY <3>1, <3>2
  <2>6. \A i, j \in Slots' : arrays'[subs'.array][i] = arrays'[subs'.array][j] => i = j
    <3>1. \A i \in 1..subs.len : arrays'[subs'.array][i] # c
      BY <1>3, <2>2
    <3>2. \A i, j \in 1..subs.len : arrays'[subs'.array][i] = arrays'[subs'.array][j] => i = j
      BY <1>2, <2>1 DEF Inv, Slice
    <3> QED
      BY <1>2, <2>1, <2>3, <3>1, <3>2
  <2> QED
    BY <1>2, <1>3, <2>1, <2>4, <2>5, <2>6 DEF Slice
<1>6. Copied'
  <2>1. /\ fanout.array \in 1..Len(arrays) /\ fanout.len \in Nat
        /\ fanout.len <= Len(arrays[fanout.array]) /\ Len(arrays[fanout.array]) \in Nat
    BY DEF Inv, Typed, Copied
  <2>2. \A i \in 1..fanout.len : i \in 1..Len(arrays[fanout.array]) /\ arrays[fanout.array][i] \in Conns
    BY <2>1 DEF Inv, Copied
  <2>3. fanout.len <= Len(arrays'[fanout.array]) /\ \A i \in 1..fanout.len : arrays'[fanout.array][i] \in Conns
    BY <1>2, <2>1, <2>2
  <2> QED
    BY <2>3 DEF Subscribe, Inv, Copied, FanningOut
<1>7. QueuesTyped'
  BY <1>1 DEF Subscribe, Inv, QueuesTyped
<1> QED
  BY <1>1, <1>7, <1>4, <1>5, <1>6 DEF Inv

LEMMA DisconnectStep ==
  ASSUME Inv, NEW c \in Conns, Disconnect(c)
  PROVE  Inv'
<1>1. raced' \subseteq Nat /\ Offered' /\ Ordered'
  BY RacedStep DEF Disconnect
<1>2. PICK i \in 1..subs.len : arrays[subs.array][i] = c /\ removal' = [conn |-> c, at |-> i]
  BY DEF Disconnect
<1>3. /\ conn \in [Conns -> {"open", "subscribed", "leaving", "gone"}] /\ conn[c] = "subscribed"
      /\ conn' = [conn EXCEPT ![c] = "leaving"] /\ removal = NoRemoval /\ subs.len \in Nat
      /\ UNCHANGED <<arrays, subs, fanout>>
  BY DEF Disconnect, Inv, Typed
<1>4. Typed'
  BY <1>1, <1>2, <1>3 DEF Disconnect, Inv, Typed
<1>5. Slice'
  <2>1. /\ Slots = 1..subs.len /\ Slots' = (1..subs.len) \ {i}
        /\ removal'.at = i /\ removal'.conn = c
    BY <1>2, <1>3 DEF Slots, NoRemoval
  <2>2. \A j \in Slots' : arrays[subs.array][j] \in Conns \ {c}
    BY <1>2, <2>1 DEF Inv, Slice
  <2>3. \A j \in Slots' : conn'[arrays[subs.array][j]] = "subscribed"
    BY <1>3, <2>1, <2>2 DEF Inv, Slice
  <2>4. \A d \in Subscribers' : \E j \in Slots' : arrays[subs.array][j] = d
    <3> SUFFICES ASSUME NEW d \in Subscribers' PROVE \E j \in Slots' : arrays[subs.array][j] = d
      OBVIOUS
    <3>1. d \in Subscribers /\ d # c
      BY <1>3 DEF Subscribers
    <3>2. \E j \in Slots : arrays[subs.array][j] = d
      BY <3>1 DEF Inv, Slice
    <3> QED
      BY <1>2, <2>1, <3>1, <3>2
  <2> QED
    BY <1>2, <1>3, <2>1, <2>3, <2>4 DEF Inv, Slice
<1>6. Copied'
  BY <1>3 DEF Disconnect, Inv, Copied, FanningOut
<1>7. QueuesTyped'
  BY <1>1 DEF Disconnect, Inv, QueuesTyped
<1> QED
  BY <1>1, <1>7, <1>4, <1>5, <1>6 DEF Inv

LEMMA ShiftStep ==
  ASSUME Inv, Shift
  PROVE  Inv'
<1> DEFINE a == subs.array
           k == removal.at
<1>1. raced' \subseteq Nat /\ Offered' /\ Ordered'
  BY RacedStep DEF Shift
<1>2. /\ removal # NoRemoval /\ k \in 1..subs.len /\ k < subs.len /\ subs.len \in Nat
      /\ k + 1 \in 1..subs.len /\ subs.len <= Len(arrays[a])
      /\ removal' = [removal EXCEPT !.at = k + 1] /\ removal \in [conn : Conns \cup {NoConn}, at : Nat]
      /\ arrays \in Seq(Seq(Conns \cup {NoConn})) /\ a \in 1..Len(arrays)
      /\ UNCHANGED <<conn, subs, fanout>>
  BY DEF Shift, Inv, Typed, Slice
<1>3. arrays[a][k + 1] \in Conns /\ arrays[a] \in Seq(Conns \cup {NoConn})
  BY <1>2 DEF Inv, Slice
<1>4. removal'.at = k + 1 /\ removal'.conn = removal.conn /\ removal' \in [conn : Conns \cup {NoConn}, at : Nat]
  BY <1>2
<1>5. k \in 1..Len(arrays[a])
  BY <1>2, <1>3
<1>6. /\ arrays' \in Seq(Seq(Conns \cup {NoConn})) /\ Len(arrays') = Len(arrays)
      /\ \A b \in 1..Len(arrays) :
           /\ Len(arrays'[b]) = Len(arrays[b])
           /\ \A i \in 1..Len(arrays[b]) :
                arrays'[b][i] = IF b = a /\ i = k THEN arrays[a][k + 1] ELSE arrays[b][i]
  <2>1. arrays' = [arrays EXCEPT ![a][k] = arrays[a][k + 1]]
    BY DEF Shift
  <2> HIDE DEF a, k
  <2> QED
    BY <1>2, <1>3, <1>5, <2>1, StoredInPlace
<1>7. Typed'
  BY <1>1, <1>2, <1>4, <1>6 DEF Shift, Inv, Typed
<1>8. Slice'
  <2>1. Slots' = (1..subs.len) \ {k + 1} /\ Slots = (1..subs.len) \ {k}
    BY <1>2, <1>4 DEF Slots
  <2>2. \A i \in 1..subs.len : i \in 1..Len(arrays[a])
    BY <1>2, <1>3
  <2>3. \A i \in 1..subs.len : arrays'[a][i] = IF i = k THEN arrays[a][k + 1] ELSE arrays[a][i]
    BY <1>2, <1>6, <2>2
  <2>4. /\ \A i \in Slots' : i # k => i \in Slots
        /\ k + 1 \in Slots /\ k \in Slots' /\ \A i \in Slots : i # k + 1 => i \in Slots'
    BY <1>2, <2>1
  <2> HIDE DEF a, k
  <2>5. \A i \in 1..subs.len : arrays'[a][i] \in Conns
    BY <1>2, <1>3, <2>3 DEF Inv, Slice, a
  <2>6. \A i \in Slots' : conn[arrays'[a][i]] = "subscribed"
    <3>1. \A i \in Slots : conn[arrays[a][i]] = "subscribed"
      BY DEF Inv, Slice, a
    <3>2. \A i \in Slots' : arrays'[a][i] = arrays[a][IF i = k THEN k + 1 ELSE i]
      BY <2>1, <2>3
    <3> QED
      BY <2>4, <3>1, <3>2
  <2>7. \A c \in Subscribers : \E i \in Slots' : arrays'[a][i] = c
    <3> SUFFICES ASSUME NEW c \in Subscribers PROVE \E i \in Slots' : arrays'[a][i] = c
      OBVIOUS
    <3>1. PICK i \in Slots : arrays[a][i] = c
      BY DEF Inv, Slice, a
    <3>2. CASE i = k + 1
      BY <1>2, <2>3, <2>4, <3>1, <3>2
    <3>3. CASE i # k + 1
      <4>1. i \in Slots' /\ i # k /\ i \in 1..subs.len
        BY <2>1, <2>4, <3>3
      <4> QED
        BY <2>3, <3>1, <4>1
    <3> QED
      BY <3>2, <3>3
  <2>8. \A i, j \in Slots' : arrays'[a][i] = arrays'[a][j] => i = j
    <3> SUFFICES ASSUME NEW i \in Slots', NEW j \in Slots', arrays'[a][i] = arrays'[a][j], i # j PROVE FALSE
      OBVIOUS
    <3> DEFINE from(x) == IF x = k THEN k + 1 ELSE x
    <3>1. from(i) \in Slots /\ from(j) \in Slots /\ from(i) # from(j)
      BY <2>1, <2>4
    <3>2. arrays[a][from(i)] = arrays'[a][i] /\ arrays[a][from(j)] = arrays'[a][j]
      BY <2>1, <2>3
    <3> HIDE DEF from
    <3>3. from(i) = from(j)
      BY <3>1, <3>2 DEF Inv, Slice, a
    <3> QED
      BY <3>1, <3>3
  <2>9. subs.len <= Len(arrays'[a])
    BY <1>2, <1>6
  <2>10. removal' # NoRemoval => /\ removal'.conn \in Conns /\ conn[removal'.conn] = "leaving"
                                 /\ removal'.at \in 1..subs.len
    BY <1>2, <1>4 DEF Inv, Slice
  <2> QED
    BY <1>2, <2>5, <2>6, <2>7, <2>8, <2>9, <2>10 DEF Slice, Subscribers, a
<1>9. Copied'
  <2>1. fanout.array \in 1..Len(arrays) /\ fanout.len \in Nat /\ fanout.len <= Len(arrays[fanout.array])
    BY DEF Inv, Typed, Copied
  <2>2. \A i \in 1..fanout.len : i \in 1..Len(arrays[fanout.array])
    BY <1>2, <2>1
  <2> HIDE DEF a, k
  <2>3. \A i \in 1..fanout.len : arrays'[fanout.array][i] \in Conns
    BY <1>3, <1>6, <2>1, <2>2 DEF Inv, Copied
  <2>4. fanout.len <= Len(arrays'[fanout.array])
    BY <1>6, <2>1
  <2> QED
    BY <1>2, <2>3, <2>4 DEF Shift, Inv, Copied, FanningOut
<1>10. QueuesTyped'
  BY <1>1 DEF Shift, Inv, QueuesTyped
<1> QED
  BY <1>1, <1>10, <1>7, <1>8, <1>9 DEF Inv

LEMMA ShortenStep ==
  ASSUME Inv, Shorten
  PROVE  Inv'
<1>1. raced' \subseteq Nat /\ Offered' /\ Ordered'
  BY RacedStep DEF Shorten
<1>2. /\ removal # NoRemoval /\ removal.at = subs.len /\ subs.len \in Nat /\ subs.len >= 1
      /\ removal' = NoRemoval /\ removal.conn \in Conns /\ conn[removal.conn] = "leaving"
      /\ subs \in [array : 1..Len(arrays), len : Nat] /\ subs' = [subs EXCEPT !.len = subs.len - 1]
      /\ conn \in [Conns -> {"open", "subscribed", "leaving", "gone"}]
      /\ conn' = [conn EXCEPT ![removal.conn] = "gone"]
      /\ UNCHANGED <<arrays, fanout>>
  BY DEF Shorten, Inv, Typed, Slice
<1>3. subs'.array = subs.array /\ subs'.len = subs.len - 1 /\ subs' \in [array : 1..Len(arrays), len : Nat]
  BY <1>2
<1>4. Typed'
  BY <1>1, <1>2, <1>3 DEF Shorten, Inv, Typed, NoRemoval
<1>5. Slice'
  <2>1. Slots = 1..(subs.len - 1) /\ Slots' = 1..(subs.len - 1)
    BY <1>2, <1>3 DEF Slots, NoRemoval
  <2>2. Subscribers' = Subscribers
    BY <1>2 DEF Subscribers
  <2>3. \A i \in Slots : /\ i \in 1..subs.len
                         /\ conn'[arrays[subs.array][i]] = "subscribed"
    BY <1>2, <2>1 DEF Inv, Slice
  <2>4. subs'.len <= Len(arrays[subs.array])
    <3>1. Len(arrays[subs.array]) \in Nat
      BY <1>2 DEF Inv, Typed
    <3> QED
      BY <1>2, <1>3, <3>1 DEF Inv, Slice
  <2> QED
    BY <1>2, <1>3, <2>1, <2>2, <2>3, <2>4 DEF Inv, Slice
<1>6. Copied'
  BY <1>2 DEF Shorten, Inv, Copied, FanningOut
<1>7. QueuesTyped'
  BY <1>1 DEF Shorten, Inv, QueuesTyped
<1> QED
  BY <1>1, <1>7, <1>4, <1>5, <1>6 DEF Inv

LEMMA PushStep ==
  ASSUME Inv, NEW c \in Conns, Push(c)
  PROVE  Inv'
<1>1. /\ queue \in [Conns -> Seq(Nat)] /\ received \in [Conns -> Seq(Nat)] /\ queue[c] # <<>>
      /\ received' = [received EXCEPT ![c] = Append(received[c], Head(queue[c]))]
      /\ queue' = [queue EXCEPT ![c] = Tail(queue[c])]
      /\ UNCHANGED <<conn, subsVars, fanout, happened, history>>
  BY DEF Push, Inv, QueuesTyped
<1>2. \A d \in Conns : Sent(d)' = Sent(d)
  <2>1. /\ received'[c] = Append(received[c], Head(queue[c])) /\ queue'[c] = Tail(queue[c])
        /\ \A d \in Conns : d # c => received'[d] = received[d] /\ queue'[d] = queue[d]
        /\ received[c] \in Seq(Nat) /\ queue[c] \in Seq(Nat)
    BY <1>1
  <2>2. Append(received[c], Head(queue[c])) \o Tail(queue[c]) = received[c] \o queue[c]
    BY <1>1, <2>1, MovedInPlace
  <2> QED
    BY <2>1, <2>2 DEF Sent
<1>3. Typed' /\ QueuesTyped'
  <2>1. Head(queue[c]) \in Nat /\ Tail(queue[c]) \in Seq(Nat) /\ Append(received[c], Head(queue[c])) \in Seq(Nat)
    BY <1>1
  <2>2. queue' \in [Conns -> Seq(Nat)] /\ received' \in [Conns -> Seq(Nat)]
    BY <1>1, <2>1
  <2>3. Typed'
    BY <1>1 DEF Inv, Typed, subsVars
  <2> QED
    BY <1>1, <2>2, <2>3 DEF Inv, QueuesTyped, history
<1>4. Slice' /\ Copied'
  BY <1>1 DEF Inv, Slice, Copied, Slots, Subscribers, subsVars, FanningOut
<1>5. \A d \in Conns : \A e : SentTo(d, e)' <=> \E i \in 1..Len(Sent(d)) : Sent(d)[i] = e'
  BY <1>2 DEF SentTo
<1>6. Offered'
  <2>1. /\ Offered /\ Copied /\ fanout' = fanout /\ arrays' = arrays /\ subs' = subs /\ conn' = conn
        /\ removal' = removal /\ dropped' = dropped /\ steady' = steady /\ raced' = raced
    BY <1>1 DEF Inv, subsVars, history
  <2> QED
    BY <1>2, <2>1 DEF Offered, Copied, SentTo, Subscribers, FanningOut
<1>7. Ordered'
  BY <1>1, <1>2, NothingSent DEF Inv, history
<1> QED
  BY <1>3, <1>4, <1>6, <1>7 DEF Inv

LEMMA BeginStep ==
  ASSUME Inv, Begin
  PROVE  Inv'
<1>1. /\ removal = NoRemoval /\ happened \in Nat /\ happened' = happened + 1
      /\ fanout' = [event |-> happened + 1, array |-> subs.array, len |-> subs.len, next |-> 1]
      /\ steady' = Subscribers
      /\ UNCHANGED <<conn, subsVars, queue, received, dropped, raced>>
  BY DEF Begin, Inv, QueuesTyped
<1>2. Typed' /\ QueuesTyped'
  <2>1. Typed'
    BY <1>1 DEF Inv, Typed, subsVars
  <2> QED
    BY <1>1, <2>1 DEF Inv, QueuesTyped, Subscribers
<1>3. Slice' /\ Copied'
  BY <1>1 DEF Inv, Slice, Copied, Slots, Subscribers, subsVars, FanningOut
<1>4. \A c \in Conns : Sent(c)' = Sent(c)
  BY <1>1 DEF Sent
<1>5. \A c \in Conns : \A i \in 1..Len(Sent(c)) : Sent(c)[i] \in Nat /\ Sent(c)[i] # happened + 1
  BY <1>1, SentTyped DEF Inv, Ordered
<1>6. Offered'
  <2>1. \A c \in Conns : ~SentTo(c, fanout.event)'
    BY <1>1, <1>4, <1>5 DEF SentTo
  <2>2. fanout'.next = 1 /\ fanout'.len = subs.len /\ fanout'.array = subs.array
    BY <1>1
  <2> QED
    BY <1>1, <2>1, <2>2 DEF Offered, subsVars, Subscribers
<1>7. Ordered'
  BY <1>1, <1>4, <1>5 DEF Inv, Ordered
<1> QED
  BY <1>2, <1>3, <1>6, <1>7 DEF Inv

LEMMA OfferStep ==
  ASSUME Inv, Offer
  PROVE  Inv'
<1> SUFFICES ASSUME NEW e, e = fanout.event,
                    NEW c, c = arrays[fanout.array][fanout.next]
             PROVE  Inv'
  OBVIOUS
<1>1. /\ fanout \in [event : Nat, array : 1..Len(arrays), len : Nat, next : Nat \ {0}]
      /\ FanningOut /\ fanout.next \in 1..fanout.len /\ c \in Conns /\ e = happened /\ e \in Nat
      /\ fanout' = [fanout EXCEPT !.next = fanout.next + 1]
      /\ UNCHANGED <<conn, subsVars, received, happened, steady, raced>>
      /\ queue \in [Conns -> Seq(Nat)] /\ received \in [Conns -> Seq(Nat)] /\ dropped \in [Conns -> SUBSET Nat]
  <2>1. /\ fanout \in [event : Nat, array : 1..Len(arrays), len : Nat, next : Nat \ {0}]
        /\ FanningOut /\ fanout.next <= fanout.len
    BY DEF Offer, Inv, Typed
  <2>2. fanout.next \in 1..fanout.len /\ e \in Nat
    BY <2>1
  <2>3. c \in Conns /\ e = happened
    BY <2>1, <2>2 DEF Inv, Copied
  <2> QED
    BY <2>1, <2>2, <2>3 DEF Offer, Inv, QueuesTyped
<1>2. /\ fanout'.event = e /\ fanout'.array = fanout.array /\ fanout'.len = fanout.len
      /\ fanout'.next = fanout.next + 1
      /\ fanout' \in [event : Nat, array : 1..Len(arrays), len : Nat, next : Nat \ {0}]
  <2>1. fanout' = [event |-> e, array |-> fanout.array, len |-> fanout.len, next |-> fanout.next + 1]
    BY <1>1
  <2>2. fanout.array \in 1..Len(arrays) /\ fanout.len \in Nat /\ fanout.next + 1 \in Nat \ {0}
    BY <1>1
  <2>3. fanout' \in [event : Nat, array : 1..Len(arrays), len : Nat, next : Nat \ {0}]
    BY <1>1, <2>1, <2>2
  <2> QED
    BY <2>1, <2>3
<1>3. \/ /\ queue' = [queue EXCEPT ![c] = Append(queue[c], e)] /\ dropped' = dropped
      \/ /\ dropped' = [dropped EXCEPT ![c] = dropped[c] \cup {e}] /\ queue' = queue
  BY DEF Offer
<1>4. Typed' /\ QueuesTyped'
  <2>1. Typed'
    BY <1>1, <1>2 DEF Inv, Typed, subsVars
  <2>2. Append(queue[c], e) \in Seq(Nat) /\ dropped[c] \cup {e} \in SUBSET Nat
    BY <1>1
  <2>3. queue' \in [Conns -> Seq(Nat)]
    BY <1>1, <1>3, <2>2
  <2>4. dropped' \in [Conns -> SUBSET Nat]
    <3>1. CASE dropped' = dropped
      BY <1>1, <3>1
    <3>2. CASE dropped' = [dropped EXCEPT ![c] = dropped[c] \cup {e}]
      BY <1>1, <2>2, <3>2
    <3> QED
      BY <1>3, <3>1, <3>2
  <2> QED
    BY <1>1, <2>1, <2>3, <2>4 DEF Inv, QueuesTyped
<1>5. Slice'
  BY <1>1 DEF Inv, Slice, Slots, Subscribers, subsVars
<1>6. Copied'
  BY <1>1, <1>2 DEF Inv, Copied, FanningOut, subsVars
<1>7. \A d \in Conns : d # c => Sent(d)' = Sent(d)
  BY <1>1, <1>3 DEF Sent
<1>8. \/ Sent(c)' = Sent(c) /\ e \in dropped'[c]
      \/ /\ Sent(c)' \in Seq(Nat) /\ Len(Sent(c)') = Len(Sent(c)) + 1
         /\ \A i \in 1..Len(Sent(c)) : Sent(c)'[i] = Sent(c)[i]
         /\ Sent(c)'[Len(Sent(c)) + 1] = e
  <2>1. CASE queue' = [queue EXCEPT ![c] = Append(queue[c], e)]
    <3>1. /\ received'[c] = received[c] /\ queue'[c] = Append(queue[c], e)
          /\ received[c] \in Seq(Nat) /\ queue[c] \in Seq(Nat) /\ e \in Nat
      BY <1>1, <2>1
    <3>2. /\ received[c] \o Append(queue[c], e) \in Seq(Nat)
          /\ Len(received[c] \o Append(queue[c], e)) = Len(received[c] \o queue[c]) + 1
          /\ \A i \in 1..Len(received[c] \o queue[c]) :
               (received[c] \o Append(queue[c], e))[i] = (received[c] \o queue[c])[i]
          /\ (received[c] \o Append(queue[c], e))[Len(received[c] \o queue[c]) + 1] = e
      <4>1. \A s, q \in Seq(Nat) :
              /\ s \o Append(q, e) \in Seq(Nat)
              /\ Len(s \o Append(q, e)) = Len(s \o q) + 1
              /\ \A i \in 1..Len(s \o q) : (s \o Append(q, e))[i] = (s \o q)[i]
              /\ (s \o Append(q, e))[Len(s \o q) + 1] = e
        <5> SUFFICES ASSUME NEW s \in Seq(Nat), NEW q \in Seq(Nat)
                     PROVE  /\ s \o Append(q, e) \in Seq(Nat)
                            /\ Len(s \o Append(q, e)) = Len(s \o q) + 1
                            /\ \A i \in 1..Len(s \o q) : (s \o Append(q, e))[i] = (s \o q)[i]
                            /\ (s \o Append(q, e))[Len(s \o q) + 1] = e
          OBVIOUS
        <5>1. e \in Nat
          BY <3>1
        <5> HIDE <3>1
        <5> QED
          BY <5>1, QueuedLast
      <4> QED
        BY <3>1, <4>1
    <3> QED
      BY <3>1, <3>2 DEF Sent
  <2>2. CASE dropped' = [dropped EXCEPT ![c] = dropped[c] \cup {e}] /\ queue' = queue
    <3>1. e \in dropped'[c]
      BY <1>1, <2>2
    <3> QED
      BY <1>1, <2>2, <3>1 DEF Sent
  <2> QED
    BY <1>3, <2>1, <2>2
<1>9. \A d \in Conns : Len(Sent(d)) \in Nat /\ \A i \in 1..Len(Sent(d)) : Sent(d)[i] \in Nat
  BY SentTyped DEF Inv
<1>10. ASSUME NEW d \in Conns
       PROVE  /\ \A k \in 1..Len(Sent(d)) : k \in 1..Len(Sent(d)') /\ Sent(d)'[k] = Sent(d)[k]
              /\ \A k \in 1..Len(Sent(d)') : k \notin 1..Len(Sent(d)) => d = c /\ Sent(d)'[k] = e
              /\ d = c => e \in dropped'[d] \/ \E k \in 1..Len(Sent(d)') : Sent(d)'[k] = e
              /\ dropped[d] \subseteq dropped'[d]
  <2>1. dropped[d] \subseteq dropped'[d]
    <3>1. CASE dropped' = dropped
      BY <3>1
    <3>2. CASE dropped' = [dropped EXCEPT ![c] = dropped[c] \cup {e}]
      BY <1>1, <3>2
    <3> QED
      BY <1>3, <3>1, <3>2
  <2>2. CASE Sent(d)' = Sent(d)
    BY <1>7, <1>8, <1>9, <2>1, <2>2
  <2>3. CASE Sent(d)' # Sent(d)
    <3>1. /\ d = c /\ Len(Sent(d)') = Len(Sent(d)) + 1 /\ Len(Sent(d)) \in Nat
          /\ \A i \in 1..Len(Sent(d)) : Sent(d)'[i] = Sent(d)[i]
          /\ Sent(d)'[Len(Sent(d)) + 1] = e
      BY <1>7, <1>8, <1>9, <2>3
    <3>2. /\ \A k \in 1..Len(Sent(d)) : k \in 1..Len(Sent(d)')
          /\ \A k \in 1..Len(Sent(d)') : k \notin 1..Len(Sent(d)) => k = Len(Sent(d)) + 1
          /\ Len(Sent(d)) + 1 \in 1..Len(Sent(d)')
      BY <3>1
    <3> QED
      BY <2>1, <3>1, <3>2
  <2> QED
    BY <2>2, <2>3
<1>11. Offered'
  <2> SUFFICES ASSUME e \notin raced PROVE Offered'
    BY <1>1, <1>2 DEF Offered, FanningOut, subsVars
  <2>1. /\ removal = NoRemoval /\ steady = Subscribers
        /\ fanout.array = subs.array /\ fanout.len = subs.len
        /\ \A i \in 1..fanout.len : i < fanout.next =>
             LET d == arrays[fanout.array][i] IN SentTo(d, e) \/ e \in dropped[d]
        /\ \A d \in Conns : SentTo(d, e) =>
             \E i \in 1..fanout.len : i < fanout.next /\ arrays[fanout.array][i] = d
    BY <1>1 DEF Inv, Offered
  <2>2. \A i \in 1..fanout.len : i < fanout.next + 1 <=> i < fanout.next \/ i = fanout.next
    BY <1>1
  <2>3. ASSUME NEW d \in Conns, NEW i \in 1..fanout.len, i < fanout.next + 1, arrays[fanout.array][i] = d
        PROVE  (\E k \in 1..Len(Sent(d)') : Sent(d)'[k] = e) \/ e \in dropped'[d]
    <3>1. CASE i = fanout.next
      BY <1>10, <2>3, <3>1
    <3>2. CASE i < fanout.next
      <4>1. SentTo(d, e) \/ e \in dropped[d]
        BY <2>1, <2>3, <3>2
      <4> QED
        BY <1>10, <4>1 DEF SentTo
    <3> QED
      BY <2>2, <2>3, <3>1, <3>2
  <2>4. ASSUME NEW d \in Conns, NEW k \in 1..Len(Sent(d)'), Sent(d)'[k] = e
        PROVE  \E i \in 1..fanout.len : i < fanout.next + 1 /\ arrays[fanout.array][i] = d
    <3>1. CASE d = c
      BY <1>1, <2>2, <3>1
    <3>2. CASE d # c
      <4>1. k \in 1..Len(Sent(d)) /\ Sent(d)[k] = e
        BY <1>10, <2>4, <3>2
      <4>2. SentTo(d, e)
        BY <4>1 DEF SentTo
      <4> QED
        BY <2>1, <2>2, <4>2
    <3> QED
      BY <3>1, <3>2
  <2>5. \A i \in 1..fanout.len : arrays[fanout.array][i] \in Conns
    BY DEF Inv, Copied
  <2>6. /\ arrays' = arrays /\ fanout'.array = fanout.array /\ fanout'.len = fanout.len
        /\ fanout'.next = fanout.next + 1 /\ fanout'.event = e
        /\ removal' = removal /\ steady' = steady /\ subs' = subs /\ Subscribers' = Subscribers
    BY <1>1, <1>2 DEF subsVars, Subscribers
  <2>7. ASSUME NEW i \in 1..fanout'.len, i < fanout'.next
        PROVE  SentTo(arrays[fanout.array][i], fanout.event)' \/ (fanout.event \in dropped[arrays[fanout.array][i]])'
    <3> DEFINE d == arrays[fanout.array][i]
    <3>1. d \in Conns /\ d' = d
      BY <2>5, <2>6
    <3>2. ASSUME NEW x, x = d PROVE (\E k \in 1..Len(Sent(x)') : Sent(x)'[k] = e) \/ e \in dropped'[x]
      BY <2>3, <2>6, <2>7, <3>1, <3>2
    <3> QED
      BY <2>6, <3>1, <3>2 DEF SentTo
  <2>8. ASSUME NEW d \in Conns, SentTo(d, fanout.event)'
        PROVE  \E i \in 1..fanout'.len : i < fanout'.next /\ arrays'[fanout'.array][i] = d
    BY <2>4, <2>6, <2>8 DEF SentTo
  <2> QED
    BY <2>1, <2>6, <2>7, <2>8 DEF Offered
<1>12. Ordered'
  <2>1. \A d \in Conns : /\ \A i \in 1..Len(Sent(d)) : Sent(d)[i] <= happened /\ Sent(d)[i] \in Nat
                         /\ \A i, j \in 1..Len(Sent(d)) :
                              i < j => \/ Sent(d)[i] < Sent(d)[j]
                                       \/ Sent(d)[i] = Sent(d)[j] /\ Sent(d)[i] \in raced
    BY <1>9 DEF Inv, Ordered
  <2>2. e \notin raced => \A i \in 1..Len(Sent(c)) : Sent(c)[i] # e
    <3> SUFFICES ASSUME e \notin raced, NEW i \in 1..Len(Sent(c)), Sent(c)[i] = e PROVE FALSE
      OBVIOUS
    <3>1. SentTo(c, e)
      BY DEF SentTo, Sent
    <3>2. PICK j \in 1..fanout.len : j < fanout.next /\ arrays[fanout.array][j] = c
      BY <1>1, <3>1 DEF Inv, Offered
    <3>3. removal = NoRemoval /\ fanout.array = subs.array /\ fanout.len = subs.len
      BY <1>1 DEF Inv, Offered
    <3>4. j \in Slots /\ fanout.next \in Slots /\ j # fanout.next
      BY <1>1, <3>2, <3>3 DEF Slots, NoRemoval
    <3>5. \A a, b \in Slots : arrays[subs.array][a] = arrays[subs.array][b] => a = b
      BY DEF Inv, Slice
    <3> QED
      BY <3>2, <3>3, <3>4, <3>5
  <2>3. ASSUME NEW d \in Conns, NEW i \in 1..Len(Sent(d)') PROVE Sent(d)'[i] <= happened
    <3>1. CASE i \in 1..Len(Sent(d))
      BY <1>10, <2>1, <3>1
    <3>2. CASE i \notin 1..Len(Sent(d))
      BY <1>1, <1>10, <3>2
    <3> QED
      BY <3>1, <3>2
  <2>4. ASSUME NEW d \in Conns, NEW i \in 1..Len(Sent(d)'), NEW j \in 1..Len(Sent(d)'), i < j
        PROVE  \/ Sent(d)'[i] < Sent(d)'[j]
               \/ Sent(d)'[i] = Sent(d)'[j] /\ Sent(d)'[i] \in raced
    <3>1. CASE j \in 1..Len(Sent(d))
      <4>1. i \in 1..Len(Sent(d))
        BY <1>9, <2>4, <3>1
      <4> QED
        BY <1>10, <2>1, <2>4, <3>1, <4>1
    <3>2. CASE j \notin 1..Len(Sent(d))
      <4>1. d = c /\ Sent(d)'[j] = e
        BY <1>10, <3>2
      <4>2. i \in 1..Len(Sent(d))
        <5>1. Sent(d)' # Sent(d) /\ Len(Sent(d)) \in Nat
          BY <1>9, <3>2
        <5>2. Len(Sent(d)') = Len(Sent(d)) + 1
          BY <1>8, <4>1, <5>1
        <5> QED
          BY <2>4, <5>1, <5>2
      <4>3. Sent(d)'[i] = Sent(d)[i] /\ Sent(d)[i] <= e /\ Sent(d)[i] \in Nat
        BY <1>1, <1>10, <2>1, <4>2
      <4> QED
        BY <1>1, <2>2, <4>1, <4>2, <4>3
    <3> QED
      BY <3>1, <3>2
  <2> QED
    BY <1>1, <2>3, <2>4 DEF Ordered
<1> QED
  BY <1>4, <1>5, <1>6, <1>11, <1>12 DEF Inv

LEMMA EndStep ==
  ASSUME Inv, End
  PROVE  Inv'
<1>1. /\ fanout' = Idle /\ steady' = {}
      /\ UNCHANGED <<conn, subsVars, queue, received, happened, dropped, raced>>
  BY DEF End
<1>2. 1 \in 1..Len(arrays) /\ Len(arrays[1]) >= 0
  BY DEF Inv, Typed
<1>3. Typed' /\ QueuesTyped' /\ Copied'
  BY SMTT(30), <1>1, <1>2 DEF Inv, Typed, QueuesTyped, Copied, subsVars, Idle, FanningOut
<1>4. Slice' /\ Offered'
  BY <1>1 DEF Inv, Slice, Slots, Subscribers, subsVars, Offered, FanningOut, Idle
<1>5. \A c \in Conns : Sent(c)' = Sent(c)
  BY <1>1 DEF Sent
<1>6. Ordered'
  BY <1>1, <1>5, NothingSent DEF Inv
<1> QED
  BY <1>3, <1>4, <1>6 DEF Inv

LEMMA StutterStep ==
  ASSUME Inv, UNCHANGED vars
  PROVE  Inv'
<1>1. Typed' /\ QueuesTyped' /\ Slice' /\ Copied'
  BY DEF Inv, vars, subsVars, history, Typed, QueuesTyped, Slice, Slots, Subscribers, Copied,
     FanningOut
<1>2. \A c \in Conns : Sent(c)' = Sent(c)
  BY DEF vars, Sent
<1>3. Ordered'
  BY <1>2, NothingSent DEF Inv, vars, history
<1>4. Offered'
  <2>1. /\ Offered /\ Copied /\ fanout' = fanout /\ arrays' = arrays /\ subs' = subs /\ conn' = conn
        /\ removal' = removal /\ dropped' = dropped /\ steady' = steady /\ raced' = raced
    BY DEF Inv, vars, subsVars, history
  <2> QED
    BY <1>2, <2>1 DEF Offered, Copied, SentTo, Subscribers, FanningOut
<1> QED
  BY <1>1, <1>3, <1>4 DEF Inv

-----------------------------------------------------------------------------
(* The invariant holds in every reachable state.                           *)
THEOREM Invariance == Spec => []Inv
<1>1. ASSUME Inv, [Next]_vars PROVE Inv'
  <2>1. ASSUME NEW c \in Conns, Subscribe(c) \/ Disconnect(c) \/ Push(c) PROVE Inv'
    BY <1>1, <2>1, SubscribeStep, DisconnectStep, PushStep
  <2>2. CASE Shift \/ Shorten
    BY <1>1, <2>2, ShiftStep, ShortenStep
  <2>3. CASE Begin \/ Offer \/ End
    BY <1>1, <2>3, BeginStep, OfferStep, EndStep
  <2>4. CASE UNCHANGED vars
    BY <1>1, <2>4, StutterStep
  <2> QED
    BY <1>1, <2>1, <2>2, <2>3, <2>4 DEF Next
<1> QED
  BY InitInv, <1>1, PTL DEF Spec

(* Whatever was appended to and shifted in the shared array, ctlSubs holds *)
(* each subscribed connection once whenever its mutex is free              *)
(* (handleCtlConn).                                                        *)
THEOREM SubscribersExact == Spec => []SubsExact
<1>1. Inv => SubsExact
  <2> SUFFICES ASSUME Inv, removal = NoRemoval
               PROVE  LET listed == SubSeq(arrays[subs.array], 1, subs.len) IN
                      /\ {listed[i] : i \in 1..Len(listed)} = Subscribers
                      /\ \A i, j \in 1..Len(listed) : listed[i] = listed[j] => i = j
    BY DEF SubsExact
  <2> DEFINE listed == SubSeq(arrays[subs.array], 1, subs.len)
  <2>1. arrays[subs.array] \in Seq(Conns \cup {NoConn}) /\ subs.len \in Nat /\ subs.len <= Len(arrays[subs.array])
    BY DEF Inv, Typed, Slice
  <2>2. Len(listed) = subs.len /\ \A i \in 1..subs.len : listed[i] = arrays[subs.array][i]
    BY <2>1
  <2>3. Slots = 1..subs.len
    BY <2>1 DEF Slots, NoRemoval
  <2> HIDE DEF listed
  <2>4. \A i \in 1..subs.len : listed[i] \in Subscribers
    BY <2>2, <2>3 DEF Inv, Slice, Subscribers
  <2>5. \A c \in Subscribers : \E i \in 1..subs.len : listed[i] = c
    BY <2>2, <2>3 DEF Inv, Slice
  <2>6. \A i, j \in 1..subs.len : listed[i] = listed[j] => i = j
    BY <2>2, <2>3 DEF Inv, Slice
  <2>7. {listed[i] : i \in 1..subs.len} = Subscribers
    BY <2>4, <2>5
  <2>8. /\ {listed[i] : i \in 1..Len(listed)} = Subscribers
        /\ \A i, j \in 1..Len(listed) : listed[i] = listed[j] => i = j
    BY <2>2, <2>6, <2>7
  <2> QED
    BY <2>8 DEF listed
<1> QED
  BY <1>1, Invariance, PTL

(* A connection gets events in the order keeperd handled them, and one of  *)
(* them twice only when ctlSubs changed during its fan-out                 *)
(* (pushToCtlSubscribers).                                                 *)
THEOREM InOrder == Spec => []PushedInOrder
<1>1. Inv => PushedInOrder
  BY DEF Inv, Ordered, PushedInOrder, Sent
<1> QED
  BY <1>1, Invariance, PTL

(* A fan-out that no change of ctlSubs overlapped offered the event to     *)
(* every connection that is subscribed: a slow one with a full queue costs *)
(* no other one the event (pushToCtlSubscribers).                          *)
THEOREM OfferedToAll == Spec => []NoneForgotten
<1>1. Inv => NoneForgotten
  <2> SUFFICES ASSUME Inv, FanningOut, fanout.next > fanout.len, fanout.event \notin raced, NEW c \in steady
               PROVE  Holds(c, fanout.event) \/ fanout.event \in dropped[c]
    BY DEF NoneForgotten
  <2>1. /\ removal = NoRemoval /\ c \in Subscribers /\ fanout.array = subs.array /\ fanout.len = subs.len
        /\ fanout.next \in Nat /\ fanout.len \in Nat
    BY DEF Inv, Offered, Typed
  <2>2. PICK i \in Slots : arrays[subs.array][i] = c
    BY <2>1 DEF Inv, Slice
  <2>3. i \in 1..fanout.len /\ i < fanout.next
    BY <2>1, <2>2 DEF Slots
  <2>4. SentTo(c, fanout.event) \/ fanout.event \in dropped[c]
    BY <2>1, <2>2, <2>3 DEF Inv, Offered
  <2> QED
    BY <2>4 DEF SentTo, Sent, Holds
<1> QED
  BY <1>1, Invariance, PTL

(* A fan-out never reads an element of the array that was not written yet: *)
(* in the code a send on a nil channel, which its select would drop.       *)
THEOREM CopyNamesConnections ==
  Spec => [](\A i \in 1..fanout.len : arrays[fanout.array][i] \in Conns)
<1>1. Inv => \A i \in 1..fanout.len : arrays[fanout.array][i] \in Conns
  BY DEF Inv, Copied
<1> QED
  BY <1>1, Invariance, PTL
=============================================================================
