-------------------------- MODULE CdpTarget_proofs --------------------------
(***************************************************************************)
(* Theorems about CdpTarget for any number of page reads and polls.        *)
(***************************************************************************)
EXTENDS CdpTarget, TLAPS

(***************************************************************************)
(* The inductive invariant.  A number stands for one call for ever because *)
(* the numbers of a target only grow (Numbered, Distinct), so an answer    *)
(* that finds an entry finds that of its own call (Answers); and a result  *)
(* on its way keeps the entry's promise that the channel is empty (Held).  *)
(***************************************************************************)
Fun(f) == f = [r \in Reads |-> f[r]]

Typed ==
  /\ made \in [Reads -> Nat] /\ msgID \in [Reads -> Nat] /\ id \in [Reads -> Nat]
  /\ targets \in Reads \cup {None}
  /\ Fun(read) /\ Fun(target) /\ Fun(call) /\ Fun(inbox)
  /\ Fun(pending) /\ Fun(reader) /\ Fun(held) /\ Fun(answers)

Numbered ==
  \A r \in Reads :
    /\ read[r] \in CallingPhases => target[r] \in Reads
    /\ call[r] # "none" =>
         read[r] \in CallingPhases /\ 0 < id[r] /\ id[r] <= msgID[target[r]]
    /\ call[r] = "none" => inbox[r] = None

Distinct ==
  \A r, s \in Reads :
    call[r] # "none" /\ call[s] # "none" /\ target[r] = target[s] /\ id[r] = id[s] => r = s

(* A property of the state: the entries of a table.                        *)
Entry(t, i) ==
  LET c == pending[t][i]  r == c[1] IN
  /\ r \in Reads /\ c = Current(r)
  /\ call[r] # "none" /\ id[r] = i /\ target[r] = t /\ inbox[r] = None
Entries == \A t \in Reads : \A i \in DOMAIN pending[t] : Entry(t, i)

Answers ==
  \A t \in Reads : \A a \in answers[t] :
    /\ a.id \in Nat /\ a.id <= msgID[t]
    /\ a.id \in DOMAIN pending[t] => pending[t][a.id] = a.call

HeldFor(t, c) ==
  /\ c[1] \in Reads /\ c = <<c[1], c[2]>> /\ c[2] \in Nat /\ c[2] <= made[c[1]]
  /\ held[t].of = c
  /\ c = Current(c[1]) /\ call[c[1]] # "none" =>
       /\ target[c[1]] = t /\ inbox[c[1]] = None
       /\ \A i \in DOMAIN pending[t] : pending[t][i] # c
Held == \A t \in Reads : reader[t] = "deliver" => HeldFor(t, held[t].to)

IInv == Typed /\ Numbered /\ Distinct /\ Entries /\ Answers /\ Held /\ OwnAnswer

(***************************************************************************)
(* The page.  While no two reads have overlapped, one read at a time uses  *)
(* it, and all that can tell its call of an answer says so only when the   *)
(* page is where its navigation ended.                                     *)
(***************************************************************************)
CallsMade ==
  \A t \in Reads : \A a \in answers[t] :
    a.call = <<a.call[1], a.call[2]>> /\ a.call[1] \in Reads /\ a.call[2] \in Nat /\ a.call[2] <= made[a.call[1]]

Good(r, result) == result \in {Refused, Failed} \/ (result = landed[r] /\ page = landed[r])

Promised(r) ==
  /\ \A t \in Reads : \A a \in answers[t] : a.call = Current(r) /\ "ok" \in a.outcomes => page = landed[r]
  /\ \A t \in Reads : reader[t] = "deliver" /\ held[t].of = Current(r) => Good(r, held[t].result)
  /\ inbox[r] # None => Good(r, inbox[r].result)

Before(r) ==
  read[r] \in {"idle", "dial", "store"} \/ (read[r] = "navigate" /\ call[r] # "wait")

Alone ==
  /\ \A r, s \in Reads : Reading(r) /\ Reading(s) => r = s
  /\ \A r \in Reads : /\ read[r] \in {"settle", "tree", "inner"} => page = landed[r]
                      /\ call[r] # "none" => Promised(r)
                      /\ Before(r) => landed[r] = None
                      /\ read[r] # "done" => text[r] = None
                      /\ text[r] \in {landed[r], None}

PageInv ==
  /\ CallsMade /\ Fun(landed) /\ Fun(text) /\ page # None
  /\ ~overlapped => Alone

-----------------------------------------------------------------------------
(* The invariant holds at the start, and contains the properties.          *)
LEMMA InitInv == Init => IInv
<1> SUFFICES ASSUME Init PROVE IInv
  OBVIOUS
<1>1. Typed
  BY DEF Init, Typed, Fun
<1>2. Numbered /\ Distinct /\ Held /\ OwnAnswer
  BY DEF Init, Numbered, Distinct, Held, OwnAnswer, CallingPhases
<1>3. Entries /\ Answers
  <2>1. \A t \in Reads : DOMAIN pending[t] = {} /\ answers[t] = {}
    BY DEF Init
  <2> QED
    BY <2>1 DEF Entries, Answers
<1> QED
  BY <1>1, <1>2, <1>3 DEF IInv

LEMMA InvImpliesPending == IInv => PendingExact
<1> SUFFICES ASSUME IInv, NEW t \in Reads
             PROVE  /\ \A i \in DOMAIN pending[t] :
                         LET c == pending[t][i]  r == c[1]  IN
                         /\ c = Current(r) /\ call[r] # "none" /\ id[r] = i /\ target[r] = t
                         /\ inbox[r] = None
                    /\ reader[t] = "deliver" => Room(held[t].to)
  BY DEF PendingExact
<1>1. \A i \in DOMAIN pending[t] : Entry(t, i)
  BY DEF IInv, Entries
<1>2. reader[t] = "deliver" => HeldFor(t, held[t].to)
  BY DEF IInv, Held
<1> QED
  BY <1>1, <1>2 DEF Entry, HeldFor, Room

-----------------------------------------------------------------------------
(* What ReadPage does between its calls.                                   *)

(* Where a read goes on is a matter of its own place only.                 *)
LEMMA ProceedMoves ==
  ASSUME NEW r, NEW o, Proceed(r, o)
  PROVE  \E p : read' = [read EXCEPT ![r] = p]
BY DEF Proceed, Goes

(* A step of a read that has no call under way leaves the rest alone.      *)
LEMMA Between ==
  ASSUME IInv, NEW r \in Reads, NEW p,
         call[r] = "none", read' = [read EXCEPT ![r] = p],
         \A s \in Reads : s # r => target'[s] = target[s], Fun(target)',
         p \in CallingPhases => target'[r] \in Reads, targets' \in Reads \cup {None},
         UNCHANGED <<made, callVars, tableVars, held, answers>>, Fun(reader)',
         \A t \in Reads : reader'[t] = "deliver" => reader[t] = "deliver"
  PROVE  IInv'
<1> USE DEF IInv, callVars, tableVars
<1>1. Typed'
  BY DEF Typed, Fun
<1>2. Numbered'
  BY DEF Typed, Fun, Numbered
<1>3. Distinct'
  BY DEF Distinct
<1>4. Entries'
  BY DEF Entries, Entry, Current
<1>5. Answers'
  BY DEF Answers
<1>6. Held'
  <2> SUFFICES ASSUME NEW t \in Reads, reader'[t] = "deliver" PROVE HeldFor(t, held[t].to)'
    BY DEF Held
  <2>1. HeldFor(t, held[t].to)
    BY DEF Held
  <2> QED
    BY <2>1 DEF HeldFor, Current
<1>7. OwnAnswer'
  BY DEF OwnAnswer, Current
<1> QED
  BY <1>1, <1>2, <1>3, <1>4, <1>5, <1>6, <1>7

LEMMA BeginInv == ASSUME IInv, NEW r \in Reads, Begin(r) PROVE IInv'
<1> DEFINE p == IF targets = None THEN "dial" ELSE "navigate"
<1>1. read' = [read EXCEPT ![r] = p]
  BY DEF Begin, Goes
<1>2. call[r] = "none"
  BY DEF IInv, Numbered, Begin, Goes, CallingPhases
<1>3. target' = [target EXCEPT ![r] = targets]
  BY DEF Begin
<1>4. targets \in Reads \cup {None} /\ targets' \in Reads \cup {None}
  BY DEF Begin, IInv, Typed
<1>5. Fun(target)' /\ target'[r] = targets /\ \A s \in Reads : s # r => target'[s] = target[s]
  BY <1>3 DEF IInv, Typed, Fun
<1>6. p \in CallingPhases => target'[r] \in Reads
  BY <1>4, <1>5 DEF CallingPhases
<1>7. Fun(reader)' /\ UNCHANGED <<made, callVars, tableVars, held, answers, reader>>
  BY DEF Begin, loopVars, chrome, shown, IInv, Typed, Fun
<1> HIDE DEF p
<1> QED
  BY <1>1, <1>2, <1>4, <1>5, <1>6, <1>7, Between

LEMMA DialInv == ASSUME IInv, NEW r \in Reads, Dial(r) PROVE IInv'
<1>1. PICK p \in {"store", "done"} : read' = [read EXCEPT ![r] = p]
  BY DEF Dial, Goes
<1>2. call[r] = "none"
  BY DEF IInv, Numbered, Dial, Goes, CallingPhases
<1>3. UNCHANGED <<made, callVars, tableVars, held, answers, target, targets>>
  BY DEF Dial
<1>4. Fun(reader)' /\ \A t \in Reads : reader'[t] = "deliver" => reader[t] = "deliver"
  BY DEF Dial, IInv, Typed, Fun
<1>5. Fun(target)' /\ targets' \in Reads \cup {None} /\ p \notin CallingPhases
  BY <1>1, <1>3 DEF IInv, Typed, Fun, CallingPhases
<1> QED
  BY <1>1, <1>2, <1>3, <1>4, <1>5, Between

LEMMA StoreTargetInv == ASSUME IInv, NEW r \in Reads, StoreTarget(r) PROVE IInv'
<1>1. read' = [read EXCEPT ![r] = "navigate"]
  BY DEF StoreTarget, Goes
<1>2. call[r] = "none"
  BY DEF IInv, Numbered, StoreTarget, Goes, CallingPhases
<1>3. UNCHANGED <<made, callVars, tableVars, held, answers, reader>> /\ targets' = r
  BY DEF StoreTarget, loopVars, chrome, shown
<1>4. Fun(target)' /\ target'[r] = r /\ Fun(reader)'
  BY <1>3 DEF StoreTarget, IInv, Typed, Fun
<1>5. \A s \in Reads : s # r => target'[s] = target[s]
  BY DEF StoreTarget, IInv, Typed, Fun
<1> QED
  BY <1>1, <1>2, <1>3, <1>4, <1>5, Between

LEMMA StopPollingInv == ASSUME IInv, NEW r \in Reads, StopPolling(r) PROVE IInv'
<1>1. read' = [read EXCEPT ![r] = "tree"] /\ call[r] = "none" /\ read[r] = "settle"
  BY DEF StopPolling, Goes
<1>2. UNCHANGED <<made, callVars, tableVars, held, answers, reader, target, targets>>
  BY DEF StopPolling, loopVars, chrome, shown
<1>3. Fun(target)' /\ Fun(reader)' /\ targets' \in Reads \cup {None} /\ target'[r] \in Reads
  BY <1>1, <1>2 DEF IInv, Typed, Fun, Numbered, CallingPhases
<1> QED
  BY <1>1, <1>2, <1>3, Between

-----------------------------------------------------------------------------
(* A call.                                                                 *)

LEMMA BeginCallInv == ASSUME IInv, NEW r \in Reads, BeginCall(r) PROVE IInv'
<1> DEFINE t == target[r]
           n == msgID[t] + 1
           c == <<r, made[r] + 1>>
<1>1. t \in Reads /\ call[r] = "none" /\ read[r] \in CallingPhases /\ n \in Nat /\ n > msgID[t]
  BY DEF IInv, Typed, Numbered, BeginCall, CallGoes
<1>2. /\ call' = [call EXCEPT ![r] = "send"] /\ made' = [made EXCEPT ![r] = made[r] + 1]
      /\ msgID' = [msgID EXCEPT ![t] = n]
  BY DEF BeginCall, CallGoes
<1>3. id' = [id EXCEPT ![r] = n] /\ pending' = [pending EXCEPT ![t] = With(pending[t], n, c)]
  BY <1>1, <1>2 DEF BeginCall, IInv, Typed
<1>4. UNCHANGED <<read, target, targets, inbox, reader, held, answers>>
  BY DEF BeginCall, loopVars, chrome, shown
<1>5. /\ \A s \in Reads : s # t => pending'[s] = pending[s] /\ msgID'[s] = msgID[s]
      /\ pending'[t] = With(pending[t], n, c) /\ msgID'[t] = n
  BY <1>1, <1>2, <1>3 DEF IInv, Typed, Fun
<1>6. /\ \A s \in Reads : s # r => /\ call'[s] = call[s] /\ made'[s] = made[s]
                                  /\ id'[s] = id[s]
      /\ call'[r] = "send" /\ made'[r] = made[r] + 1 /\ id'[r] = n /\ made[r] \in Nat
  BY <1>2, <1>3 DEF IInv, Typed, Fun
<1> HIDE DEF t, n, c
<1>7. Typed'
  <2>1. made' \in [Reads -> Nat]
    BY <1>2, <1>6 DEF IInv, Typed
  <2>2. msgID' \in [Reads -> Nat] /\ id' \in [Reads -> Nat]
    BY <1>1, <1>2, <1>3 DEF IInv, Typed
  <2>3. Fun(call)' /\ Fun(pending)'
    BY <1>2, <1>3 DEF IInv, Typed, Fun
  <2> QED
    BY <2>1, <2>2, <2>3, <1>4 DEF IInv, Typed, Fun
<1>8. Numbered'
  <2> SUFFICES ASSUME NEW s \in Reads
               PROVE  /\ read'[s] \in CallingPhases => target'[s] \in Reads
                      /\ call'[s] # "none" =>
                           /\ read'[s] \in CallingPhases
                           /\ 0 < id'[s] /\ id'[s] <= msgID'[target'[s]]
                      /\ call'[s] = "none" => inbox'[s] = None
    BY DEF Numbered
  <2>1. CASE s = r
    BY <2>1, <1>1, <1>4, <1>5, <1>6 DEF IInv, Typed, t, n
  <2>2. CASE s # r
    <3>1. call[s] # "none" => target[s] \in Reads /\ msgID[target[s]] \in Nat /\ id[s] \in Nat
      BY DEF IInv, Typed, Numbered
    <3>2. call[s] # "none" => msgID'[target[s]] >= msgID[target[s]]
      BY <3>1, <1>1, <1>5, <1>7 DEF Typed
    <3> QED
      BY <2>2, <3>1, <3>2, <1>4, <1>6, <1>7 DEF IInv, Numbered, Typed
  <2> QED
    BY <2>1, <2>2
<1>9. Distinct'
  <2> SUFFICES ASSUME NEW s \in Reads, s # r, call[s] # "none", target[s] = t PROVE id[s] # n
    BY <1>4, <1>6 DEF Distinct, IInv, t
  <2> QED
    BY <1>1 DEF IInv, Numbered, Typed
<1>10. Entries'
  <2> SUFFICES ASSUME NEW u \in Reads, NEW i \in DOMAIN pending'[u] PROVE Entry(u, i)'
    BY DEF Entries
  <2>1. CASE u = t /\ i = n
    <3>1. pending'[u][i] = c
      BY <2>1, <1>5 DEF With
    <3> QED
      BY <2>1, <3>1, <1>1, <1>4, <1>6 DEF Entry, Current, IInv, Numbered, t, c
  <2>2. CASE ~(u = t /\ i = n)
    <3>1. i \in DOMAIN pending[u] /\ pending'[u][i] = pending[u][i]
      BY <2>2, <1>5 DEF With
    <3>2. Entry(u, i)
      BY <3>1 DEF IInv, Entries
    <3> QED
      BY <3>1, <3>2, <1>1, <1>4, <1>6 DEF Entry, Current
  <2> QED
    BY <2>1, <2>2
<1>11. Answers'
  <2> SUFFICES ASSUME NEW u \in Reads, NEW a \in answers[u]
               PROVE  /\ a.id \in Nat /\ a.id <= msgID'[u]
                      /\ a.id \in DOMAIN pending'[u] => pending'[u][a.id] = a.call
    BY <1>4 DEF Answers
  <2>1. /\ a.id \in Nat /\ a.id <= msgID[u] /\ msgID[u] \in Nat
        /\ a.id \in DOMAIN pending[u] => pending[u][a.id] = a.call
    BY DEF IInv, Answers, Typed
  <2>2. u = t => a.id # n
    BY <2>1, <1>1
  <2> QED
    BY <2>1, <2>2, <1>1, <1>5 DEF With
<1>12. Held'
  <2> SUFFICES ASSUME NEW u \in Reads, reader[u] = "deliver" PROVE HeldFor(u, held[u].to)'
    BY <1>4 DEF Held
  <2> DEFINE d == held[u].to
  <2>1. HeldFor(u, d)
    BY DEF IInv, Held
  <2>2. d[1] \in Reads /\ d = <<d[1], d[2]>> /\ d[2] \in Nat /\ d[2] <= made[d[1]] /\ held[u].of = d
    BY <2>1 DEF HeldFor
  <2> HIDE DEF d
  <2>3. CASE d[1] = r
    <3>1. d[2] < made'[d[1]] /\ d # <<d[1], made'[d[1]]>>
      BY <2>2, <2>3, <1>6
    <3> QED
      BY <2>2, <3>1, <1>4, <1>7 DEF HeldFor, Current, Typed, d
  <2>4. CASE d[1] # r
    <3>1. \A i \in DOMAIN pending'[u] :
            pending'[u][i] = c \/ (i \in DOMAIN pending[u] /\ pending'[u][i] = pending[u][i])
      BY <1>5 DEF With
    <3>2. c # d
      BY <2>4, <2>2 DEF c
    <3> QED
      BY <2>1, <2>2, <2>4, <3>1, <3>2, <1>4, <1>6 DEF HeldFor, Current, d
  <2> QED
    BY <2>3, <2>4
<1>13. OwnAnswer'
  BY <1>1, <1>4, <1>6 DEF IInv, OwnAnswer, Numbered, Current
<1> QED
  BY <1>7, <1>8, <1>9, <1>10, <1>11, <1>12, <1>13 DEF IInv

LEMMA SendInv == ASSUME IInv, NEW r \in Reads, Send(r) PROVE IInv'
<1> DEFINE t == target[r]
<1>1. t \in Reads /\ call[r] = "send" /\ call' = [call EXCEPT ![r] = "wait"]
  BY DEF IInv, Numbered, Send, CallGoes
<1>2. UNCHANGED <<read, target, made, targets, id, inbox, msgID, pending, reader, held>>
  BY DEF Send, readVars, tableVars, loopVars
<1>3. PICK os : answers' = answers \/
        answers' = [answers EXCEPT ![t] =
          @ \cup {[id |-> id[r], call |-> Current(r), outcomes |-> os]}]
  <2>1. \/ Take(r, {Refused}) \/ Take(r, {"ok"}) \/ Take(r, {"ok", Refused})
        \/ answers' = answers
    BY DEF Send, Navigate
  <2> QED
    BY <2>1 DEF Take
<1> DEFINE new == [id |-> id[r], call |-> Current(r), outcomes |-> os]
<1>4. /\ Fun(answers)'
      /\ \A u \in Reads : answers'[u] = answers[u] \/ (u = t /\ answers'[u] = answers[u] \cup {new})
  BY <1>1, <1>3 DEF IInv, Typed, Fun
<1>5. \A s \in Reads : call'[s] = IF s = r THEN "wait" ELSE call[s]
  BY <1>1 DEF IInv, Typed, Fun
<1>6. Typed' /\ Numbered'
  BY <1>1, <1>2, <1>4, <1>5 DEF IInv, Typed, Fun, Numbered
<1>7. Distinct' /\ OwnAnswer'
  BY <1>1, <1>2, <1>5 DEF IInv, Distinct, OwnAnswer, Current
<1>8. Entries'
  BY <1>2, <1>5 DEF IInv, Entries, Entry, Current
<1>9. Held'
  <2> SUFFICES ASSUME NEW u \in Reads, reader[u] = "deliver" PROVE HeldFor(u, held[u].to)'
    BY <1>2 DEF Held
  <2>1. HeldFor(u, held[u].to)
    BY DEF IInv, Held
  <2> QED
    BY <2>1, <1>1, <1>2, <1>5 DEF HeldFor, Current
<1>10. Answers'
  <2> SUFFICES ASSUME NEW u \in Reads, NEW a \in answers'[u]
               PROVE  /\ a.id \in Nat /\ a.id <= msgID[u]
                      /\ a.id \in DOMAIN pending[u] => pending[u][a.id] = a.call
    BY <1>2 DEF Answers
  <2>1. CASE a \in answers[u]
    BY <2>1 DEF IInv, Answers
  <2>2. CASE u = t /\ a = new
    <3>1. id[r] \in Nat /\ id[r] <= msgID[t]
      BY <1>1 DEF IInv, Typed, Numbered
    <3>2. ASSUME id[r] \in DOMAIN pending[t] PROVE pending[t][id[r]] = Current(r)
      <4> DEFINE s == pending[t][id[r]][1]
      <4>1. Entry(t, id[r])
        BY <1>1, <3>2 DEF IInv, Entries
      <4>2. s \in Reads /\ call[s] # "none" /\ id[s] = id[r] /\ target[s] = t
        BY <4>1 DEF Entry
      <4>3. s = r
        BY <4>2, <1>1 DEF IInv, Distinct
      <4> QED
        BY <4>1, <4>3 DEF Entry
    <3> QED
      BY <2>2, <3>1, <3>2
  <2> QED
    BY <2>1, <2>2, <1>4
<1> QED
  BY <1>6, <1>7, <1>8, <1>9, <1>10 DEF IInv

(* A call that returns has no entry any more.                              *)
LEMMA Returns ==
  ASSUME IInv, NEW r \in Reads, call[r] # "none",
         call' = [call EXCEPT ![r] = "none"], NEW o, End(r, o),
         Fun(pending)', UNCHANGED <<msgID, answers>>,
         \A t \in Reads : \A i \in DOMAIN pending'[t] :
           /\ i \in DOMAIN pending[t] /\ pending'[t][i] = pending[t][i]
           /\ pending[t][i] # Current(r)
  PROVE  IInv'
<1>1. PICK p : read' = [read EXCEPT ![r] = p]
  BY ProceedMoves DEF End
<1>2. id' = [id EXCEPT ![r] = 0] /\ inbox' = [inbox EXCEPT ![r] = None]
  BY DEF End
<1>3. UNCHANGED <<target, made, targets, reader, held>>
  BY DEF End, loopVars
<1>4. \A s \in Reads : s # r => /\ call'[s] = call[s] /\ id'[s] = id[s]
                               /\ inbox'[s] = inbox[s] /\ read'[s] = read[s]
  BY <1>1, <1>2 DEF IInv, Typed, Fun
<1>5. call'[r] = "none" /\ inbox'[r] = None
  BY <1>2 DEF IInv, Typed, Fun
<1>6. target[r] \in Reads
  BY DEF IInv, Numbered
<1>7. Typed'
  BY <1>1, <1>2, <1>3 DEF IInv, Typed, Fun
<1>8. Numbered' /\ Distinct' /\ OwnAnswer'
  <2>1. Numbered'
    BY <1>3, <1>4, <1>5, <1>6 DEF IInv, Numbered
  <2>2. Distinct'
    BY <1>3, <1>4, <1>5 DEF IInv, Distinct
  <2>3. OwnAnswer'
    BY <1>3, <1>4, <1>5 DEF IInv, OwnAnswer, Current
  <2> QED
    BY <2>1, <2>2, <2>3
<1>9. Entries'
  <2> SUFFICES ASSUME NEW t \in Reads, NEW i \in DOMAIN pending'[t] PROVE Entry(t, i)'
    BY DEF Entries
  <2>1. Entry(t, i) /\ pending'[t][i] = pending[t][i] /\ pending[t][i] # Current(r)
    BY DEF IInv, Entries
  <2>2. pending[t][i][1] # r
    BY <2>1 DEF Entry
  <2> QED
    BY <2>1, <2>2, <1>3, <1>4 DEF Entry, Current
<1>10. Answers'
  BY DEF IInv, Answers
<1>11. Held'
  <2> SUFFICES ASSUME NEW u \in Reads, reader[u] = "deliver" PROVE HeldFor(u, held[u].to)'
    BY <1>3 DEF Held
  <2>1. HeldFor(u, held[u].to)
    BY DEF IInv, Held
  <2> QED
    BY <2>1, <1>3, <1>4, <1>5 DEF HeldFor, Current
<1> QED
  BY <1>7, <1>8, <1>9, <1>10, <1>11 DEF IInv

LEMMA UnregisterRemoves ==
  ASSUME IInv, NEW r \in Reads, call[r] # "none", Unregister(r)
  PROVE  /\ Fun(pending)' /\ UNCHANGED <<msgID, answers>>
         /\ \A t \in Reads : \A i \in DOMAIN pending'[t] :
              /\ i \in DOMAIN pending[t] /\ pending'[t][i] = pending[t][i]
              /\ pending[t][i] # Current(r)
<1>1. pending' = [pending EXCEPT ![target[r]] = Without(pending[target[r]], id[r])]
  BY DEF Unregister
<1>2. Fun(pending)' /\ UNCHANGED <<msgID, answers>>
  BY <1>1 DEF Unregister, chrome, shown, IInv, Typed, Fun
<1>3. ASSUME NEW t \in Reads, NEW i \in DOMAIN pending'[t]
      PROVE  /\ i \in DOMAIN pending[t] /\ pending'[t][i] = pending[t][i]
             /\ pending[t][i] # Current(r)
  <2>1. /\ i \in DOMAIN pending[t] /\ pending'[t][i] = pending[t][i]
        /\ t = target[r] => i # id[r]
    <3>1. CASE t = target[r]
      <4>1. pending'[t] = Without(pending[t], id[r])
        BY <3>1, <1>1 DEF IInv, Typed, Fun
      <4> QED
        BY <4>1 DEF Without, Restrict
    <3>2. CASE t # target[r]
      BY <3>2, <1>1 DEF IInv, Typed, Fun
    <3> QED
      BY <3>1, <3>2
  <2>2. Entry(t, i)
    BY <2>1 DEF IInv, Entries
  <2> QED
    BY <2>1, <2>2 DEF Entry, Current
<1> QED
  BY <1>2, <1>3

LEMMA SendFailsInv == ASSUME IInv, NEW r \in Reads, SendFails(r) PROVE IInv'
<1>1. call[r] # "none" /\ call' = [call EXCEPT ![r] = "none"] /\ End(r, Failed) /\ Unregister(r)
  BY DEF SendFails, CallGoes
<1> QED
  BY <1>1, UnregisterRemoves, Returns

LEMMA ContextDoneInv == ASSUME IInv, NEW r \in Reads, ContextDone(r) PROVE IInv'
<1>1. call[r] # "none" /\ call' = [call EXCEPT ![r] = "none"] /\ End(r, Failed) /\ Unregister(r)
  BY DEF ContextDone, CallGoes
<1> QED
  BY <1>1, UnregisterRemoves, Returns

LEMMA TakeResultInv == ASSUME IInv, NEW r \in Reads, TakeResult(r) PROVE IInv'
<1>1. /\ call[r] # "none" /\ call' = [call EXCEPT ![r] = "none"]
      /\ End(r, inbox[r].result) /\ inbox[r] # None
  BY DEF TakeResult, CallGoes
<1>2. UNCHANGED <<msgID, pending, answers>> /\ Fun(pending)'
  BY DEF TakeResult, tableVars, chrome, shown, IInv, Typed, Fun
<1>3. \A t \in Reads : \A i \in DOMAIN pending[t] : pending[t][i] # Current(r)
  <2> SUFFICES ASSUME NEW t \in Reads, NEW i \in DOMAIN pending[t] PROVE pending[t][i] # Current(r)
    OBVIOUS
  <2>1. Entry(t, i)
    BY DEF IInv, Entries
  <2> QED
    BY <2>1, <1>1 DEF Entry, Current
<1> QED
  BY <1>1, <1>2, <1>3, Returns

-----------------------------------------------------------------------------
(* The read loop.                                                          *)

(* An answer that finds an entry takes it along; any other changes no call. *)
LEMMA RecvInv == ASSUME IInv, NEW t \in Reads, Recv(t) PROVE IInv'
<1>1. PICK a \in answers[t] : \E o \in a.outcomes :
        /\ answers' = [answers EXCEPT ![t] = @ \ {a}]
        /\ pending' = [pending EXCEPT ![t] = Without(@, a.id)]
        /\ IF a.id \in DOMAIN pending[t]
           THEN /\ reader' = [reader EXCEPT ![t] = "deliver"]
                /\ held' = [held EXCEPT ![t] =
                     [to |-> pending[t][a.id], of |-> a.call,
                      result |-> IF o = "ok" THEN page ELSE Refused]]
           ELSE UNCHANGED loopVars
        /\ UNCHANGED <<readVars, callVars, msgID, conn, shown>>
  BY DEF Recv
<1>2. UNCHANGED <<read, target, made, targets, call, id, inbox, msgID>>
  BY <1>1 DEF readVars, callVars
<1>3. /\ Fun(answers)' /\ Fun(pending)'
      /\ \A u \in Reads : answers'[u] \subseteq answers[u]
      /\ \A u \in Reads : u # t => pending'[u] = pending[u]
      /\ pending'[t] = Without(pending[t], a.id)
  <2>1. answers' = [answers EXCEPT ![t] = answers[t] \ {a}]
    BY <1>1
  <2>2. pending' = [pending EXCEPT ![t] = Without(pending[t], a.id)]
    BY <1>1
  <2>3. Fun(answers)' /\ \A u \in Reads : answers'[u] \subseteq answers[u]
    BY <2>1 DEF IInv, Typed, Fun
  <2> QED
    BY <2>2, <2>3 DEF IInv, Typed, Fun
<1>4. \A u \in Reads : \A i \in DOMAIN pending'[u] :
        /\ i \in DOMAIN pending[u] /\ pending'[u][i] = pending[u][i]
        /\ u = t => i # a.id
  BY <1>3 DEF Without, Restrict
<1>5. Fun(reader)' /\ Fun(held)' /\ \A u \in Reads : u # t => reader'[u] = reader[u] /\ held'[u] = held[u]
  BY <1>1 DEF loopVars, IInv, Typed, Fun
<1>6. Typed' /\ Numbered' /\ Distinct' /\ OwnAnswer'
  <2>1. Typed'
    BY <1>2, <1>3, <1>5 DEF IInv, Typed, Fun
  <2> QED
    BY <2>1, <1>2 DEF IInv, Numbered, Distinct, OwnAnswer, Current
<1>7. Entries'
  <2> SUFFICES ASSUME NEW u \in Reads, NEW i \in DOMAIN pending'[u] PROVE Entry(u, i)'
    BY DEF Entries
  <2>1. Entry(u, i)
    BY <1>4 DEF IInv, Entries
  <2> QED
    BY <2>1, <1>2, <1>4 DEF Entry, Current
<1>8. Answers'
  <2> SUFFICES ASSUME NEW u \in Reads, NEW b \in answers'[u]
               PROVE  /\ b.id \in Nat /\ b.id <= msgID[u]
                      /\ b.id \in DOMAIN pending'[u] => pending'[u][b.id] = b.call
    BY <1>2 DEF Answers
  <2> QED
    BY <1>3, <1>4 DEF IInv, Answers
<1>9. ASSUME NEW u \in Reads, reader'[u] = "deliver", u # t \/ a.id \notin DOMAIN pending[t]
      PROVE  HeldFor(u, held[u].to)' /\ held'[u] = held[u]
  <2>1. reader'[u] = reader[u] /\ held'[u] = held[u]
    BY <1>1, <1>5, <1>9 DEF loopVars
  <2>2. HeldFor(u, held[u].to)
    BY <2>1, <1>9 DEF IInv, Held
  <2> QED
    BY <2>1, <2>2, <1>2, <1>4 DEF HeldFor, Current
<1>10. ASSUME a.id \in DOMAIN pending[t]
       PROVE  HeldFor(t, held[t].to)'
  <2> DEFINE c == pending[t][a.id]
  <2>1. Entry(t, a.id) /\ c = a.call
    BY <1>10 DEF IInv, Entries, Answers
  <2>2. held'[t].to = c /\ held'[t].of = c
    <3>1. PICK x : held' = [held EXCEPT ![t] = [to |-> pending[t][a.id], of |-> a.call, result |-> x]]
      BY <1>1, <1>10
    <3> QED
      BY <3>1, <2>1 DEF IInv, Typed, Fun
  <2>3. c[1] \in Reads /\ c = <<c[1], made[c[1]]>> /\ target[c[1]] = t /\ inbox[c[1]] = None /\ id[c[1]] = a.id
    BY <2>1 DEF Entry, Current
  <2>4. made[c[1]] \in Nat /\ c[2] = made[c[1]]
    BY <2>3 DEF IInv, Typed
  <2>5. \A i \in DOMAIN pending'[t] : pending'[t][i] # c
    <3> SUFFICES ASSUME NEW i \in DOMAIN pending'[t] PROVE pending'[t][i] # c
      OBVIOUS
    <3>1. i \in DOMAIN pending[t] /\ pending'[t][i] = pending[t][i] /\ i # a.id
      BY <1>4
    <3>2. Entry(t, i)
      BY <3>1 DEF IInv, Entries
    <3> QED
      BY <3>1, <3>2, <2>3 DEF Entry
  <2> HIDE DEF c
  <2> QED
    BY <2>2, <2>3, <2>4, <2>5, <1>2 DEF HeldFor, Current
<1>11. Held'
  BY <1>9, <1>10 DEF Held
<1> QED
  BY <1>6, <1>7, <1>8, <1>11 DEF IInv

(* The result goes to the call it answers, which has no entry any more.    *)
LEMMA DeliverInv == ASSUME IInv, NEW t \in Reads, Deliver(t) PROVE IInv'
<1> DEFINE c == held[t].to
<1>1. reader[t] = "deliver" /\ HeldFor(t, c)
  BY DEF Deliver, IInv, Held
<1>2. UNCHANGED <<read, target, made, targets, call, id, msgID, pending, answers>>
  BY DEF Deliver, readVars, tableVars, chrome, shown
<1>3. /\ reader' = [reader EXCEPT ![t] = "recv"] /\ held' = [held EXCEPT ![t] = None]
      /\ inbox' = Put(c, [of |-> held[t].of, result |-> held[t].result])
  BY DEF Deliver
<1>4. c[1] \in Reads /\ held[t].of = c
  BY <1>1 DEF HeldFor
<1>5. /\ Fun(inbox)' /\ Fun(reader)' /\ Fun(held)'
      /\ \A u \in Reads : u # t => reader'[u] = reader[u] /\ held'[u] = held[u]
      /\ reader'[t] = "recv"
  BY <1>3 DEF Put, IInv, Typed, Fun
<1>6. \A s \in Reads : \/ inbox'[s] = inbox[s]
                       \/ /\ s = c[1] /\ c = Current(s) /\ call[s] # "none"
                          /\ inbox'[s].of = c /\ target[s] = t
  <2>1. \A s \in Reads : inbox'[s] = inbox[s] \/
          (s = c[1] /\ c = Current(s) /\ call[s] # "none" /\ inbox'[s].of = c)
    BY <1>3, <1>4 DEF Put, IInv, Typed, Fun
  <2> QED
    BY <2>1, <1>1 DEF HeldFor
<1> HIDE DEF c
<1>7. Typed'
  BY <1>2, <1>5 DEF IInv, Typed, Fun
<1>8. Numbered' /\ Distinct' /\ Answers'
  <2>1. Numbered'
    BY <1>2, <1>6 DEF IInv, Numbered
  <2> QED
    BY <2>1, <1>2 DEF IInv, Distinct, Answers
<1>9. OwnAnswer'
  BY <1>2, <1>6 DEF IInv, OwnAnswer, Current
<1>10. Entries'
  <2> SUFFICES ASSUME NEW u \in Reads, NEW i \in DOMAIN pending[u] PROVE Entry(u, i)'
    BY <1>2 DEF Entries
  <2> DEFINE s == pending[u][i][1]
  <2>1. Entry(u, i)
    BY DEF IInv, Entries
  <2>2. s \in Reads /\ target[s] = u /\ pending[u][i] = Current(s)
    BY <2>1 DEF Entry
  <2>3. inbox'[s] = inbox[s]
    <3> SUFFICES ASSUME inbox'[s] # inbox[s] PROVE FALSE
      OBVIOUS
    <3>1. s = c[1] /\ c = Current(s) /\ u = t /\ call[s] # "none"
      BY <2>2, <1>6
    <3>2. pending[t][i] # c
      BY <3>1, <1>1 DEF HeldFor
    <3> QED
      BY <3>1, <3>2, <2>2
  <2> QED
    BY <2>1, <2>3, <1>2 DEF Entry, Current
<1>11. Held'
  <2> SUFFICES ASSUME NEW u \in Reads, u # t, reader[u] = "deliver" PROVE HeldFor(u, held[u].to)'
    BY <1>5 DEF Held
  <2> DEFINE d == held[u].to
  <2>1. HeldFor(u, d) /\ held'[u] = held[u]
    BY <1>5 DEF IInv, Held
  <2>2. d = Current(d[1]) /\ call[d[1]] # "none" => inbox'[d[1]] = inbox[d[1]]
    BY <2>1, <1>6 DEF HeldFor
  <2> QED
    BY <2>1, <2>2, <1>2 DEF HeldFor, Current
<1> QED
  BY <1>7, <1>8, <1>9, <1>10, <1>11 DEF IInv

(* Everyone with an entry in the table gets the error, and it is empty.    *)
LEMMA DrainInv == ASSUME IInv, NEW t \in Reads, Drain(t) PROVE IInv'
<1> DEFINE callers == {pending[t][i] : i \in DOMAIN pending[t]}
<1>1. UNCHANGED <<read, target, made, targets, call, id, msgID, held>>
  BY DEF Drain, readVars, shown
<1>2. /\ inbox' = [r \in Reads |-> IF Current(r) \in callers
                     THEN [of |-> Current(r), result |-> Failed] ELSE inbox[r]]
      /\ pending' = [pending EXCEPT ![t] = <<>>]
      /\ reader' = [reader EXCEPT ![t] = "ended"]
      /\ answers' = [answers EXCEPT ![t] = {}]
  BY DEF Drain
<1>3. \A s \in Reads : Current(s) \in callers => call[s] # "none" /\ target[s] = t
  <2> SUFFICES ASSUME NEW s \in Reads, NEW i \in DOMAIN pending[t], Current(s) = pending[t][i]
               PROVE  call[s] # "none" /\ target[s] = t
    OBVIOUS
  <2>1. Entry(t, i) /\ pending[t][i][1] = s
    BY DEF IInv, Entries, Current
  <2> QED
    BY <2>1 DEF Entry
<1>4. \A s \in Reads : inbox'[s] = inbox[s] \/
        (call[s] # "none" /\ target[s] = t /\ inbox'[s].of = Current(s))
  BY <1>2, <1>3
<1>5. /\ Fun(inbox)' /\ Fun(pending)' /\ Fun(reader)' /\ Fun(answers)'
      /\ DOMAIN pending'[t] = {} /\ answers'[t] = {} /\ reader'[t] = "ended"
      /\ \A u \in Reads : u # t => /\ pending'[u] = pending[u] /\ answers'[u] = answers[u]
                                  /\ reader'[u] = reader[u]
  <2> HIDE DEF callers
  <2>1. Fun(inbox)'
    BY <1>2 DEF Fun
  <2>2. Fun(pending)' /\ pending'[t] = <<>> /\ \A u \in Reads : u # t => pending'[u] = pending[u]
    BY <1>2 DEF IInv, Typed, Fun
  <2>3. /\ Fun(answers)' /\ answers'[t] = {}
        /\ \A u \in Reads : u # t => answers'[u] = answers[u]
    BY <1>2 DEF IInv, Typed, Fun
  <2>4. /\ Fun(reader)' /\ reader'[t] = "ended"
        /\ \A u \in Reads : u # t => reader'[u] = reader[u]
    BY <1>2 DEF IInv, Typed, Fun
  <2>5. DOMAIN pending'[t] = {}
    BY <2>2
  <2> QED
    BY <2>1, <2>2, <2>3, <2>4, <2>5
<1> HIDE DEF callers
<1>6. Typed'
  BY <1>1, <1>5 DEF IInv, Typed, Fun
<1>7. Numbered' /\ Distinct'
  <2>1. Numbered'
    BY <1>1, <1>4 DEF IInv, Numbered
  <2> QED
    BY <2>1, <1>1 DEF IInv, Distinct
<1>8. OwnAnswer'
  BY <1>1, <1>4 DEF IInv, OwnAnswer, Current
<1>9. Answers'
  BY <1>1, <1>5 DEF IInv, Answers
<1>10. Entries'
  <2> SUFFICES ASSUME NEW u \in Reads, NEW i \in DOMAIN pending'[u] PROVE Entry(u, i)'
    BY DEF Entries
  <2>1. u # t /\ pending'[u] = pending[u]
    BY <1>5
  <2>2. Entry(u, i)
    BY <2>1 DEF IInv, Entries
  <2>3. inbox'[pending[u][i][1]] = inbox[pending[u][i][1]]
    BY <2>1, <2>2, <1>4 DEF Entry
  <2> QED
    BY <2>1, <2>2, <2>3, <1>1 DEF Entry, Current
<1>11. Held'
  <2> SUFFICES ASSUME NEW u \in Reads, reader'[u] = "deliver" PROVE HeldFor(u, held[u].to)'
    BY <1>1 DEF Held
  <2> DEFINE d == held[u].to
  <2>1. u # t /\ HeldFor(u, d) /\ pending'[u] = pending[u]
    BY <1>5 DEF IInv, Held
  <2>2. d = Current(d[1]) /\ call[d[1]] # "none" => inbox'[d[1]] = inbox[d[1]]
    BY <2>1, <1>4 DEF HeldFor
  <2> QED
    BY <2>1, <2>2, <1>1 DEF HeldFor, Current
<1> QED
  BY <1>6, <1>7, <1>8, <1>9, <1>10, <1>11 DEF IInv

-----------------------------------------------------------------------------
(* The page.                                                               *)

LEMMA PageInit == Init => PageInv
<1> SUFFICES ASSUME Init PROVE PageInv
  OBVIOUS
<1>1. \A r \in Reads : /\ ~Reading(r) /\ read[r] = "idle" /\ call[r] = "none"
                      /\ text[r] = None /\ landed[r] = None /\ answers[r] = {}
  BY DEF Init, Reading
<1> QED
  BY <1>1, CdpAssumption DEF PageInv, CallsMade, Alone, Before, Init, Fun

(* A step of Chrome or of a read loop brings a call nothing but what it    *)
(* was promised.                                                           *)
LEMMA PageLoop ==
  ASSUME IInv, PageInv, UNCHANGED <<read, made, call, page, landed, text, overlapped>>,
         \A t \in Reads : answers'[t] \subseteq answers[t],
         ~overlapped => \A r \in Reads : call[r] # "none" =>
           /\ \A t \in Reads : reader'[t] = "deliver" /\ held'[t].of = Current(r) => Good(r, held'[t].result)
           /\ inbox'[r] # None => Good(r, inbox'[r].result)
  PROVE  PageInv'
<1>1. CallsMade'
  BY DEF PageInv, CallsMade
<1>2. ASSUME ~overlapped PROVE Alone'
  <2>1. ASSUME NEW r \in Reads, call[r] # "none" PROVE Promised(r)'
    <3>1. Promised(r) /\ Current(r)' = Current(r)
      BY <1>2, <2>1 DEF PageInv, Alone, Current
    <3>2. \A o : Good(r, o) => Good(r, o)'
      BY DEF Good
    <3> QED
      BY <1>2, <2>1, <3>1, <3>2 DEF Promised, Good
  <2>2. \A r \in Reads : Reading(r)' <=> Reading(r)
    BY DEF Reading
  <2> QED
    BY <1>2, <2>1, <2>2 DEF PageInv, Alone, Before
<1> QED
  BY <1>1, <1>2 DEF PageInv, Fun

LEMMA PageRecv == ASSUME IInv, PageInv, NEW t \in Reads, Recv(t) PROVE PageInv'
<1>1. PICK a \in answers[t] : \E o \in a.outcomes :
        /\ answers' = [answers EXCEPT ![t] = @ \ {a}]
        /\ IF a.id \in DOMAIN pending[t]
           THEN /\ reader' = [reader EXCEPT ![t] = "deliver"]
                /\ held' = [held EXCEPT ![t] =
                     [to |-> pending[t][a.id], of |-> a.call,
                      result |-> IF o = "ok" THEN page ELSE Refused]]
           ELSE UNCHANGED loopVars
  BY DEF Recv
<1>2. PICK o \in a.outcomes :
        /\ answers' = [answers EXCEPT ![t] = @ \ {a}]
        /\ IF a.id \in DOMAIN pending[t]
           THEN /\ reader' = [reader EXCEPT ![t] = "deliver"]
                /\ held' = [held EXCEPT ![t] =
                     [to |-> pending[t][a.id], of |-> a.call,
                      result |-> IF o = "ok" THEN page ELSE Refused]]
           ELSE UNCHANGED loopVars
  BY <1>1
<1>3. UNCHANGED <<read, made, call, inbox, page, landed, text, overlapped>>
  BY DEF Recv, readVars, callVars, shown
<1>4. Fun(answers) /\ Fun(reader) /\ Fun(held)
  BY DEF IInv, Typed
<1>5. \A u \in Reads : answers'[u] \subseteq answers[u]
  BY <1>2, <1>4 DEF Fun
<1>6. ASSUME ~overlapped, NEW r \in Reads, call[r] # "none"
      PROVE  /\ \A u \in Reads : reader'[u] = "deliver" /\ held'[u].of = Current(r) => Good(r, held'[u].result)
             /\ inbox'[r] # None => Good(r, inbox'[r].result)
  <2>1. Promised(r)
    BY <1>6 DEF PageInv, Alone
  <2>2. CASE UNCHANGED loopVars
    BY <1>3, <2>1, <2>2 DEF Promised, loopVars
  <2>3. CASE /\ reader' = [reader EXCEPT ![t] = "deliver"]
             /\ held' = [held EXCEPT ![t] =
                  [to |-> pending[t][a.id], of |-> a.call, result |-> IF o = "ok" THEN page ELSE Refused]]
    <3>1. held'[t].of = a.call /\ held'[t].result = IF o = "ok" THEN page ELSE Refused
      BY <1>4, <2>3 DEF Fun
    <3>2. \A u \in Reads : u # t => held'[u] = held[u] /\ reader'[u] = reader[u]
      BY <1>4, <2>3 DEF Fun
    <3>3. held'[t].of = Current(r) => Good(r, held'[t].result)
      BY <2>1, <3>1 DEF Promised, Good
    <3> QED
      BY <1>3, <2>1, <3>2, <3>3 DEF Promised
  <2> QED
    BY <1>2, <2>2, <2>3
<1> QED
  BY <1>3, <1>5, <1>6, PageLoop

LEMMA PageDeliver == ASSUME IInv, PageInv, NEW t \in Reads, Deliver(t) PROVE PageInv'
<1>1. /\ UNCHANGED <<read, made, call, answers, page, landed, text, overlapped>>
      /\ reader[t] = "deliver" /\ reader' = [reader EXCEPT ![t] = "recv"] /\ held' = [held EXCEPT ![t] = None]
      /\ inbox' = Put(held[t].to, [of |-> held[t].of, result |-> held[t].result])
  BY DEF Deliver, readVars, chrome, shown
<1>2. Fun(reader) /\ Fun(held) /\ Fun(inbox)
  BY DEF IInv, Typed
<1>3. HeldFor(t, held[t].to)
  BY <1>1 DEF IInv, Held
<1>4. ASSUME ~overlapped, NEW r \in Reads, call[r] # "none"
      PROVE  /\ \A u \in Reads : reader'[u] = "deliver" /\ held'[u].of = Current(r) => Good(r, held'[u].result)
             /\ inbox'[r] # None => Good(r, inbox'[r].result)
  <2>1. Promised(r)
    BY <1>4 DEF PageInv, Alone
  <2>2. \A u \in Reads : reader'[u] = "deliver" => u # t /\ reader[u] = "deliver" /\ held'[u] = held[u]
    BY <1>1, <1>2 DEF Fun
  <2>3. \/ inbox'[r] = inbox[r]
        \/ held[t].of = Current(r) /\ inbox'[r].result = held[t].result
    BY <1>1, <1>2, <1>3 DEF Put, HeldFor, Fun
  <2> QED
    BY <1>1, <2>1, <2>2, <2>3 DEF Promised
<1> QED
  BY <1>1, <1>4, PageLoop

LEMMA PageDrain == ASSUME IInv, PageInv, NEW t \in Reads, Drain(t) PROVE PageInv'
<1>1. /\ UNCHANGED <<read, made, call, held, page, landed, text, overlapped>>
      /\ reader' = [reader EXCEPT ![t] = "ended"] /\ answers' = [answers EXCEPT ![t] = {}]
  BY DEF Drain, readVars, shown
<1>2. \A r \in Reads : inbox'[r] = inbox[r] \/ inbox'[r].result = Failed
  BY DEF Drain
<1>3. /\ \A u \in Reads : answers'[u] \subseteq answers[u]
      /\ \A u \in Reads : reader'[u] = "deliver" => reader[u] = "deliver"
  BY <1>1 DEF IInv, Typed, Fun
<1> QED
  BY <1>1, <1>2, <1>3, PageLoop DEF PageInv, Alone, Promised, Good

(* A read that has no call under way goes on, begins or ends.              *)
LEMMA PageBetween ==
  ASSUME IInv, PageInv, NEW r \in Reads, NEW p, read' = [read EXCEPT ![r] = p],
         read[r] # "done",
         p \in {"idle", "dial", "store", "navigate"} => read[r] \in {"idle", "dial", "store"},
         UNCHANGED <<made, call, inbox, held, answers, page, landed, text>>,
         \A t \in Reads : reader'[t] = "deliver" => reader[t] = "deliver",
         ~overlapped' => /\ ~overlapped
                         /\ Reading(r) \/ \A s \in Reads : ~Reading(s)
                         /\ p \in {"settle", "tree", "inner"} => page = landed[r]
  PROVE  PageInv'
<1>1. CallsMade'
  BY DEF PageInv, CallsMade
<1>2. ASSUME ~overlapped' PROVE Alone'
  <2>1. Alone
    BY <1>2 DEF PageInv
  <2>2. read'[r] = p /\ \A s \in Reads : s # r => read'[s] = read[s]
    BY DEF IInv, Typed, Fun
  <2>3. \A s \in Reads : Reading(s)' => s = r
    <3> SUFFICES ASSUME NEW s \in Reads, Reading(s)', s # r PROVE FALSE
      OBVIOUS
    <3>1. Reading(s)
      BY <2>2 DEF Reading
    <3> QED
      BY <1>2, <2>1, <3>1 DEF Alone
  <2>4. ASSUME NEW s \in Reads, call'[s] # "none" PROVE Promised(s)'
    BY <2>1, <2>4 DEF Alone, Promised, Good, Current
  <2>5. \A s \in Reads : read'[s] \in {"settle", "tree", "inner"} => page' = landed'[s]
    BY <1>2, <2>1, <2>2 DEF Alone
  <2>6. \A s \in Reads : text'[s] \in {landed'[s], None} /\ (read'[s] # "done" => text'[s] = None)
    BY <2>1, <2>2 DEF Alone
  <2>7. \A s \in Reads : Before(s)' => landed'[s] = None
    BY <2>1, <2>2 DEF Alone, Before
  <2> QED
    BY <2>3, <2>4, <2>5, <2>6, <2>7 DEF Alone
<1> QED
  BY <1>1, <1>2 DEF PageInv, Fun

(* The call a read begins is promised nothing yet.                         *)
LEMMA PageBeginCall == ASSUME IInv, PageInv, NEW r \in Reads, BeginCall(r) PROVE PageInv'
<1>1. /\ UNCHANGED <<read, inbox, reader, held, answers, page, landed, text, overlapped>>
      /\ call[r] = "none" /\ read[r] \in CallingPhases
      /\ call' = [call EXCEPT ![r] = "send"] /\ made' = [made EXCEPT ![r] = @ + 1]
  BY DEF BeginCall, CallGoes, loopVars, chrome, shown
<1>2. made \in [Reads -> Nat] /\ Fun(call) /\ made'[r] = made[r] + 1 /\ \A s \in Reads : s # r => made'[s] = made[s]
  BY <1>1 DEF IInv, Typed
<1>3. CallsMade'
  <2> SUFFICES ASSUME NEW t \in Reads, NEW a \in answers[t]
               PROVE  a.call = <<a.call[1], a.call[2]>> /\ a.call[1] \in Reads /\ a.call[2] \in Nat
                        /\ a.call[2] <= made'[a.call[1]]
    BY <1>1 DEF CallsMade
  <2>1. a.call = <<a.call[1], a.call[2]>> /\ a.call[1] \in Reads /\ a.call[2] \in Nat /\ a.call[2] <= made[a.call[1]]
    BY DEF PageInv, CallsMade
  <2>2. made[a.call[1]] \in Nat /\ made[a.call[1]] <= made'[a.call[1]] /\ made'[a.call[1]] \in Nat
    BY <1>2, <2>1
  <2> QED
    BY <2>1, <2>2
<1>4. ASSUME ~overlapped PROVE Alone'
  <2>1. Alone
    BY <1>4 DEF PageInv
  <2>2. Promised(r)'
    <3>1. Current(r)' = <<r, made[r] + 1>> /\ inbox'[r] = None /\ made[r] \in Nat
      BY <1>1, <1>2 DEF IInv, Numbered, Current
    <3>2. ASSUME NEW t \in Reads, NEW a \in answers[t] PROVE a.call # <<r, made[r] + 1>>
      BY <1>2, <3>1 DEF PageInv, CallsMade
    <3>3. ASSUME NEW t \in Reads, reader[t] = "deliver" PROVE held[t].of # <<r, made[r] + 1>>
      <4>1. HeldFor(t, held[t].to)
        BY <3>3 DEF IInv, Held
      <4> QED
        BY <1>2, <3>1, <4>1 DEF HeldFor
    <3> QED
      BY <1>1, <3>1, <3>2, <3>3 DEF Promised
  <2>3. ASSUME NEW s \in Reads, s # r, call'[s] # "none" PROVE Promised(s)'
    <3>1. call[s] # "none" /\ Current(s)' = Current(s)
      BY <1>1, <1>2, <2>3 DEF Current, Fun
    <3>2. Promised(s)
      BY <2>1, <3>1 DEF Alone
    <3> QED
      BY <1>1, <3>1, <3>2 DEF Promised, Good
  <2> QED
    BY <1>1, <1>2, <2>1, <2>2, <2>3 DEF Alone, Reading, Before, Fun
<1> QED
  BY <1>1, <1>3, <1>4 DEF PageInv, Fun

(* Chrome takes a command: an answered navigation leaves its page, and the *)
(* text of any other command is that of the page shown.                    *)
LEMMA PageSend == ASSUME IInv, PageInv, NEW r \in Reads, Send(r) PROVE PageInv'
<1>1. /\ UNCHANGED <<read, made, text, overlapped, inbox, reader, held>>
      /\ call[r] = "send" /\ call' = [call EXCEPT ![r] = "wait"]
  BY DEF Send, CallGoes, readVars, loopVars
<1>2. Fun(call) /\ Fun(answers) /\ made \in [Reads -> Nat] /\ read[r] \in CallingPhases
  BY <1>1 DEF IInv, Typed, Numbered
<1>3. \A s \in Reads : call'[s] # "none" => call[s] # "none"
  BY <1>1, <1>2 DEF Fun
<1>4. CASE UNCHANGED <<page, landed, answers>>
  <2>1. CallsMade' /\ Fun(landed)' /\ Fun(text)'
    BY <1>1, <1>4 DEF PageInv, CallsMade, Fun
  <2>2. ASSUME ~overlapped PROVE Alone'
    BY <1>1, <1>2, <1>3, <1>4, <2>2 DEF PageInv, Alone, Promised, Good, Current, Reading, Before, Fun
  <2> QED
    BY <1>1, <1>4, <2>1, <2>2 DEF PageInv
<1>5. ASSUME NEW outcomes, Take(r, outcomes),
             \/ UNCHANGED <<page, landed>> /\ ("ok" \in outcomes => read[r] # "navigate")
             \/ /\ read[r] = "navigate" /\ page' # None
                /\ landed' = [landed EXCEPT ![r] = IF overlapped THEN None ELSE page']
      PROVE  PageInv'
  <2> DEFINE new == [id |-> id[r], call |-> Current(r), outcomes |-> outcomes]
  <2>1. \A t \in Reads : \A a \in answers'[t] : a \in answers[t] \/ a = new
    BY <1>2, <1>5 DEF Fun, Take
  <2>2. new.call = <<r, made[r]>> /\ new.outcomes = outcomes /\ made[r] \in Nat
    BY <1>2 DEF Current
  <2> HIDE DEF new
  <2>3. CallsMade'
    BY <1>1, <2>1, <2>2 DEF PageInv, CallsMade
  <2>4. Fun(landed)' /\ Fun(text)' /\ \A s \in Reads : s # r => landed'[s] = landed[s]
    BY <1>1, <1>5 DEF PageInv, Fun
  <2>5. ASSUME ~overlapped PROVE Alone'
    <3>1. Alone /\ Reading(r) /\ read[r] # "done" /\ text[r] = None
      BY <1>2, <2>5 DEF PageInv, Alone, Reading, CallingPhases
    <3>2. \/ UNCHANGED <<page, landed>> /\ ("ok" \in outcomes => page = landed[r])
          \/ page' = landed'[r] /\ read[r] = "navigate" /\ landed[r] = None
      <4>1. CASE read[r] = "navigate" /\ landed' = [landed EXCEPT ![r] = IF overlapped THEN None ELSE page']
        BY <1>1, <2>5, <3>1, <4>1 DEF PageInv, Fun, Alone, Before
      <4>2. CASE UNCHANGED <<page, landed>> /\ ("ok" \in outcomes => read[r] # "navigate")
        BY <1>2, <3>1, <4>2 DEF Alone, CallingPhases
      <4> QED
        BY <1>5, <4>1, <4>2
    <3>3. \A s \in Reads : Reading(s) => s = r
      BY <3>1 DEF Alone
    <3>4. page = landed[r] => UNCHANGED <<page, landed>>
      BY <3>2 DEF PageInv
    <3>5. ASSUME NEW s \in Reads, call'[s] # "none" PROVE Promised(s)'
      <4>1. s = r
        BY <1>3, <3>3, <3>5 DEF IInv, Numbered, Reading, CallingPhases
      <4>2. Promised(s)
        BY <1>3, <3>1, <3>5 DEF Alone
      <4>3. \A o : Good(r, o) => Good(r, o)'
        BY <3>4 DEF Good
      <4> QED
        BY <1>1, <2>1, <2>2, <3>2, <3>4, <4>1, <4>2, <4>3 DEF Promised, Current, Good
    <3>6. \A s \in Reads : read[s] \in {"settle", "tree", "inner"} => page' = landed'[s]
      BY <3>1, <3>3, <3>4 DEF Alone, Reading
    <3>7. \A s \in Reads : /\ text'[s] \in {landed'[s], None}
                           /\ Before(s)' => landed'[s] = None
      <4>1. /\ text' = text /\ ~Before(r)' /\ call'[r] = "wait"
            /\ \A s \in Reads : s # r => Before(s)' = Before(s)
        BY <1>1, <1>2, <3>1 DEF Before, Fun, CallingPhases
      <4> QED
        BY <2>4, <3>1, <4>1 DEF Alone
    <3> QED
      BY <1>1, <3>1, <3>5, <3>6, <3>7 DEF Alone, Reading
  <2> QED
    BY <1>1, <1>5, <2>3, <2>4, <2>5 DEF PageInv
<1> QED
  <2>1. CASE UNCHANGED <<shown, answers>>
    BY <1>4, <2>1 DEF shown
  <2>2. CASE Navigate(r)
    <3>1. CASE Take(r, {Refused}) /\ UNCHANGED shown
      BY <1>5, <3>1 DEF shown, Refused
    <3>2. CASE /\ Take(r, {"ok"}) /\ page' \in {r, page, "other"}
               /\ landed' = [landed EXCEPT ![r] = IF overlapped THEN None ELSE page']
      <4>1. read[r] = "navigate" /\ page' # None
        BY <2>2, <3>2, CdpAssumption DEF Navigate, PageInv
      <4> QED
        BY <1>5, <3>2, <4>1
    <3> QED
      BY <2>2, <3>1, <3>2 DEF Navigate
  <2>3. CASE read[r] # "navigate" /\ Take(r, {"ok", Refused}) /\ UNCHANGED shown
    BY <1>5, <2>3 DEF shown
  <2> QED
    BY <2>1, <2>2, <2>3 DEF Send

(* A call returns: only an answer takes a navigation further, and a text   *)
(* is an answer.                                                           *)
LEMMA PageEnd ==
  ASSUME IInv, PageInv, NEW r \in Reads, NEW o, call[r] # "none", call' = [call EXCEPT ![r] = "none"], End(r, o),
         UNCHANGED chrome, ~overlapped => Good(r, o)
  PROVE  PageInv'
<1>1. /\ UNCHANGED <<made, overlapped, reader, held, answers, page, landed>>
      /\ inbox' = [inbox EXCEPT ![r] = None] /\ Proceed(r, o)
  BY DEF End, loopVars, chrome, shown
<1>2. Fun(read) /\ Fun(call) /\ Fun(inbox) /\ read[r] \in CallingPhases
  BY DEF IInv, Typed, Numbered
<1>3. CallsMade'
  BY <1>1 DEF PageInv, CallsMade
<1>4. ASSUME ~overlapped PROVE Alone'
  <2>1. Alone /\ Good(r, o) /\ Reading(r)
    BY <1>2, <1>4 DEF PageInv, Reading, CallingPhases
  <2>2. PICK p : /\ read' = [read EXCEPT ![r] = p]
                 /\ p \notin {"idle", "dial", "store", "navigate"}
                 /\ \/ text' = text
                    \/ o \notin {Refused, Failed} /\ text' = [text EXCEPT ![r] = o] /\ p = "done"
    <3>1. CASE o \in {Refused, Failed}
      BY <1>1, <1>2, <3>1 DEF Proceed, Goes, OnFailure, CallingPhases
    <3>2. CASE o \notin {Refused, Failed}
      <4>1. PICK to \in OnAnswer[read[r]] :
              /\ Goes(r, read[r], to)
              /\ text' = IF to = "done" THEN [text EXCEPT ![r] = o] ELSE text
        BY <1>1, <3>2 DEF Proceed
      <4>2. to \in {"settle", "tree", "inner", "done"}
        BY <1>2, <4>1 DEF OnAnswer, CallingPhases
      <4> QED
        BY <3>2, <4>1, <4>2 DEF Goes
    <3> QED
      BY <3>1, <3>2
  <2>3. read'[r] = p /\ \A s \in Reads : s # r => read'[s] = read[s]
    BY <1>2, <2>2 DEF Fun
  <2>4. \A s \in Reads : Reading(s) => s = r
    BY <2>1 DEF Alone
  <2>5. \A s \in Reads : Reading(s)' => s = r
    BY <2>3, <2>4 DEF Reading
  <2>6. p \in {"settle", "tree", "inner"} => page = landed[r]
    <3>1. CASE o \notin {Refused, Failed}
      BY <2>1, <3>1 DEF Good
    <3>2. CASE read[r] # "navigate"
      BY <1>2, <2>1, <3>2 DEF Alone, CallingPhases
    <3>3. CASE o \in {Refused, Failed} /\ read[r] = "navigate"
      <4>1. read' = [read EXCEPT ![r] = "done"]
        BY <1>1, <3>3 DEF Proceed, Goes, OnFailure
      <4>2. p = "done"
        BY <1>2, <2>3, <4>1 DEF Fun
      <4> QED
        BY <4>2
    <3> QED
      BY <3>1, <3>2, <3>3
  <2>7. \A s \in Reads : read'[s] \in {"settle", "tree", "inner"} => page' = landed'[s]
    BY <1>1, <2>1, <2>3, <2>6 DEF Alone
  <2>8. \A s \in Reads : text'[s] \in {landed'[s], None} /\ (read'[s] # "done" => text'[s] = None)
    <3>1. Fun(text) /\ landed' = landed
      BY <1>1 DEF PageInv
    <3>2. read[r] # "done" /\ text[r] = None
      BY <2>1 DEF Alone, Reading
    <3>3. CASE text' = text
      BY <2>1, <2>3, <3>1, <3>2, <3>3 DEF Alone
    <3>4. CASE o \notin {Refused, Failed} /\ text' = [text EXCEPT ![r] = o] /\ p = "done"
      <4>1. text'[r] = landed[r] /\ \A s \in Reads : s # r => text'[s] = text[s]
        BY <2>1, <3>1, <3>4 DEF Good, Fun
      <4> QED
        BY <2>1, <2>3, <3>1, <3>4, <4>1 DEF Alone
    <3> QED
      BY <2>2, <3>3, <3>4
  <2>10. \A s \in Reads : Before(s)' => landed'[s] = None
    <3>1. ~Before(r)' /\ \A s \in Reads : s # r => Before(s)' = Before(s)
      BY <1>2, <2>2, <2>3 DEF Before, Fun
    <3> QED
      BY <1>1, <2>1, <3>1 DEF Alone
  <2>9. ASSUME NEW s \in Reads, call'[s] # "none" PROVE Promised(s)'
    <3>1. s # r /\ call[s] # "none" /\ inbox'[s] = inbox[s]
      BY <1>1, <1>2, <2>9 DEF Fun
    <3>2. Promised(s)
      BY <2>1, <3>1 DEF Alone
    <3> QED
      BY <1>1, <3>1, <3>2 DEF Promised, Good, Current
  <2> QED
    BY <2>5, <2>7, <2>8, <2>9, <2>10 DEF Alone
<1>5. Fun(text)'
  BY <1>1 DEF PageInv, Fun, Proceed
<1> QED
  BY <1>1, <1>3, <1>4, <1>5 DEF PageInv, Fun

LEMMA PageStep == IInv /\ PageInv /\ [Next]_vars => PageInv'
<1> SUFFICES ASSUME IInv, PageInv, [Next]_vars PROVE PageInv'
  OBVIOUS
<1>1. ASSUME NEW r \in Reads, Begin(r) PROVE PageInv'
  <2> DEFINE p == IF targets = None THEN "dial" ELSE "navigate"
  <2>1. /\ read' = [read EXCEPT ![r] = p] /\ p \notin {"settle", "tree", "inner"}
        /\ read[r] = "idle"
        /\ UNCHANGED <<made, call, inbox, reader, held, answers, page, landed, text>>
        /\ ~overlapped' => ~overlapped /\ \A s \in Reads : ~Reading(s)
    BY <1>1 DEF Begin, Goes, callVars, loopVars, chrome, shown
  <2> HIDE DEF p
  <2> QED
    BY <2>1, PageBetween
<1>2. ASSUME NEW r \in Reads, Dial(r) PROVE PageInv'
  <2>1. read[r] = "dial" /\ \E p \in {"store", "done"} : read' = [read EXCEPT ![r] = p]
    BY <1>2 DEF Dial, Goes
  <2>2. UNCHANGED <<made, call, inbox, held, answers, page, landed, text, overlapped>> /\ Reading(r)
    BY <1>2, <2>1 DEF Dial, callVars, shown, Reading
  <2>3. \A t \in Reads : reader'[t] = "deliver" => reader[t] = "deliver"
    BY <1>2 DEF Dial, IInv, Typed, Fun
  <2> QED
    BY <2>1, <2>2, <2>3, PageBetween
<1>3. ASSUME NEW r \in Reads, StoreTarget(r) PROVE PageInv'
  <2>1. /\ read[r] = "store" /\ read' = [read EXCEPT ![r] = "navigate"]
        /\ UNCHANGED <<made, call, inbox, reader, held, answers, page, landed, text, overlapped>>
    BY <1>3 DEF StoreTarget, Goes, callVars, loopVars, chrome, shown
  <2> QED
    BY <2>1, PageBetween DEF Reading
<1>4. ASSUME NEW r \in Reads, StopPolling(r) PROVE PageInv'
  <2>1. /\ read[r] = "settle" /\ read' = [read EXCEPT ![r] = "tree"]
        /\ UNCHANGED <<made, call, inbox, reader, held, answers, page, landed, text, overlapped>>
    BY <1>4 DEF StopPolling, Goes, callVars, loopVars, chrome, shown
  <2>2. ~overlapped => page = landed[r]
    BY <2>1 DEF PageInv, Alone
  <2> QED
    BY <2>1, <2>2, PageBetween DEF Reading
<1>5. ASSUME NEW r \in Reads, SendFails(r) \/ ContextDone(r) PROVE PageInv'
  <2>1. call[r] # "none" /\ call' = [call EXCEPT ![r] = "none"] /\ End(r, Failed) /\ UNCHANGED chrome
    BY <1>5 DEF SendFails, ContextDone, CallGoes, Unregister
  <2> QED
    BY <2>1, PageEnd DEF Good
<1>6. ASSUME NEW r \in Reads, TakeResult(r) PROVE PageInv'
  <2>1. /\ call[r] # "none" /\ call' = [call EXCEPT ![r] = "none"] /\ inbox[r] # None
        /\ End(r, inbox[r].result) /\ UNCHANGED chrome
    BY <1>6 DEF TakeResult, CallGoes
  <2>2. ~overlapped => Good(r, inbox[r].result)
    BY <2>1 DEF PageInv, Alone, Promised
  <2> QED
    BY <2>1, <2>2, PageEnd
<1>7. ASSUME NEW t \in Reads, Break(t) PROVE PageInv'
  <2>1. UNCHANGED <<read, made, call, inbox, reader, held, answers, page, landed, text, overlapped>>
    BY <1>7 DEF Break, readVars, callVars, loopVars, shown
  <2> QED
    BY <2>1, PageLoop DEF PageInv, Alone, Promised
<1>8. CASE UNCHANGED vars
  <2>1. UNCHANGED <<read, made, call, inbox, reader, held, answers, page, landed, text, overlapped>>
    BY <1>8 DEF vars, readVars, callVars, loopVars, chrome, shown
  <2> QED
    BY <2>1, PageLoop DEF PageInv, Alone, Promised
<1> QED
  BY <1>1, <1>2, <1>3, <1>4, <1>5, <1>6, <1>7, <1>8, PageBeginCall, PageSend, PageRecv, PageDeliver, PageDrain
     DEF Next, ReadOn, ReadLoop

-----------------------------------------------------------------------------
(* The theorems.                                                           *)

(* Every step, one of a Chrome that goes away included, keeps the          *)
(* invariant.                                                              *)
LEMMA StepInv == IInv /\ [Next]_vars => IInv'
<1> SUFFICES ASSUME IInv, [Next]_vars PROVE IInv'
  OBVIOUS
<1>1. ASSUME UNCHANGED <<read, target, made, targets, callVars, tableVars, loopVars, answers>>
      PROVE  IInv'
  <2>1. Typed' /\ Numbered' /\ Distinct'
    BY <1>1 DEF IInv, Typed, Fun, Numbered, Distinct, callVars, tableVars, loopVars
  <2>2. Entries' /\ Answers' /\ OwnAnswer'
    BY <1>1 DEF IInv, Entries, Entry, Answers, OwnAnswer, Current, callVars, tableVars
  <2>3. Held'
    BY <1>1 DEF IInv, Held, HeldFor, Current, callVars, tableVars, loopVars
  <2> QED
    BY <2>1, <2>2, <2>3 DEF IInv
<1>2. ASSUME NEW r \in Reads, Begin(r) \/ ReadOn(r) PROVE IInv'
  BY <1>2, BeginInv, DialInv, StoreTargetInv, StopPollingInv, BeginCallInv, SendInv,
     SendFailsInv, TakeResultInv, ContextDoneInv DEF ReadOn
<1>3. ASSUME NEW t \in Reads, ReadLoop(t) PROVE IInv'
  BY <1>3, RecvInv, DeliverInv, DrainInv DEF ReadLoop
<1>4. ASSUME NEW t \in Reads, Break(t) PROVE IInv'
  BY <1>1, <1>4 DEF Break, readVars
<1>5. CASE UNCHANGED vars
  BY <1>1, <1>5 DEF vars, readVars, chrome, shown
<1> QED
  BY <1>2, <1>3, <1>4, <1>5 DEF Next

(* The invariant holds in every reachable state.                           *)
THEOREM Invariance == Spec => []IInv
BY InitInv, StepInv, PTL DEF Spec

(* Whatever a call of the debugging protocol finds in its channel is the   *)
(* answer to this very command (call, readLoop).                           *)
THEOREM AnswersMatch == Spec => []OwnAnswer
BY Invariance, PTL DEF IInv

(* The table of pending calls has the calls under way and no other, and    *)
(* the read loop never waits for a caller that has gone.                   *)
THEOREM TableExact == Spec => []PendingExact
BY Invariance, InvImpliesPending, PTL

(* As long as no two reads of an agent overlap, the text that a read       *)
(* returns is that of the page its own navigation left Chrome at, whatever *)
(* answers to expired reads and broken connections are still under way     *)
(* (ReadPage, navigate).                                                   *)
THEOREM TextOfItsNavigation == Spec => []TextWhereLanded
<1>1. Init => IInv /\ PageInv
  BY InitInv, PageInit
<1>2. IInv /\ PageInv /\ [Next]_vars => (IInv /\ PageInv)'
  BY StepInv, PageStep
<1>3. PageInv => TextWhereLanded
  BY DEF PageInv, Alone, TextWhereLanded
<1> QED
  BY <1>1, <1>2, <1>3, PTL DEF Spec
=============================================================================
