------------------------------ MODULE CdpTarget ------------------------------
(***************************************************************************)
(* The proxy that reads pages through Chrome's debugging protocol          *)
(* (internal/chromproxy/proxy.go), for one agent: ReadPage, the cached     *)
(* target, its table of pending calls and its read loop.  Reads of the     *)
(* same Ward follow each other; those of an agent's old and new Ward may   *)
(* overlap, so any two may here.                                           *)
(*                                                                         *)
(* A target is named by the read that dialled it, a page by the read that  *)
(* navigated to it.  Chrome is external: it takes the commands of a        *)
(* connection in order, answers in any order or never, and its connection  *)
(* may break at any time.  Both targets of a race show the same page.      *)
(***************************************************************************)
EXTENDS Naturals, Functions

CONSTANTS
  Reads,     (* page reads the policy allows                                *)
  None,
  MaxPolls   (* bound: polls of document.readyState; the code has 10 s      *)

ASSUME CdpAssumption == None \notin Reads \cup {"other"} /\ MaxPolls \in Nat \ {0}

VARIABLES
  read,      (* where each ReadPage is                                      *)
  target,    (* the target it uses                                          *)
  made,      (* calls it has made; the last may be under way                *)
  call, id,  (* where that call is, its number                              *)
  inbox,     (* what its channel holds, and in answer to which call         *)
  text,      (* the page whose text the read returned                       *)
  targets,   (* Proxy.targets: the agent's                                  *)
  msgID, pending, (* of each target; pending leads to calls                 *)
  reader, held,   (* its read loop, and what that hands to whom             *)
  conn, answers,  (* its connection, and the answers on it                  *)
  page,      (* what Chrome shows: the page of a read, or another           *)
  landed,    (* history: where a navigation answered without error ended,   *)
             (* until two reads overlap                                     *)
  overlapped (* history: two reads ran at the same time                     *)

readVars == <<read, target, made, text, targets, overlapped>>
callVars == <<call, id, inbox>>
tableVars == <<msgID, pending>>
loopVars == <<reader, held>>
shown == <<page, landed>>
chrome == <<conn, answers, shown>>
vars == <<readVars, callVars, tableVars, loopVars, chrome>>

Refused == "refused"  (* Chrome's answer is an error                        *)
Failed == "failed"    (* no answer: not sent, connection lost, context done *)

Reading(r) == read[r] \notin {"idle", "done"}
Current(r) == <<r, made[r]>>
CallingPhases == {"navigate", "settle", "tree", "inner"}

Init ==
  /\ read = [r \in Reads |-> "idle"]
  /\ target = [r \in Reads |-> None] /\ made = [r \in Reads |-> 0]
  /\ call = [r \in Reads |-> "none"] /\ id = [r \in Reads |-> 0]
  /\ inbox = [r \in Reads |-> None] /\ text = [r \in Reads |-> None]
  /\ targets = None
  /\ msgID = [t \in Reads |-> 0] /\ pending = [t \in Reads |-> <<>>]
  /\ reader = [t \in Reads |-> "none"] /\ held = [t \in Reads |-> None]
  /\ conn = [t \in Reads |-> "none"] /\ answers = [t \in Reads |-> {}]
  /\ page = "other" /\ landed = [r \in Reads |-> None] /\ overlapped = FALSE

Goes(r, from, to) == read[r] = from /\ read' = [read EXCEPT ![r] = to]
CallGoes(r, from, to) == call[r] = from /\ call' = [call EXCEPT ![r] = to]

(* A table of pending calls with the entry of number i, or without it.     *)
With(f, i, c) == [j \in DOMAIN f \cup {i} |-> IF j = i THEN c ELSE f[j]]
Without(f, i) == Restrict(f, DOMAIN f \ {i})

-----------------------------------------------------------------------------
(* Faulty variants of definitions below.  The specification does not use   *)
(* them.                                                                   *)

(* A failing navigation is not fatal.                                      *)
NavigationIgnored == [navigate |-> "tree", settle |-> "tree", tree |-> "inner", inner |-> "done"]

(* The number is that of the call and not of the target's last one: each   *)
(* read counts its own.                                                    *)
NumberPerRead(r) ==
  LET t == target[r]  IN
  /\ read[r] \in CallingPhases /\ CallGoes(r, "none", "send")
  /\ made' = [made EXCEPT ![r] = @ + 1]
  /\ msgID' = [msgID EXCEPT ![t] = @ + 1]
  /\ id' = [id EXCEPT ![r] = made'[r]]
  /\ pending' = [pending EXCEPT ![t] = With(@, made'[r], <<r, made'[r]>>)]
  /\ UNCHANGED <<read, target, text, targets, overlapped, inbox, loopVars, chrome>>

(* A call that gives up leaves its entry.                                  *)
EntryLeft(r) == UNCHANGED <<tableVars, chrome>>

-----------------------------------------------------------------------------
(* ReadPage.                                                               *)

(* openTarget: the cached target, or a new one, which is looked for, made  *)
(* and stored without the lock.  Listing, opening and dialling may fail.   *)
Begin(r) ==
  /\ Goes(r, "idle", IF targets = None THEN "dial" ELSE "navigate")
  /\ target' = [target EXCEPT ![r] = targets]
  /\ overlapped' = (overlapped \/ \E s \in Reads : Reading(s))
  /\ UNCHANGED <<made, text, targets, callVars, tableVars, loopVars, chrome>>

Dial(r) ==
  /\ \/ /\ Goes(r, "dial", "store")
        /\ conn' = [conn EXCEPT ![r] = "up"]
        /\ reader' = [reader EXCEPT ![r] = "recv"]
     \/ Goes(r, "dial", "done") /\ UNCHANGED <<conn, reader>>
  /\ UNCHANGED <<target, made, text, targets, overlapped, callVars, tableVars>>
  /\ UNCHANGED <<held, answers, shown>>

StoreTarget(r) ==
  /\ Goes(r, "store", "navigate")
  /\ targets' = r
  /\ target' = [target EXCEPT ![r] = r]
  /\ UNCHANGED <<made, text, overlapped, callVars, tableVars, loopVars, chrome>>

(* Where ReadPage goes on after the call of a phase: a navigation that     *)
(* fails ends it, everything else has a fallback; on an answer it may wait *)
(* for the network or not, poll once more, or find the tree empty.         *)
OnFailure == [navigate |-> "done", settle |-> "tree", tree |-> "inner", inner |-> "done"]
OnAnswer == [navigate |-> {"settle", "tree"}, settle |-> {"settle", "tree"},
             tree |-> {"inner", "done"}, inner |-> {"done"}]

Proceed(r, o) ==
  IF o \in {Refused, Failed}
  THEN Goes(r, read[r], OnFailure[read[r]]) /\ UNCHANGED text
  ELSE \E to \in OnAnswer[read[r]] :
         /\ to = "settle" => made[r] <= MaxPolls
         /\ Goes(r, read[r], to)
         /\ text' = IF to = "done" THEN [text EXCEPT ![r] = o] ELSE text

(* waitNetworkIdle finds the context done instead of polling.              *)
StopPolling(r) ==
  /\ Goes(r, "settle", "tree")
  /\ call[r] = "none"
  /\ UNCHANGED <<target, made, text, targets, overlapped>>
  /\ UNCHANGED <<callVars, tableVars, loopVars, chrome>>

-----------------------------------------------------------------------------
(* target.call.                                                            *)

(* The number is allocated and the call's channel entered in the table;    *)
(* nobody looks at the number between the two.                             *)
BeginCall(r) ==
  LET t == target[r]  IN
  /\ read[r] \in CallingPhases /\ CallGoes(r, "none", "send")
  /\ made' = [made EXCEPT ![r] = @ + 1]
  /\ msgID' = [msgID EXCEPT ![t] = @ + 1]
  /\ id' = [id EXCEPT ![r] = msgID'[t]]
  /\ pending' = [pending EXCEPT ![t] = With(@, msgID'[t], <<r, made'[r]>>)]
  /\ UNCHANGED <<read, target, text, targets, overlapped>>
  /\ UNCHANGED <<inbox, loopVars, chrome>>

(* The caller goes on at once: what it does then nobody else sees.         *)
End(r, outcome) ==
  /\ id' = [id EXCEPT ![r] = 0]
  /\ inbox' = [inbox EXCEPT ![r] = None]
  /\ Proceed(r, outcome)
  /\ UNCHANGED <<target, made, targets, overlapped, loopVars>>

(* Its channel, with what it may hold by now, is nobody's any more.        *)
Unregister(r) ==
  /\ pending' = [pending EXCEPT ![target[r]] = Without(@, id[r])]
  /\ UNCHANGED <<msgID, chrome>>

(* Chrome takes the command, or the connection is broken, and this end has *)
(* not noticed yet.  Whether a navigation is refused is settled here, what *)
(* the answer to another command shows when it is received.                *)
Take(r, outcomes) ==
  answers' = [answers EXCEPT ![target[r]] =
    @ \cup {[id |-> id[r], call |-> Current(r), outcomes |-> outcomes]}]

(* A navigation that is not refused need not be carried out: Chrome names  *)
(* the reason in the result of Page.navigate, which navigate discards, and *)
(* shows the page it showed (a download, no content) or one of its own.    *)
Navigate(r) ==
  /\ read[r] = "navigate"
  /\ \/ Take(r, {Refused}) /\ UNCHANGED shown
     \/ /\ Take(r, {"ok"})
        /\ page' \in {r, page, "other"}
        /\ landed' = [landed EXCEPT ![r] = IF overlapped THEN None ELSE page']

Send(r) ==
  /\ CallGoes(r, "send", "wait")
  /\ \/ conn[target[r]] = "up" /\ Navigate(r)
     \/ /\ conn[target[r]] = "up" /\ read[r] # "navigate"
        /\ Take(r, {"ok", Refused}) /\ UNCHANGED shown
     \/ conn[target[r]] # "up" /\ UNCHANGED <<shown, answers>>
  /\ UNCHANGED <<readVars, id, inbox, tableVars, loopVars, conn>>

SendFails(r) ==
  /\ CallGoes(r, "send", "none") /\ conn[target[r]] = "down"
  /\ Unregister(r) /\ End(r, Failed)

(* The select: the result, or the end of the context.                      *)
TakeResult(r) ==
  /\ CallGoes(r, "wait", "none") /\ inbox[r] # None
  /\ End(r, inbox[r].result)
  /\ UNCHANGED <<tableVars, chrome>>

ContextDone(r) ==
  /\ CallGoes(r, "wait", "none")
  /\ Unregister(r) /\ End(r, Failed)

-----------------------------------------------------------------------------
(* readLoop.  A channel has room for one result; that of a call which gave *)
(* up is only known to the loop.                                           *)

Room(c) == c = Current(c[1]) /\ call[c[1]] # "none" => inbox[c[1]] = None
Put(c, answer) ==
  [inbox EXCEPT ![c[1]] = IF c = Current(c[1]) /\ call[c[1]] # "none" THEN answer ELSE @]

Recv(t) ==
  \E a \in answers[t] : \E o \in a.outcomes :
    /\ reader[t] = "recv"
    /\ answers' = [answers EXCEPT ![t] = @ \ {a}]
    /\ pending' = [pending EXCEPT ![t] = Without(@, a.id)]
    /\ IF a.id \in DOMAIN pending[t]
       THEN /\ reader' = [reader EXCEPT ![t] = "deliver"]
            /\ held' = [held EXCEPT ![t] =
                 [to |-> pending[t][a.id], of |-> a.call,
                  result |-> IF o = "ok" THEN page ELSE Refused]]
       ELSE UNCHANGED loopVars
    /\ UNCHANGED <<readVars, callVars, msgID, conn, shown>>

Deliver(t) ==
  /\ reader[t] = "deliver" /\ Room(held[t].to)
  /\ inbox' = Put(held[t].to, [of |-> held[t].of, result |-> held[t].result])
  /\ reader' = [reader EXCEPT ![t] = "recv"]
  /\ held' = [held EXCEPT ![t] = None]
  /\ UNCHANGED <<readVars, call, id, tableVars, chrome>>

(* The connection is gone: every pending caller gets the error.            *)
Drain(t) ==
  LET callers == {pending[t][i] : i \in DOMAIN pending[t]}  IN
  /\ reader[t] = "recv" /\ conn[t] = "down"
  /\ \A c \in callers : Room(c)
  /\ inbox' = [r \in Reads |-> IF Current(r) \in callers
                 THEN [of |-> Current(r), result |-> Failed] ELSE inbox[r]]
  /\ pending' = [pending EXCEPT ![t] = <<>>]
  /\ reader' = [reader EXCEPT ![t] = "ended"]
  /\ answers' = [answers EXCEPT ![t] = {}]
  /\ UNCHANGED <<readVars, call, id, msgID, held, conn, shown>>

(* Chrome exits or closes the page, or the forwarder in between goes away. *)
Break(t) ==
  /\ conn[t] = "up"
  /\ conn' = [conn EXCEPT ![t] = "down"]
  /\ UNCHANGED <<readVars, callVars, tableVars, loopVars, answers, shown>>

-----------------------------------------------------------------------------
ReadOn(r) ==
  \/ Dial(r) \/ StoreTarget(r) \/ StopPolling(r)
  \/ BeginCall(r) \/ Send(r) \/ SendFails(r) \/ TakeResult(r) \/ ContextDone(r)
ReadLoop(t) == Recv(t) \/ Deliver(t) \/ Drain(t)

Next ==
  \E r \in Reads :
    \/ Begin(r) \/ ReadOn(r) \/ ReadLoop(r) \/ Break(r)

Spec == Init /\ [][Next]_vars

-----------------------------------------------------------------------------
(* Properties.                                                             *)

(* What a call finds in its channel is the answer to this very command,    *)
(* however late the answers to earlier ones come (call, readLoop: the      *)
(* number finds the channel).                                              *)
OwnAnswer == \A r \in Reads : inbox[r] # None => inbox[r].of = Current(r)

(* The table has no entry of a call that returned, and whoever the read    *)
(* loop gives a result has room for it: the loop, which drains with the    *)
(* table locked, never waits for a caller that has gone.                   *)
PendingExact ==
  \A t \in Reads :
    /\ \A i \in DOMAIN pending[t] :
         LET c == pending[t][i]  r == c[1]  IN
         /\ c = Current(r) /\ call[r] # "none" /\ id[r] = i /\ target[r] = t
         /\ inbox[r] = None
    /\ reader[t] = "deliver" => Room(held[t].to)

(* The text a read returns is that of the page its own navigation left     *)
(* Chrome at, as long as no two reads overlapped: all reads of an agent    *)
(* share one page, and an expired read leaves its commands behind.  That   *)
(* is the page of the URL, unless Chrome answered the navigation without   *)
(* an error and did not carry it out: then ReadPage returns, as that of    *)
(* the URL, the text of an earlier page or of Chrome's error page.  After  *)
(* a refused navigation there is no text.                                  *)
TextWhereLanded == ~overlapped => \A r \in Reads : text[r] \in {landed[r], None}
=============================================================================
