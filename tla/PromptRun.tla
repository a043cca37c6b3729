----------------------------- MODULE PromptRun -----------------------------
(***************************************************************************)
(* The prompts of a Ward: handlePrompt with its LLM subprocess             *)
(* (cmd/ward/main.go), the tool calls that may abort that subprocess       *)
(* (cmd/ward/toolserver.go) and the event that reports the outcome.        *)
(*                                                                         *)
(* Every prompt and every tool call has a goroutine of its own, while the  *)
(* Ward has one set of fields (activeLoop, activeCmd, activeAbort) for     *)
(* "the" current run.  A granted call that validates goes on to keeperd:   *)
(* that round trip is module CapabilityCalls.                              *)
(***************************************************************************)
EXTENDS Naturals, Sequences

CONSTANTS
  Prompts,
  Tools,      (* tool calls that LLM subprocesses make                      *)
  Nobody,
  Threshold,  (* --loop-threshold                                           *)
  Retries     (* schema-error-retries                                       *)

ASSUME PromptAssumption ==
  Nobody \notin Prompts /\ Threshold \in Nat \ {0, 1} /\ Retries \in Nat

VARIABLES
  run,        (* where each prompt's goroutines are                         *)
  attempt,    (* how many subprocesses were started for it                  *)
  proc,       (* the process of its latest attempt                          *)
  kind,       (* the outcome of its latest attempt                          *)
  blame,      (* the abort that outcome was taken from                      *)
  activeLoop, (* identical calls the published loop detector has counted    *)
  activeCmd,  (* whose process is                                           *)
  activeAbort,(* the abort stored and not yet taken                         *)
  tool,       (* where each tool call is                                    *)
  caller,     (* the prompt whose subprocess made it, until it is done      *)
  reports     (* the events the Ward sent for each prompt                   *)

runVars == <<run, attempt, proc, kind, blame>>
shared == <<activeLoop, activeCmd, activeAbort>>
toolVars == <<tool, caller>>
vars == <<runVars, shared, toolVars, reports>>

Attempts == Prompts \X (1..(Retries + 1))
Current(q) == <<q, attempt[q]>>
NoAttempt == <<Nobody, 0>>
(* A detector that is not published any more is out of reach: only the     *)
(* published one's count is kept.                                          *)
NoLoop == Threshold + 1

Aborts == {"loop_detected", "schema_invalid", "malformed_tool_call"}
Failures == Aborts \cup {"subprocess_crash"}
(* Calls with the same valid arguments; with arguments that do not         *)
(* validate, all different and so never a loop; bytes that are not a call. *)
CallKinds == {"same", "invalid", "garbled"}

(* An abort: its kind, the call that stored it, the prompt it was made for *)
(* and the attempts then running.                                          *)
Abort(k, t, q, during) == [kind |-> k, by |-> t, from |-> q, during |-> during]
NoAbort == Abort("none", Nobody, Nobody, {})

RunSteps == {"new", "launch", "pubLoop", "pubCmd",
             "clearAbort", "scan", "unpubLoop", "unpubCmd", "report",
             "done"}
(* Between the start of a process and its Wait.                            *)
Busy(q) == run[q] \in {"pubLoop", "pubCmd", "clearAbort", "scan"}

Init ==
  /\ run = [q \in Prompts |-> "new"]
  /\ attempt = [q \in Prompts |-> 0]
  /\ proc = [q \in Prompts |-> "none"]
  /\ kind = [q \in Prompts |-> "none"]
  /\ blame = [q \in Prompts |-> NoAbort]
  /\ activeLoop = NoLoop /\ activeCmd = NoAttempt /\ activeAbort = NoAbort
  /\ tool = [t \in Tools |-> "idle"]
  /\ caller = [t \in Tools |-> Nobody]
  /\ reports = [q \in Prompts |-> <<>>]

Goto(q, s) == run' = [run EXCEPT ![q] = s]

-----------------------------------------------------------------------------
(* Faulty variants of definitions below.  The specification does not use   *)
(* them: each is a slip that one of the properties has to notice.          *)

AfterAttemptUnbounded(q, k) == IF k = "schema_invalid" THEN "launch" ELSE "report"

(* A subprocess that cannot be started is only logged.                     *)
LaunchSilently(q) ==
  /\ run[q] = "launch"
  /\ attempt' = [attempt EXCEPT ![q] = @ + 1]
  /\ blame' = [blame EXCEPT ![q] = NoAbort]
  /\ \/ /\ proc' = [proc EXCEPT ![q] = "alive"]
        /\ kind' = kind
        /\ Goto(q, "pubLoop")
     \/ /\ proc' = [proc EXCEPT ![q] = "none"]
        /\ kind' = [kind EXCEPT ![q] = "subprocess_crash"]
        /\ Goto(q, "done")
  /\ UNCHANGED <<shared, toolVars, reports>>

(* The abort of an earlier run is not cleared.                             *)
ClearAbortOmitted(q) ==
  /\ run[q] = "clearAbort"
  /\ Goto(q, "scan")
  /\ UNCHANGED <<attempt, proc, kind, blame, shared, toolVars, reports>>

(* The stored abort is looked at before how the process ended.             *)
WaitAbortFirst(q) ==
  /\ run[q] = "scan" /\ proc[q] \in {"ok", "bad"}
  /\ kind' = [kind EXCEPT ![q] =
                 IF activeAbort # NoAbort THEN activeAbort.kind
                 ELSE IF proc[q] = "ok" THEN "success" ELSE "subprocess_crash"]
  /\ blame' = [blame EXCEPT ![q] = activeAbort]
  /\ activeAbort' = NoAbort
  /\ Goto(q, "unpubLoop")
  /\ UNCHANGED <<attempt, proc, activeLoop, activeCmd, toolVars, reports>>

-----------------------------------------------------------------------------
(* handlePrompt and runLLMSubprocess.                                      *)

(* The Ward's loop takes a prompt frame and starts a goroutine for it.     *)
Begin(q) ==
  /\ run[q] = "new"
  /\ Goto(q, "launch")
  /\ UNCHANGED <<attempt, proc, kind, blame, shared, toolVars, reports>>

(* Only a run aborted for invalid arguments is tried again.                *)
AfterAttempt(q, k) ==
  IF k = "schema_invalid" /\ attempt[q] <= Retries THEN "launch" ELSE "report"

(* The subprocess starts, or cannot (which is reported as a crash).        *)
Launch(q) ==
  /\ run[q] = "launch"
  /\ attempt' = [attempt EXCEPT ![q] = @ + 1]
  /\ blame' = [blame EXCEPT ![q] = NoAbort]
  /\ \/ /\ proc' = [proc EXCEPT ![q] = "alive"]
        /\ kind' = kind
        /\ Goto(q, "pubLoop")
     \/ /\ proc' = [proc EXCEPT ![q] = "none"]
        /\ kind' = [kind EXCEPT ![q] = "subprocess_crash"]
        /\ Goto(q, "report")
  /\ UNCHANGED <<shared, toolVars, reports>>

(* The run is published by one atomic store after another.                 *)
PublishLoop(q) ==
  /\ run[q] = "pubLoop"
  /\ activeLoop' = 0
  /\ Goto(q, "pubCmd")
  /\ UNCHANGED <<attempt, proc, kind, blame, activeCmd, activeAbort,
                 toolVars, reports>>
PublishCmd(q) ==
  /\ run[q] = "pubCmd"
  /\ activeCmd' = Current(q)
  /\ Goto(q, "clearAbort")
  /\ UNCHANGED <<attempt, proc, kind, blame, activeLoop, activeAbort,
                 toolVars, reports>>
ClearAbort(q) ==
  /\ run[q] = "clearAbort"
  /\ activeAbort' = NoAbort
  /\ Goto(q, "scan")
  /\ UNCHANGED <<attempt, proc, kind, blame, activeLoop, activeCmd,
                 toolVars, reports>>

(* The subprocess ends by itself, well or not.                             *)
ProcessExits(q) ==
  /\ proc[q] = "alive"
  /\ \E how \in {"ok", "bad"} : proc' = [proc EXCEPT ![q] = how]
  /\ UNCHANGED <<run, attempt, kind, blame, shared, toolVars, reports>>

(* Wait: a process that ended well is a success whatever was stored; one   *)
(* that did not takes the stored abort, if there is one, for its reason.   *)
Wait(q) ==
  /\ run[q] = "scan" /\ proc[q] \in {"ok", "bad"}
  /\ IF proc[q] = "ok"
       THEN /\ kind' = [kind EXCEPT ![q] = "success"]
            /\ UNCHANGED <<blame, activeAbort>>
       ELSE /\ kind' = [kind EXCEPT ![q] = IF activeAbort = NoAbort
                          THEN "subprocess_crash" ELSE activeAbort.kind]
            /\ blame' = [blame EXCEPT ![q] = activeAbort]
            /\ activeAbort' = NoAbort
  /\ Goto(q, "unpubLoop")
  /\ UNCHANGED <<attempt, proc, activeLoop, activeCmd, toolVars, reports>>

(* The deferred stores, whatever is published by then.                     *)
UnpublishLoop(q) ==
  /\ run[q] = "unpubLoop"
  /\ activeLoop' = NoLoop
  /\ Goto(q, "unpubCmd")
  /\ UNCHANGED <<attempt, proc, kind, blame, activeCmd, activeAbort,
                 toolVars, reports>>
UnpublishCmd(q) ==
  /\ run[q] = "unpubCmd"
  /\ activeCmd' = NoAttempt
  /\ Goto(q, AfterAttempt(q, kind[q]))
  /\ UNCHANGED <<attempt, proc, kind, blame, activeLoop, activeAbort,
                 toolVars, reports>>

(* One event, a completion or a failure, under the prompt's own number.    *)
Report(q) ==
  /\ run[q] = "report"
  /\ reports' = [reports EXCEPT ![q] = Append(@, kind[q])]
  /\ Goto(q, "done")
  /\ UNCHANGED <<attempt, proc, kind, blame, shared, toolVars>>

-----------------------------------------------------------------------------
(* The tool server.                                                        *)

StepTo(t, s) == tool' = [tool EXCEPT ![t] = s] /\ UNCHANGED caller
Finish(t) ==
  /\ tool' = [tool EXCEPT ![t] = "done"]
  /\ caller' = [caller EXCEPT ![t] = Nobody]

(* A live subprocess runs a capability CLI, which connects.  The call may  *)
(* outlive the subprocess.                                                 *)
Call(t, q, w) ==
  /\ tool[t] = "idle" /\ proc[q] = "alive"
  /\ caller' = [caller EXCEPT ![t] = q]
  /\ tool' = [tool EXCEPT ![t] = w]
  /\ UNCHANGED <<runVars, shared, reports>>

(* executeTool: the published detector, if any, counts the call.           *)
CheckLoop(t) ==
  /\ tool[t] = "same"
  /\ IF activeLoop = NoLoop
       THEN Finish(t) /\ UNCHANGED activeLoop
       ELSE IF activeLoop + 1 < Threshold
              THEN Finish(t) /\ activeLoop' = activeLoop + 1
              ELSE StepTo(t, "looping") /\ activeLoop' = Threshold
  /\ UNCHANGED <<runVars, activeCmd, activeAbort, reports>>

(* The reasons to abort: identical calls reached the threshold, arguments  *)
(* do not validate, or the bytes sent are not a call (handleConn).         *)
Reason == [looping |-> "loop_detected", invalid |-> "schema_invalid",
           garbled |-> "malformed_tool_call"]

(* abortActivePrompt: the reason is stored ...                             *)
StoreAbort(t) ==
  /\ tool[t] \in DOMAIN Reason
  /\ activeAbort' = Abort(Reason[tool[t]], t, caller[t],
                          {Current(q) : q \in {p \in Prompts : Busy(p)}})
  /\ StepTo(t, "kill")
  /\ UNCHANGED <<runVars, activeLoop, activeCmd, reports>>

(* ... and the published process, if any, killed; an exited one is past    *)
(* that.                                                                   *)
Kill(t) ==
  /\ tool[t] = "kill"
  /\ proc' = [q \in Prompts |->
                IF activeCmd = Current(q) /\ proc[q] = "alive" THEN "bad"
                                                               ELSE proc[q]]
  /\ Finish(t)
  /\ UNCHANGED <<run, attempt, kind, blame, shared, reports>>

-----------------------------------------------------------------------------
Ward(q) ==
  \/ Launch(q) \/ PublishLoop(q) \/ PublishCmd(q) \/ ClearAbort(q)
  \/ Wait(q) \/ UnpublishLoop(q) \/ UnpublishCmd(q) \/ Report(q)
ToolStep(t) == CheckLoop(t) \/ StoreAbort(t) \/ Kill(t)

Next ==
  \/ \E q \in Prompts : Begin(q) \/ Ward(q) \/ ProcessExits(q)
  \/ \E t \in Tools : ToolStep(t) \/ \E q \in Prompts, w \in CallKinds : Call(t, q, w)

Spec == Init /\ [][Next]_vars

(* Goroutines run.  Nothing makes an LLM subprocess call a tool or end:    *)
(* the Ward gives it no deadline.                                          *)
FairSpec ==
  /\ Spec
  /\ \A q \in Prompts : WF_vars(Ward(q))
  /\ \A t \in Tools : WF_vars(ToolStep(t))

-----------------------------------------------------------------------------
(* Properties.                                                             *)

Outcomes == Failures \cup {"success", "none"}
StoredAborts ==
  [kind : Aborts, by : Tools, from : Prompts, during : SUBSET Attempts] \cup {NoAbort}

TypeOK ==
  /\ run \in [Prompts -> RunSteps]
  /\ attempt \in [Prompts -> 0..(Retries + 1)]
  /\ proc \in [Prompts -> {"none", "alive", "ok", "bad"}]
  /\ kind \in [Prompts -> Outcomes]
  /\ blame \in [Prompts -> StoredAborts] /\ activeAbort \in StoredAborts
  /\ activeLoop \in 0..Threshold \cup {NoLoop}
  /\ activeCmd \in Attempts \cup {NoAttempt}
  /\ tool \in [Tools -> {"idle", "looping", "kill", "done"} \cup CallKinds]
  /\ caller \in [Tools -> Prompts \cup {Nobody}]
  /\ reports \in [Prompts -> Seq(Outcomes \ {"none"})]

(* A failed attempt is never explained by an abort that was stored before  *)
(* its process started or after it was waited for (each run clears the     *)
(* field when it is published).                                            *)
AbortIsFresh ==
  \A q \in Prompts : blame[q] # NoAbort => Current(q) \in blame[q].during

(* The event of a prompt tells how its last attempt ended: success only if *)
(* that process ended well, and an abort only if it did not; there is one  *)
(* event, although there may be several attempts.                          *)
ReportTellsLastAttempt ==
  \A q \in Prompts :
    reports[q] # <<>> =>
      /\ Len(reports[q]) = 1 /\ run[q] = "done"
      /\ reports[q][1] = "success" <=> proc[q] = "ok"
      /\ reports[q][1] \in Aborts <=> blame[q] # NoAbort
      /\ reports[q][1] = "schema_invalid" => attempt[q] = Retries + 1

(* A prompt begun is reported by an event, unless its subprocess goes      *)
(* on for ever: neither aborts, retries nor other runs can lose it.        *)
ReportedUnlessHung ==
  \A q \in Prompts :
    run[q] = "launch" ~> reports[q] # <<>> \/ [](proc[q] = "alive")
=============================================================================
