-------------------------- MODULE PromptRun_proofs --------------------------
(***************************************************************************)
(* Theorems about PromptRun for any number of prompts and tool calls, and  *)
(* any threshold and number of retries.                                    *)
(***************************************************************************)
EXTENDS PromptRun, TLAPS

(***************************************************************************)
(* The inductive invariant.  The abort a run will take is one stored since *)
(* it cleared the field, at a time when its attempt was under way (Fresh); *)
(* and what its attempt came to stays as it is until the event is sent     *)
(* (Stage), because a process that was waited for ends only once.          *)
(***************************************************************************)
Waited == {"unpubLoop", "unpubCmd", "report", "done"}

Fresh(q) ==
  /\ run[q] = "scan" /\ activeAbort # NoAbort => Current(q) \in activeAbort.during
  /\ blame[q] # NoAbort => Current(q) \in blame[q].during

Stage(q) ==
  /\ proc[q] = "alive" => Busy(q)
  /\ Busy(q) => attempt[q] >= 1 /\ blame[q] = NoAbort
  /\ run[q] \in {"new", "launch"} => attempt[q] <= Retries
  /\ run[q] \in Waited => /\ kind[q] # "none"
                          /\ kind[q] = "success" <=> proc[q] = "ok"
                          /\ kind[q] \in Aborts <=> blame[q] # NoAbort
  /\ run[q] \in {"report", "done"} =>
       (kind[q] = "schema_invalid" => attempt[q] = Retries + 1)
  /\ run[q] # "done" => reports[q] = <<>>
  /\ run[q] = "done" => reports[q] = <<kind[q]>>

(* A tool call under way has a caller.                                     *)
Called == \A t \in Tools : tool[t] \notin {"idle", "done"} => caller[t] \in Prompts

IInv == TypeOK /\ Called /\ \A q \in Prompts : Fresh(q) /\ Stage(q)

-----------------------------------------------------------------------------
(* The invariant holds at the start, and contains the properties.          *)
LEMMA InitInv == Init => IInv
<1> SUFFICES ASSUME Init PROVE IInv
  OBVIOUS
<1>1. TypeOK
  BY PromptAssumption DEF Init, TypeOK, RunSteps, Outcomes, NoLoop, StoredAborts
<1>2. ASSUME NEW q \in Prompts PROVE Fresh(q) /\ Stage(q)
  <2>1. /\ run[q] = "new" /\ attempt[q] = 0 /\ proc[q] = "none" /\ blame[q] = NoAbort
        /\ reports[q] = <<>>
    BY DEF Init
  <2>2. 0 <= Retries
    BY PromptAssumption
  <2>3. Fresh(q)
    BY <2>1 DEF Fresh
  <2> QED
    BY <2>1, <2>2, <2>3 DEF Stage, Busy, Waited
<1>3. Called
  BY DEF Init, Called
<1> QED
  BY <1>1, <1>2, <1>3 DEF IInv

(* The invariant contains the two properties.                              *)
LEMMA InvImpliesProperties == IInv => AbortIsFresh /\ ReportTellsLastAttempt
<1> SUFFICES ASSUME IInv PROVE AbortIsFresh /\ ReportTellsLastAttempt
  OBVIOUS
<1>1. AbortIsFresh
  BY DEF IInv, Fresh, AbortIsFresh
<1>2. ASSUME NEW q \in Prompts, reports[q] # <<>>
      PROVE  /\ Len(reports[q]) = 1 /\ run[q] = "done"
             /\ reports[q][1] = "success" <=> proc[q] = "ok"
             /\ reports[q][1] \in Aborts <=> blame[q] # NoAbort
             /\ reports[q][1] = "schema_invalid" => attempt[q] = Retries + 1
  <2>1. run[q] = "done" /\ reports[q] = <<kind[q]>>
    BY <1>2 DEF IInv, Stage
  <2>2. Len(reports[q]) = 1 /\ reports[q][1] = kind[q]
    BY <2>1
  <2>3. /\ kind[q] = "success" <=> proc[q] = "ok"
        /\ kind[q] \in Aborts <=> blame[q] # NoAbort
        /\ kind[q] = "schema_invalid" => attempt[q] = Retries + 1
    BY <2>1 DEF IInv, Stage, Waited
  <2> QED
    BY <2>1, <2>2, <2>3
<1> QED
  BY <1>1, <1>2 DEF ReportTellsLastAttempt

(* A step leaves a run alone that it does not change, also when it clears  *)
(* the stored abort.                                                       *)
LEMMA Untouched ==
  ASSUME IInv, NEW p \in Prompts, activeAbort' \in {activeAbort, NoAbort},
         run'[p] = run[p], attempt'[p] = attempt[p], proc'[p] = proc[p],
         kind'[p] = kind[p], blame'[p] = blame[p], reports'[p] = reports[p]
  PROVE  Fresh(p)' /\ Stage(p)'
<1>1. Fresh(p)'
  BY DEF IInv, Fresh, Current
<1>2. Stage(p)'
  BY DEF IInv, Stage, Busy
<1> QED
  BY <1>1, <1>2

-----------------------------------------------------------------------------
(* handlePrompt and runLLMSubprocess.                                      *)

(* A prompt that begins has no attempt yet.                                *)
LEMMA BeginInv == ASSUME IInv, NEW q \in Prompts, Begin(q) PROVE IInv'
<1>1. TypeOK'
  BY DEF Begin, Goto, IInv, TypeOK, RunSteps, shared, toolVars
<1>2. Fresh(q)' /\ Stage(q)'
  BY DEF Begin, Goto, IInv, TypeOK, Fresh, Stage, Busy, Current, shared, Waited
<1>3. ASSUME NEW p \in Prompts, p # q PROVE Fresh(p)' /\ Stage(p)'
  BY <1>3, Untouched DEF Begin, Goto, IInv, TypeOK, shared
<1>4. Called'
  BY DEF Begin, toolVars, IInv, Called
<1> QED
  BY <1>1, <1>2, <1>3, <1>4 DEF IInv

(* A new attempt starts with no blame.                                     *)
LEMMA LaunchInv == ASSUME IInv, NEW q \in Prompts, Launch(q) PROVE IInv'
<1>1. /\ run[q] = "launch" /\ attempt' = [attempt EXCEPT ![q] = attempt[q] + 1]
      /\ blame' = [blame EXCEPT ![q] = NoAbort]
      /\ UNCHANGED <<activeLoop, activeCmd, activeAbort, tool, caller, reports>>
  BY DEF Launch, shared, toolVars
<1>2. \/ /\ proc' = [proc EXCEPT ![q] = "alive"] /\ kind' = kind
         /\ run' = [run EXCEPT ![q] = "pubLoop"]
      \/ /\ proc' = [proc EXCEPT ![q] = "none"]
         /\ kind' = [kind EXCEPT ![q] = "subprocess_crash"]
         /\ run' = [run EXCEPT ![q] = "report"]
  BY DEF Launch, Goto
<1>3. attempt[q] \in 0..Retries /\ attempt'[q] \in 1..(Retries + 1) /\ reports[q] = <<>>
  BY <1>1, PromptAssumption DEF IInv, TypeOK, Stage
<1>4. TypeOK'
  <2>1. attempt' \in [Prompts -> 0..(Retries + 1)]
    BY <1>1, <1>3, PromptAssumption DEF IInv, TypeOK
  <2>2. run' \in [Prompts -> RunSteps]
    BY <1>2 DEF IInv, TypeOK, RunSteps
  <2>3. /\ proc' \in [Prompts -> {"none", "alive", "ok", "bad"}]
        /\ kind' \in [Prompts -> Outcomes]
    BY <1>2 DEF IInv, TypeOK, Outcomes, Failures
  <2>4. blame' \in [Prompts -> StoredAborts]
    BY <1>1 DEF IInv, TypeOK, StoredAborts
  <2> QED
    BY <1>1, <2>1, <2>2, <2>3, <2>4 DEF IInv, TypeOK
<1>5. Fresh(q)' /\ Stage(q)'
  <2>1. blame'[q] = NoAbort
    BY <1>1 DEF IInv, TypeOK
  <2>2. \/ run'[q] = "pubLoop" /\ proc'[q] = "alive"
        \/ run'[q] = "report" /\ proc'[q] = "none" /\ kind'[q] = "subprocess_crash"
    BY <1>2 DEF IInv, TypeOK
  <2> QED
    BY <1>1, <1>3, <2>1, <2>2 DEF Fresh, Stage, Busy, Waited, Aborts
<1>6. ASSUME NEW p \in Prompts, p # q PROVE Fresh(p)' /\ Stage(p)'
  <2>1. /\ run'[p] = run[p] /\ attempt'[p] = attempt[p] /\ proc'[p] = proc[p]
        /\ kind'[p] = kind[p] /\ blame'[p] = blame[p]
    BY <1>1, <1>2, <1>6 DEF IInv, TypeOK
  <2> QED
    BY <1>1, <2>1, Untouched
<1>7. Called'
  BY <1>1 DEF toolVars, IInv, Called
<1> QED
  BY <1>4, <1>5, <1>6, <1>7 DEF IInv

(* Publishing the run changes neither its outcome nor its abort, ...       *)
LEMMA PublishLoopInv == ASSUME IInv, NEW q \in Prompts, PublishLoop(q) PROVE IInv'
<1>1. TypeOK'
  BY PromptAssumption DEF PublishLoop, Goto, IInv, TypeOK, RunSteps, toolVars
<1>2. Fresh(q)' /\ Stage(q)'
  BY PromptAssumption DEF PublishLoop, Goto, IInv, TypeOK, Fresh, Stage, Busy, Current, Waited
<1>3. ASSUME NEW p \in Prompts, p # q PROVE Fresh(p)' /\ Stage(p)'
  BY <1>3, Untouched DEF PublishLoop, Goto, IInv, TypeOK, shared
<1>4. Called'
  BY DEF PublishLoop, toolVars, IInv, Called
<1> QED
  BY <1>1, <1>2, <1>3, <1>4 DEF IInv

(* ... whichever field is stored, ...                                      *)
LEMMA PublishCmdInv == ASSUME IInv, NEW q \in Prompts, PublishCmd(q) PROVE IInv'
<1>1. TypeOK'
  <2>1. attempt[q] \in 1..(Retries + 1)
    BY DEF PublishCmd, IInv, TypeOK, Stage, Busy
  <2> QED
    BY <2>1 DEF PublishCmd, Goto, IInv, TypeOK, RunSteps, toolVars, Attempts, Current
<1>2. Fresh(q)' /\ Stage(q)'
  BY DEF PublishCmd, Goto, IInv, TypeOK, Fresh, Stage, Busy, Current, Waited
<1>3. ASSUME NEW p \in Prompts, p # q PROVE Fresh(p)' /\ Stage(p)'
  BY <1>3, Untouched DEF PublishCmd, Goto, IInv, TypeOK, shared
<1>4. Called'
  BY DEF PublishCmd, toolVars, IInv, Called
<1> QED
  BY <1>1, <1>2, <1>3, <1>4 DEF IInv

(* ... and the scan starts with the abort cleared.                         *)
LEMMA ClearAbortInv == ASSUME IInv, NEW q \in Prompts, ClearAbort(q) PROVE IInv'
<1>1. TypeOK'
  BY DEF ClearAbort, Goto, IInv, TypeOK, RunSteps, toolVars, StoredAborts
<1>2. Fresh(q)' /\ Stage(q)'
  BY DEF ClearAbort, Goto, IInv, TypeOK, Fresh, Stage, Busy, Current, Waited
<1>3. ASSUME NEW p \in Prompts, p # q PROVE Fresh(p)' /\ Stage(p)'
  BY <1>3, Untouched DEF ClearAbort, Goto, IInv, TypeOK, shared
<1>4. Called'
  BY DEF ClearAbort, toolVars, IInv, Called
<1> QED
  BY <1>1, <1>2, <1>3, <1>4 DEF IInv

(* Only a process that was not waited for exits.                           *)
LEMMA ProcessExitsInv == ASSUME IInv, NEW q \in Prompts, ProcessExits(q) PROVE IInv'
<1>1. TypeOK'
  BY DEF ProcessExits, Goto, IInv, TypeOK, shared, toolVars
<1>2. Fresh(q)' /\ Stage(q)'
  BY DEF ProcessExits, Goto, IInv, TypeOK, Fresh, Stage, Busy, Current, shared, Waited
<1>3. ASSUME NEW p \in Prompts, p # q PROVE Fresh(p)' /\ Stage(p)'
  BY <1>3, Untouched DEF ProcessExits, Goto, IInv, TypeOK, shared
<1>4. Called'
  BY DEF ProcessExits, toolVars, IInv, Called
<1> QED
  BY <1>1, <1>2, <1>3, <1>4 DEF IInv

(* The abort taken was stored while the attempt ran.                       *)
LEMMA WaitInv == ASSUME IInv, NEW q \in Prompts, Wait(q) PROVE IInv'
<1>1. /\ run[q] = "scan" /\ run' = [run EXCEPT ![q] = "unpubLoop"] /\ proc[q] \in {"ok", "bad"}
      /\ UNCHANGED <<attempt, proc, activeLoop, activeCmd, tool, caller, reports>>
  BY DEF Wait, Goto, toolVars
<1>2. \/ /\ proc[q] = "ok" /\ kind' = [kind EXCEPT ![q] = "success"]
         /\ blame' = blame /\ activeAbort' = activeAbort
      \/ /\ proc[q] = "bad" /\ activeAbort = NoAbort
         /\ kind' = [kind EXCEPT ![q] = "subprocess_crash"]
         /\ blame' = [blame EXCEPT ![q] = NoAbort] /\ activeAbort' = NoAbort
      \/ /\ proc[q] = "bad" /\ activeAbort # NoAbort
         /\ kind' = [kind EXCEPT ![q] = activeAbort.kind]
         /\ blame' = [blame EXCEPT ![q] = activeAbort] /\ activeAbort' = NoAbort
  BY <1>1 DEF Wait
<1>3. activeAbort # NoAbort => /\ activeAbort.kind \in Aborts /\ Current(q) \in activeAbort.during
  BY <1>1 DEF IInv, TypeOK, Fresh, StoredAborts
<1>4. TypeOK'
  <2>1. run' \in [Prompts -> RunSteps]
    BY <1>1 DEF IInv, TypeOK, RunSteps
  <2>2. kind' \in [Prompts -> Outcomes]
    BY <1>2, <1>3 DEF IInv, TypeOK, Outcomes, Failures
  <2>3. activeAbort' \in StoredAborts
    BY <1>2 DEF IInv, TypeOK, StoredAborts
  <2>4. blame' \in [Prompts -> StoredAborts]
    BY <1>2 DEF IInv, TypeOK, StoredAborts
  <2> QED
    BY <1>1, <2>1, <2>2, <2>3, <2>4 DEF IInv, TypeOK
<1>5. Fresh(q)' /\ Stage(q)'
  <2>1. run'[q] = "unpubLoop" /\ blame[q] = NoAbort /\ reports[q] = <<>>
    BY <1>1 DEF IInv, TypeOK, Stage, Busy
  <2>2. \/ proc[q] = "ok" /\ kind'[q] = "success" /\ blame'[q] = NoAbort
        \/ proc[q] = "bad" /\ kind'[q] = "subprocess_crash" /\ blame'[q] = NoAbort
        \/ /\ proc[q] = "bad" /\ kind'[q] \in Aborts /\ blame'[q] # NoAbort
           /\ Current(q) \in blame'[q].during
    BY <1>2, <1>3, <2>1 DEF IInv, TypeOK
  <2>3. Fresh(q)'
    BY <1>1, <2>1, <2>2 DEF Fresh, Current
  <2> QED
    BY <1>1, <2>1, <2>2, <2>3 DEF Stage, Busy, Waited, Aborts
<1>6. ASSUME NEW p \in Prompts, p # q PROVE Fresh(p)' /\ Stage(p)'
  <2>1. run'[p] = run[p] /\ kind'[p] = kind[p] /\ blame'[p] = blame[p]
    BY <1>1, <1>2, <1>6 DEF IInv, TypeOK
  <2>2. activeAbort' \in {activeAbort, NoAbort}
    BY <1>2
  <2> QED
    BY <1>1, <2>1, <2>2, Untouched
<1>7. Called'
  BY <1>1 DEF toolVars, IInv, Called
<1> QED
  BY <1>4, <1>5, <1>6, <1>7 DEF IInv

(* Unpublishing changes no outcome, ...                                    *)
LEMMA UnpublishLoopInv == ASSUME IInv, NEW q \in Prompts, UnpublishLoop(q) PROVE IInv'
<1>1. TypeOK'
  BY PromptAssumption DEF UnpublishLoop, Goto, IInv, TypeOK, RunSteps, toolVars, NoLoop
<1>2. Fresh(q)' /\ Stage(q)'
  BY PromptAssumption DEF UnpublishLoop, Goto, IInv, TypeOK, Fresh, Stage, Busy, Current, Waited
<1>3. ASSUME NEW p \in Prompts, p # q PROVE Fresh(p)' /\ Stage(p)'
  BY <1>3, Untouched DEF UnpublishLoop, Goto, IInv, TypeOK, shared
<1>4. Called'
  BY DEF UnpublishLoop, toolVars, IInv, Called
<1> QED
  BY <1>1, <1>2, <1>3, <1>4 DEF IInv

(* ... and what is not tried again is reported.                            *)
LEMMA UnpublishCmdInv == ASSUME IInv, NEW q \in Prompts, UnpublishCmd(q) PROVE IInv'
<1>1. TypeOK'
  BY PromptAssumption DEF UnpublishCmd, Goto, IInv, TypeOK, RunSteps, toolVars, AfterAttempt
<1>2. Fresh(q)' /\ Stage(q)'
  BY PromptAssumption DEF UnpublishCmd, Goto, IInv, TypeOK, Fresh, Stage, Busy, Current, Waited, AfterAttempt
<1>3. ASSUME NEW p \in Prompts, p # q PROVE Fresh(p)' /\ Stage(p)'
  BY <1>3, Untouched DEF UnpublishCmd, Goto, IInv, TypeOK, shared
<1>4. Called'
  BY DEF UnpublishCmd, toolVars, IInv, Called
<1> QED
  BY <1>1, <1>2, <1>3, <1>4 DEF IInv

(* The first event of a prompt is its last.                                *)
LEMMA ReportInv == ASSUME IInv, NEW q \in Prompts, Report(q) PROVE IInv'
<1>1. /\ run[q] = "report" /\ run' = [run EXCEPT ![q] = "done"]
      /\ UNCHANGED <<attempt, proc, kind, blame, shared, toolVars>>
  BY DEF Report, Goto
<1>2. kind[q] \in Outcomes \ {"none"}
  BY <1>1 DEF IInv, TypeOK, Stage, Waited, Outcomes
<1>3. reports' = [reports EXCEPT ![q] = <<kind[q]>>]
  <2>1. reports[q] = <<>> /\ reports' = [reports EXCEPT ![q] = Append(reports[q], kind[q])]
    BY <1>1 DEF Report, IInv, Stage
  <2> QED
    BY <2>1
<1>4. TypeOK'
  <2>1. reports' \in [Prompts -> Seq(Outcomes \ {"none"})]
    BY <1>2, <1>3 DEF IInv, TypeOK
  <2> QED
    BY <1>1, <2>1 DEF IInv, TypeOK, RunSteps, shared, toolVars
<1>5. Fresh(q)' /\ Stage(q)'
  <2>1. run'[q] = "done" /\ reports'[q] = <<kind[q]>>
    BY <1>1, <1>3 DEF IInv, TypeOK
  <2> QED
    BY <1>1, <2>1 DEF IInv, Fresh, Stage, Busy, Waited, Current, shared
<1>6. ASSUME NEW p \in Prompts, p # q PROVE Fresh(p)' /\ Stage(p)'
  <2>1. run'[p] = run[p] /\ reports'[p] = reports[p]
    BY <1>1, <1>3, <1>6 DEF IInv, TypeOK
  <2> QED
    BY <1>1, <2>1, Untouched DEF shared
<1>7. Called'
  BY <1>1 DEF toolVars, IInv, Called
<1> QED
  BY <1>4, <1>5, <1>6, <1>7 DEF IInv

-----------------------------------------------------------------------------
(* The tool server.                                                        *)

(* A call touches no run.                                                  *)
LEMMA CallInv == ASSUME IInv, NEW t \in Tools, NEW q \in Prompts, NEW w \in CallKinds, Call(t, q, w)
                 PROVE  IInv'
<1>1. TypeOK'
  BY DEF Call, IInv, TypeOK, runVars, shared
<1>2. Called'
  BY DEF Call, IInv, TypeOK, Called
<1> QED
  BY <1>1, <1>2, Untouched DEF Call, runVars, shared, IInv

(* Counting a call touches no run.                                         *)
LEMMA CheckLoopInv == ASSUME IInv, NEW t \in Tools, CheckLoop(t) PROVE IInv'
<1>1. TypeOK'
  <2>1. activeLoop' \in 0..Threshold \cup {NoLoop}
    BY PromptAssumption DEF CheckLoop, IInv, TypeOK, NoLoop
  <2>2. /\ tool' \in [Tools -> {"idle", "looping", "kill", "done"} \cup CallKinds]
        /\ caller' \in [Tools -> Prompts \cup {Nobody}]
    BY DEF CheckLoop, Finish, StepTo, IInv, TypeOK
  <2> QED
    BY <2>1, <2>2 DEF CheckLoop, IInv, TypeOK, runVars
<1>2. Called'
  BY DEF CheckLoop, Finish, StepTo, IInv, TypeOK, Called
<1> QED
  BY <1>1, <1>2, Untouched DEF CheckLoop, runVars, IInv

(* An abort is stored for every attempt that runs.                         *)
LEMMA StoreAbortInv == ASSUME IInv, NEW t \in Tools, StoreAbort(t) PROVE IInv'
<1>1. TypeOK'
  <2>1. /\ Reason[tool[t]] \in Aborts
        /\ tool' \in [Tools -> {"idle", "looping", "kill", "done"} \cup CallKinds]
    BY DEF StoreAbort, StepTo, Reason, Aborts, IInv, TypeOK
  <2> DEFINE during == {Current(q) : q \in {p \in Prompts : Busy(p)}}
  <2>2. during \subseteq Attempts
    <3> SUFFICES ASSUME NEW q \in Prompts, Busy(q) PROVE attempt[q] \in 1..(Retries + 1)
      BY DEF Attempts, Current
    <3> QED
      BY PromptAssumption DEF IInv, TypeOK, Stage
  <2>3. activeAbort' = Abort(Reason[tool[t]], t, caller[t], during)
    BY DEF StoreAbort
  <2>4. caller[t] \in Prompts
    BY DEF StoreAbort, Reason, IInv, Called
  <2> HIDE DEF during
  <2>5. activeAbort' \in StoredAborts
    BY <2>1, <2>2, <2>3, <2>4 DEF Abort, StoredAborts
  <2> QED
    BY <2>1, <2>5 DEF StoreAbort, StepTo, IInv, TypeOK, runVars
<1>2. ASSUME NEW p \in Prompts PROVE Fresh(p)' /\ Stage(p)'
  BY DEF StoreAbort, IInv, Fresh, Stage, Busy, Current, runVars, Abort
<1>3. Called'
  BY DEF StoreAbort, StepTo, Reason, IInv, TypeOK, Called
<1> QED
  BY <1>1, <1>2, <1>3 DEF IInv

(* A process that was waited for is not killed.                            *)
LEMMA KillInv == ASSUME IInv, NEW t \in Tools, Kill(t) PROVE IInv'
<1>1. TypeOK'
  BY DEF Kill, Finish, IInv, TypeOK, shared
<1>2. ASSUME NEW p \in Prompts PROVE Fresh(p)' /\ Stage(p)'
  BY DEF Kill, IInv, TypeOK, Fresh, Stage, Busy, Waited, Current, shared
<1>3. Called'
  BY DEF Kill, Finish, IInv, TypeOK, Called
<1> QED
  BY <1>1, <1>2, <1>3 DEF IInv

-----------------------------------------------------------------------------
(* The theorems.                                                           *)

(* Every step keeps the invariant.                                         *)
LEMMA StepInv == IInv /\ [Next]_vars => IInv'
<1> SUFFICES ASSUME IInv, [Next]_vars PROVE IInv'
  OBVIOUS
<1>1. ASSUME NEW q \in Prompts, Begin(q) \/ Ward(q) \/ ProcessExits(q) PROVE IInv'
  BY <1>1, BeginInv, LaunchInv, PublishLoopInv, PublishCmdInv, ClearAbortInv, ProcessExitsInv,
     WaitInv, UnpublishLoopInv, UnpublishCmdInv, ReportInv DEF Ward
<1>2. ASSUME NEW t \in Tools, ToolStep(t) PROVE IInv'
  BY <1>2, CheckLoopInv, StoreAbortInv, KillInv DEF ToolStep
<1>3. ASSUME NEW t \in Tools, NEW q \in Prompts, NEW w \in CallKinds, Call(t, q, w) PROVE IInv'
  BY <1>3, CallInv
<1>4. CASE UNCHANGED vars
  <2>1. TypeOK'
    BY <1>4 DEF vars, runVars, shared, toolVars, IInv, TypeOK
  <2>2. Called'
    BY <1>4 DEF vars, toolVars, IInv, Called
  <2> QED
    BY <1>4, <2>1, <2>2, Untouched DEF vars, runVars, shared, IInv
<1> QED
  BY <1>1, <1>2, <1>3, <1>4 DEF Next

(* The invariant holds in every reachable state.                           *)
THEOREM Invariance == Spec => []IInv
BY InitInv, StepInv, PTL DEF Spec

(* The Ward's fields have their types, and no prompt is tried more often   *)
(* than schema-error-retries allows.                                       *)
THEOREM TypeCorrect == Spec => []TypeOK
BY Invariance, PTL DEF IInv

(* A failed attempt is never explained by an abort stored before its       *)
(* process started or after it was waited for (runLLMSubprocess).          *)
THEOREM AbortsAreFresh == Spec => []AbortIsFresh
BY Invariance, InvImpliesProperties, PTL

(* The one event of a prompt tells how its last attempt ended.             *)
THEOREM ReportsTell == Spec => []ReportTellsLastAttempt
BY Invariance, InvImpliesProperties, PTL
=============================================================================
