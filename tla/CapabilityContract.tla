------------------------- MODULE CapabilityContract -------------------------
(***************************************************************************)
(* What a capability call promises the tool that makes it.  keeperd        *)
(* decides a call at most once, and only after it was made.  The tool gets *)
(* exactly one outcome:                                                    *)
(*   - what keeperd decided on this very call, or decode_error if keeperd  *)
(*     said it in more words than the tool's Ward reads;                   *)
(*   - pipe_error, and then keeperd has not decided and never will;        *)
(*   - a timeout, which says nothing: keeperd may have run the capability, *)
(*     or may still run it.                                                *)
(* There is one exception.  Calls are told apart by numbers that are only  *)
(* unique in one Ward, so the outcome may be what keeperd decided on a     *)
(* call of the same number that was made in another Ward.                  *)
(***************************************************************************)
EXTENDS Naturals

CONSTANTS Calls, Verdicts, Undecided, Timeout, PipeError,
  Ward(_),  (* where a call is made                                         *)
  Told(_)   (* how the tool is told of a verdict                            *)

VARIABLES
  number,   (* the number of a call, 0 until it is made                     *)
  verdict,  (* what keeperd decided, once it did                            *)
  outcome   (* what the tool was told, once it was                          *)

contractVars == <<number, verdict, outcome>>

Init ==
  /\ number = [c \in Calls |-> 0]
  /\ verdict = [c \in Calls |-> Undecided]
  /\ outcome = [c \in Calls |-> Undecided]

Make(c) ==
  /\ number[c] = 0
  /\ number'[c] \in Nat \ {0}
  /\ \A d \in Calls : Ward(d) = Ward(c) => number[d] # number'[c]
  /\ number' = [number EXCEPT ![c] = number'[c]]
  /\ UNCHANGED <<verdict, outcome>>

Decide(c, v) ==
  /\ number[c] # 0 /\ verdict[c] = Undecided /\ outcome[c] # PipeError
  /\ verdict' = [verdict EXCEPT ![c] = v]
  /\ UNCHANGED <<number, outcome>>

MistakenFor(c, d) == number[c] = number[d] /\ Ward(c) # Ward(d)

Answer(c, d) ==
  /\ d = c \/ MistakenFor(c, d)
  /\ verdict[d] # Undecided /\ outcome[c] = Undecided
  /\ outcome' = [outcome EXCEPT ![c] = Told(verdict[d])]
  /\ UNCHANGED <<number, verdict>>

Fail(c) ==
  /\ number[c] # 0 /\ verdict[c] = Undecided /\ outcome[c] = Undecided
  /\ outcome' = [outcome EXCEPT ![c] = PipeError]
  /\ UNCHANGED <<number, verdict>>

GiveUp(c) ==
  /\ number[c] # 0 /\ outcome[c] = Undecided
  /\ outcome' = [outcome EXCEPT ![c] = Timeout]
  /\ UNCHANGED <<number, verdict>>

Next ==
  \E c \in Calls :
    \/ Make(c) \/ Fail(c) \/ GiveUp(c)
    \/ \E d \in Calls : Answer(c, d)
    \/ \E v \in Verdicts : Decide(c, v)

Spec == Init /\ [][Next]_contractVars
=============================================================================
