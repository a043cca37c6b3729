----------------------------- MODULE ChromePool -----------------------------
(***************************************************************************)
(* chromed (chromed/service.go), the host service that runs one Chrome per *)
(* agent: the manager's Acquire, Release, reap and ReleaseAll, and its     *)
(* end.  Everything is kept under the agent's name, so one agent is        *)
(* modelled; every request has a goroutine of its own (handleConn).        *)
(*                                                                         *)
(* An acquire request stands for the Chrome and the debug socket it makes. *)
(* All debug sockets of an agent have the same path.                       *)
(***************************************************************************)
EXTENDS Naturals

CONSTANTS
  Requests,   (* acquire requests for the agent                             *)
  Releases,   (* release requests for the agent                             *)
  Shutdown,   (* the ReleaseAll of the server's end                         *)
  None

ASSUME PoolAssumption == None \notin Requests /\ Shutdown \notin Releases

Releasers == Releases \cup {Shutdown}

VARIABLES
  instances,  (* manager.instances: whose Chrome                            *)
  chrome,     (* the Chrome process of each request                         *)
  path,       (* whose debug socket the path leads to                       *)
  listening,  (* the open debug sockets, each with its forwarder            *)
  acquire,    (* where each acquire is                                      *)
  reaper,     (* the goroutine waiting for each Chrome                      *)
  release,    (* where each release is                                      *)
  taken,      (* the instance it took out of the map                        *)
  server,     (* chromed itself                                             *)
  replaced,   (* history: instances another acquire put its own over        *)
  killed,     (* history: Chromes that chromed killed                       *)
  inFlight    (* history: acquires under way at ReleaseAll, releases at the *)
              (* exit                                                       *)

requests == <<acquire, release, taken>>
sockets == <<path, listening>>
history == <<replaced, killed, inFlight>>
poolVars == <<instances, chrome, sockets, requests, reaper, server, history>>

AcquireSteps == {"lookup", "clear", "listen", "start", "wait", "close", "kill", "insert"}
ReleaseSteps == {"take", "kill", "close", "remove"}

PoolInit ==
  /\ instances = None /\ path = None /\ listening = {}
  /\ chrome = [r \in Requests |-> "none"]
  /\ acquire = [r \in Requests |-> "idle"]
  /\ reaper = [r \in Requests |-> "none"]
  /\ release = [d \in Releasers |-> "idle"]
  /\ taken = [d \in Releasers |-> None]
  /\ server = "up"
  /\ replaced = {} /\ killed = {} /\ inFlight = {}

Acquiring(r) == acquire[r] \in AcquireSteps \ {"lookup"}
Releasing(d) == release[d] \in ReleaseSteps \ {"take"}

Step(r, from, to) ==
  /\ acquire[r] = from
  /\ acquire' = [acquire EXCEPT ![r] = to]
  /\ UNCHANGED <<release, taken, server>>
RStep(d, from, to) ==
  /\ release[d] = from
  /\ release' = [release EXCEPT ![d] = to]
  /\ taken' = [taken EXCEPT ![d] = IF from = "take" THEN instances
                                   ELSE IF to = "done" THEN None ELSE @]
  /\ UNCHANGED <<acquire, server>>

-----------------------------------------------------------------------------
(* Faulty variants of actions below.  The specification does not use them. *)

(* A Chrome that is not ready in time is left alone.                       *)
KillOmitted(r) ==
  /\ Step(r, "kill", "failed")
  /\ UNCHANGED <<instances, chrome, sockets, reaper, history>>

(* The reaper removes the entry of the agent, whosever it is.              *)
ForgetAny(r) ==
  /\ reaper[r] = "waited"
  /\ reaper' = [reaper EXCEPT ![r] = "done"]
  /\ instances' = None
  /\ UNCHANGED <<chrome, sockets, requests, server, history>>

(* It removes the debug path as well.                                      *)
ForgetAndUnlink(r) ==
  /\ reaper[r] = "waited"
  /\ reaper' = [reaper EXCEPT ![r] = "done"]
  /\ instances' = IF instances = r THEN None ELSE instances
  /\ path' = None
  /\ UNCHANGED <<chrome, listening, requests, server, history>>

(* A release removes the path and leaves the socket open.                  *)
CloseOmitted(d) ==
  /\ RStep(d, "close", "remove")
  /\ UNCHANGED <<instances, chrome, sockets, reaper, history>>

-----------------------------------------------------------------------------
(* Acquire.                                                                *)

(* The agent's instance, if there is one, is the answer.                   *)
Lookup(r) ==
  /\ Step(r, "lookup", IF instances = None THEN "clear" ELSE "ok")
  /\ UNCHANGED <<instances, chrome, sockets, reaper, history>>

(* The profile directory, a port for the debugger, and a stale socket      *)
(* removed from the path; any of them may fail.                            *)
ClearPath(r) ==
  /\ \/ Step(r, "clear", "listen") /\ path' = None
     \/ Step(r, "clear", "failed") /\ path' = path
  /\ UNCHANGED <<instances, chrome, listening, reaper, history>>

(* startUnixDebugForwarder: a path in use cannot be listened on.           *)
Listen(r) ==
  /\ \/ /\ path = None
        /\ Step(r, "listen", "start")
        /\ path' = r /\ listening' = listening \cup {r}
     \/ Step(r, "listen", "failed") /\ UNCHANGED sockets
  /\ UNCHANGED <<instances, chrome, reaper, history>>

(* A Chrome is not started under a cancelled context.  When it does not    *)
(* start, its debug socket stays open.                                     *)
Start(r) ==
  /\ \/ /\ server = "up" /\ Step(r, "start", "wait")
        /\ chrome' = [chrome EXCEPT ![r] = "running"]
     \/ Step(r, "start", "failed") /\ chrome' = chrome
  /\ UNCHANGED <<instances, sockets, reaper, history>>

(* waitReady answers in its time or not.                                   *)
WaitReady(r) ==
  /\ \/ chrome[r] = "running" /\ Step(r, "wait", "insert")
     \/ Step(r, "wait", "close")
  /\ UNCHANGED <<instances, chrome, sockets, reaper, history>>

(* Closing a debug socket removes its path, whosever it is by now.         *)
CloseUnready(r) ==
  /\ Step(r, "close", "kill")
  /\ path' = None /\ listening' = listening \ {r}
  /\ UNCHANGED <<instances, chrome, reaper, history>>

KillUnready(r) ==
  /\ Step(r, "kill", "failed")
  /\ chrome' = [chrome EXCEPT ![r] = "reaped"]
  /\ killed' = killed \cup {r}
  /\ UNCHANGED <<instances, sockets, reaper, replaced, inFlight>>

(* The instance becomes the agent's, over any other, and gets a reaper.    *)
Insert(r) ==
  /\ Step(r, "insert", "ok")
  /\ replaced' = replaced \cup ({instances} \ {None})
  /\ instances' = r
  /\ reaper' = [reaper EXCEPT ![r] = "waiting"]
  /\ UNCHANGED <<chrome, sockets, killed, inFlight>>

-----------------------------------------------------------------------------
(* Chrome and its reaper.                                                  *)

(* It ends by itself or, when chromed stops, because exec.CommandContext   *)
(* kills it with the cancelled context.                                    *)
ChromeExits(r) ==
  /\ chrome[r] = "running"
  /\ chrome' = [chrome EXCEPT ![r] = "exited"]
  /\ UNCHANGED <<instances, sockets, requests, reaper, server, history>>

ReaperWaits(r) ==
  /\ reaper[r] = "waiting" /\ chrome[r] = "exited"
  /\ reaper' = [reaper EXCEPT ![r] = "waited"]
  /\ chrome' = [chrome EXCEPT ![r] = "reaped"]
  /\ UNCHANGED <<instances, sockets, requests, server, history>>

(* It removes the agent's instance only if that is its own, and closes no  *)
(* debug socket.                                                           *)
Forget(r) ==
  /\ reaper[r] = "waited"
  /\ reaper' = [reaper EXCEPT ![r] = "done"]
  /\ instances' = IF instances = r THEN None ELSE instances
  /\ UNCHANGED <<chrome, sockets, requests, server, history>>

-----------------------------------------------------------------------------
(* Release.                                                                *)

Take(d) ==
  /\ RStep(d, "take", IF instances = None THEN "done" ELSE "kill")
  /\ instances' = None
  /\ UNCHANGED <<chrome, sockets, reaper, history>>

(* A process that was waited for cannot be killed; the release ends with   *)
(* the error, and the debug socket stays open.                             *)
Kill(d) ==
  /\ release[d] = "kill"
  /\ \/ chrome[taken[d]] = "reaped" /\ RStep(d, "kill", "done") /\ UNCHANGED <<chrome, killed>>
     \/ /\ chrome[taken[d]] # "reaped" /\ RStep(d, "kill", "close")
        /\ chrome' = [chrome EXCEPT ![taken[d]] = "exited"]
        /\ killed' = killed \cup {taken[d]}
  /\ UNCHANGED <<instances, sockets, reaper, replaced, inFlight>>

Close(d) ==
  /\ RStep(d, "close", "remove")
  /\ path' = None /\ listening' = listening \ {taken[d]}
  /\ UNCHANGED <<instances, chrome, reaper, history>>

RemovePath(d) ==
  /\ RStep(d, "remove", "done")
  /\ path' = None
  /\ UNCHANGED <<instances, chrome, listening, reaper, history>>

-----------------------------------------------------------------------------
(* The end of the server: a signal or the container's end cancels its      *)
(* context; it releases the instances it finds and exits without waiting   *)
(* for its other goroutines.  Whoever waits for an answer sees its         *)
(* connection closed.                                                      *)

Stop ==
  /\ server = "up"
  /\ server' = "stopping"
  /\ UNCHANGED <<instances, chrome, sockets, requests, reaper, history>>

ReleaseAll ==
  /\ server = "stopping" /\ release[Shutdown] = "idle"
  /\ release' = [release EXCEPT ![Shutdown] = IF instances = None THEN "done" ELSE "take"]
  /\ inFlight' = {r \in Requests : Acquiring(r)}
  /\ UNCHANGED <<instances, chrome, sockets, acquire, taken, reaper, server, replaced, killed>>

Exit ==
  /\ server = "stopping" /\ release[Shutdown] = "done"
  /\ server' = "exited"
  /\ inFlight' = inFlight \cup {taken[d] : d \in {e \in Releasers : Releasing(e)}}
  /\ instances' = None
  /\ acquire' = [r \in Requests |-> IF acquire[r] \in AcquireSteps THEN "failed" ELSE acquire[r]]
  /\ release' = [d \in Releasers |-> IF release[d] = "idle" THEN "idle" ELSE "done"]
  /\ taken' = [d \in Releasers |-> None]
  /\ reaper' = [r \in Requests |-> "done"]
  /\ listening' = {}
  /\ UNCHANGED <<chrome, path, replaced, killed>>

-----------------------------------------------------------------------------
AcquireStep(r) ==
  \/ Lookup(r) \/ ClearPath(r) \/ Listen(r) \/ Start(r) \/ WaitReady(r)
  \/ CloseUnready(r) \/ KillUnready(r) \/ Insert(r)
ReaperStep(r) == ReaperWaits(r) \/ Forget(r)
ReleaseStep(d) == Take(d) \/ Kill(d) \/ Close(d) \/ RemovePath(d)

PoolNext ==
  \/ \E r \in Requests : AcquireStep(r) \/ ReaperStep(r) \/ ChromeExits(r)
  \/ \E d \in Releasers : ReleaseStep(d)
  \/ Stop \/ ReleaseAll \/ Exit

(* Requests, once accepted, and reapers go on until chromed exits; nobody  *)
(* has to stop it, and no Chrome has to exit.                              *)
PoolFairness ==
  /\ \A r \in Requests : WF_poolVars(AcquireStep(r)) /\ WF_poolVars(ReaperStep(r))
  /\ \A d \in Releasers : WF_poolVars(ReleaseStep(d))

-----------------------------------------------------------------------------
(* Properties.                                                             *)

Running == {r \in Requests : chrome[r] = "running"}

(* No Chrome is lost: one that runs is the agent's instance, or a request  *)
(* is about to make it that or to kill it, or a second acquire put its own *)
(* instance over it (Acquire tests the map and fills it later).  When      *)
(* chromed exits, only those it leaves behind that a request was busy with *)
(* after ReleaseAll had looked, or that were replaced.                     *)
ChromeAccounted ==
  \A r \in Running :
    \/ instances = r \/ r \in replaced \/ acquire[r] \in {"wait", "close", "kill", "insert"}
    \/ \E d \in Releasers : release[d] = "kill" /\ taken[d] = r
    \/ server = "exited" /\ r \in inFlight

(* An instance leaves the map when its Chrome has ended, when a release    *)
(* takes it, under another, or with chromed: the reaper of an earlier      *)
(* Chrome of the agent does not remove it (reap compares processes).       *)
OnlyOwnReaped ==
  [][\A r \in Requests : instances = r /\ instances' # r =>
       \/ chrome[r] = "reaped" \/ r \in replaced'
       \/ server' = "exited"
       \/ \E d \in Releasers : taken'[d] = r]_poolVars
=============================================================================
