--------------------------- MODULE BrowserSession ---------------------------
(***************************************************************************)
(* An agent's browser session over both processes that keep it: keeperd's  *)
(* browserManager and proxyAllocator (cmd/keeperd/chromed.go,              *)
(* browser_proxy.go) on top of chromed (ChromePool).                       *)
(*                                                                         *)
(* A page read is a request: at most one acquire goes to chromed for it.   *)
(* A Ward's page reads run one after another (they run in the read loop of *)
(* its pipe), those of the agent's next Ward at the same time as one still *)
(* under way.  Destroying the agent is a release.                          *)
(***************************************************************************)
EXTENDS ChromePool

CONSTANT MaxWards  (* bound: Wards the agent has had                        *)

VARIABLES
  wards,      (* Wards so far; the last is the one of the existing agent    *)
  exists,     (* the agent exists and has a policy                          *)
  read,       (* where each page read is in browserManager.ReadPage         *)
  reader,     (* the Ward it is for, while it is under way                   *)
  proxyByID,  (* browserManager.proxyByID: the session of which acquire     *)
  httpProxy,  (* proxyAllocator.instances: the HTTP proxy of which read     *)
  proxyServer,(* the HTTP proxy each acquire names to chromed               *)
  destroy,    (* where each destroy is in browserManager.Release            *)
  raced       (* history: a read was given up, or outlived its agent        *)

keeper == <<wards, exists, read, reader, proxyByID, httpProxy, proxyServer, destroy, raced>>
vars == <<poolVars, keeper>>

ReadSteps == {"lookup", "proxy", "dial", "wait", "giveUp", "store"}
Reading(r) == read[r] \in ReadSteps

Init ==
  /\ PoolInit
  /\ wards = 1 /\ exists = TRUE
  /\ read = [r \in Requests |-> "idle"]
  /\ reader = [r \in Requests |-> 0]
  /\ proxyByID = None /\ httpProxy = None
  /\ proxyServer = [r \in Requests |-> None]
  /\ destroy = [d \in Releases |-> "idle"]
  /\ raced = FALSE

ReadStep(r, from, to) ==
  /\ read[r] = from
  /\ read' = [read EXCEPT ![r] = to]
  /\ reader' = [reader EXCEPT ![r] = IF to = "done" THEN 0 ELSE @]
  /\ UNCHANGED <<wards, exists, destroy>>
DestroyStep(d, from, to) ==
  /\ destroy[d] = from
  /\ destroy' = [destroy EXCEPT ![d] = to]
  /\ UNCHANGED <<read, reader, proxyServer, raced>>

-----------------------------------------------------------------------------
(* ReadPage, up to where it has a session.  Reading the page through it     *)
(* changes nothing here.                                                   *)

BeginRead(r) ==
  /\ exists /\ read[r] = "idle"
  /\ \A s \in Requests : Reading(s) => reader[s] # wards
  /\ read' = [read EXCEPT ![r] = "lookup"]
  /\ reader' = [reader EXCEPT ![r] = wards]
  /\ UNCHANGED <<poolVars, wards, exists, proxyByID, httpProxy, proxyServer, destroy, raced>>

LookupSession(r) ==
  /\ ReadStep(r, "lookup", IF proxyByID = None THEN "proxy" ELSE "done")
  /\ UNCHANGED <<poolVars, proxyByID, httpProxy, proxyServer, raced>>

(* The agent's HTTP proxy, or a new one if there is a port for it.         *)
AcquireProxy(r) ==
  /\ \/ /\ ReadStep(r, "proxy", "dial")
        /\ httpProxy' = IF httpProxy = None THEN r ELSE httpProxy
        /\ proxyServer' = [proxyServer EXCEPT ![r] = httpProxy']
     \/ /\ httpProxy = None
        /\ ReadStep(r, "proxy", "done")
        /\ UNCHANGED <<httpProxy, proxyServer>>
  /\ UNCHANGED <<poolVars, proxyByID, raced>>

(* The acquire request reaches chromed, or chromed is not there.           *)
Dial(r) ==
  /\ \/ /\ server = "up"
        /\ ReadStep(r, "dial", "wait")
        /\ acquire' = [acquire EXCEPT ![r] = "lookup"]
     \/ server # "up" /\ ReadStep(r, "dial", "giveUp") /\ acquire' = acquire
  /\ UNCHANGED <<instances, chrome, sockets, release, taken, reaper, server, history>>
  /\ UNCHANGED <<proxyByID, httpProxy, proxyServer, raced>>

Answered(r) ==
  /\ \/ acquire[r] = "ok" /\ ReadStep(r, "wait", "store")
     \/ acquire[r] = "failed" /\ ReadStep(r, "wait", "giveUp")
  /\ UNCHANGED <<poolVars, proxyByID, httpProxy, proxyServer, raced>>

(* Ten seconds have passed; chromed goes on with the request.              *)
TimeOut(r) ==
  /\ ReadStep(r, "wait", "giveUp")
  /\ raced' = TRUE
  /\ UNCHANGED <<poolVars, proxyByID, httpProxy, proxyServer>>

GiveUp(r) ==
  /\ ReadStep(r, "giveUp", "done")
  /\ httpProxy' = None
  /\ UNCHANGED <<poolVars, proxyByID, proxyServer, raced>>

Store(r) ==
  /\ ReadStep(r, "store", "done")
  /\ proxyByID' = r
  /\ UNCHANGED <<poolVars, httpProxy, proxyServer, raced>>

-----------------------------------------------------------------------------
(* Destroying the agent, and creating it again after that.                 *)

BeginDestroy(d) ==
  /\ exists /\ destroy[d] = "idle"
  /\ exists' = FALSE
  /\ destroy' = [destroy EXCEPT ![d] = "forget"]
  /\ raced' = (raced \/ \E r \in Requests : Reading(r))
  /\ UNCHANGED <<poolVars, wards, read, reader, proxyByID, httpProxy, proxyServer>>

ForgetSession(d) ==
  /\ DestroyStep(d, "forget", "proxy")
  /\ proxyByID' = None
  /\ UNCHANGED <<poolVars, wards, exists, httpProxy>>

ReleaseProxy(d) ==
  /\ DestroyStep(d, "proxy", "release")
  /\ httpProxy' = None
  /\ UNCHANGED <<poolVars, wards, exists, proxyByID>>

(* The release request goes to chromed; its answer, which may be an error, *)
(* is only logged.                                                         *)
RequestRelease(d) ==
  /\ \/ /\ server = "up"
        /\ DestroyStep(d, "release", "wait")
        /\ release' = [release EXCEPT ![d] = "take"]
     \/ server # "up" /\ DestroyStep(d, "release", "done") /\ release' = release
  /\ UNCHANGED <<instances, chrome, sockets, acquire, taken, reaper, server, history>>
  /\ UNCHANGED <<wards, exists, proxyByID, httpProxy>>

Released(d) ==
  /\ release[d] = "done"
  /\ DestroyStep(d, "wait", "done")
  /\ UNCHANGED <<poolVars, wards, exists, proxyByID, httpProxy>>

Recreate ==
  /\ ~exists /\ wards < MaxWards
  /\ \A d \in Releases : destroy[d] \in {"idle", "done"}
  /\ exists' = TRUE
  /\ wards' = wards + 1
  /\ UNCHANGED <<poolVars, read, reader, proxyByID, httpProxy, proxyServer, destroy, raced>>

-----------------------------------------------------------------------------
ReadOn(r) ==
  \/ LookupSession(r) \/ AcquireProxy(r) \/ Dial(r) \/ Answered(r) \/ TimeOut(r)
  \/ GiveUp(r) \/ Store(r)
DestroyOn(d) ==
  \/ ForgetSession(d) \/ ReleaseProxy(d) \/ RequestRelease(d) \/ Released(d)

Next ==
  \/ PoolNext /\ UNCHANGED keeper
  \/ \E r \in Requests : BeginRead(r) \/ ReadOn(r)
  \/ \E d \in Releases : BeginDestroy(d) \/ DestroyOn(d)
  \/ Recreate

Spec == Init /\ [][Next]_vars
FairSpec == Spec /\ PoolFairness

-----------------------------------------------------------------------------
(* Properties.                                                             *)

(* Neither process is doing anything for the agent.                        *)
Quiet ==
  /\ \A r \in Requests : ~Reading(r) /\ acquire[r] \in {"idle", "ok", "failed"}
  /\ \A d \in Releases : destroy[d] \in {"idle", "done"}

(* The debug path of an agent's session leads to the Chrome chromed has    *)
(* for it, until a read was given up or outlived its agent (Listen, Close  *)
(* and RemovePath all work on the same path); and that Chrome is           *)
(* configured with the HTTP proxy keeperd serves for the agent.            *)
InstanceReachable ==
  instances # None /\ ~raced /\ server = "up" =>
    /\ path = instances /\ instances \in listening
    /\ Quiet /\ proxyByID # None /\ instances \in Running => proxyServer[instances] = httpProxy

(* When an agent is destroyed that no page read is under way for and none  *)
(* was given up, neither process keeps its session, its HTTP proxy or its  *)
(* instance, and no Chrome of it runs.  Of the debug sockets exactly those *)
(* may stay open, and their path in place, that no kill was needed for:    *)
(* the Chrome did not start (Start), or it had ended by itself and been    *)
(* waited for before the release (Forget, Kill).                           *)
DestroyLeavesNothing ==
  ~exists /\ Quiet /\ server = "up" /\ ~raced =>
    /\ proxyByID = None /\ httpProxy = None /\ instances = None /\ Running = {}
    /\ path \in listening \cup {None}
    /\ listening \cap killed = {}
=============================================================================
