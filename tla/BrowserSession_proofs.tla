----------------------- MODULE BrowserSession_proofs -----------------------
(***************************************************************************)
(* Theorems about a browser session over keeperd and chromed, for any      *)
(* number of page reads, destroys and Wards of the agent.                  *)
(***************************************************************************)
EXTENDS BrowserSession, TLAPS

(***************************************************************************)
(* The inductive invariant of the pool.  A Chrome is started once, by its  *)
(* own acquire (Chromes); and when the server stops, whatever ReleaseAll   *)
(* did not find is known to have been in flight (Stopping), so that        *)
(* nothing the exit leaves behind is unaccounted for.                      *)
(***************************************************************************)
Owners == Requests \cup {None}

PoolTyped ==
  /\ instances \in Owners /\ path \in Owners
  /\ chrome \in [Requests -> {"none", "running", "exited", "reaped"}]
  /\ acquire \in [Requests -> AcquireSteps \cup {"idle", "ok", "failed"}]
  /\ reaper \in [Requests -> {"none", "waiting", "waited", "done"}]
  /\ release \in [Releasers -> ReleaseSteps \cup {"idle", "done"}]
  /\ taken \in [Releasers -> Owners]
  /\ server \in {"up", "stopping", "exited"}
  /\ replaced \subseteq Requests /\ inFlight \subseteq Owners

Unstarted == {"idle", "lookup", "clear", "listen", "start"}

Chromes ==
  /\ \A r \in Requests :
       /\ read[r] \in {"idle", "lookup", "proxy", "dial"} => acquire[r] = "idle"
       /\ acquire[r] \in Unstarted => chrome[r] = "none"
       /\ instances = r => acquire[r] = "ok"
       /\ reaper[r] \in {"waiting", "waited"} => acquire[r] = "ok"
       /\ reaper[r] = "waited" => chrome[r] = "reaped"
  /\ \A d \in Releasers :
       release[d] = "kill" => taken[d] \in Requests /\ acquire[taken[d]] = "ok"

Stopping ==
  /\ server = "up" => release[Shutdown] = "idle"
  /\ server = "stopping" /\ release[Shutdown] # "idle" =>
       /\ \A r \in Requests : acquire[r] \in {"wait", "close", "kill", "insert"} => r \in inFlight
       /\ release[Shutdown] # "take" /\ instances # None => instances \in inFlight
  /\ server = "exited" =>
       /\ instances = None
       /\ \A r \in Requests : acquire[r] \notin AcquireSteps /\ reaper[r] \notin {"waiting", "waited"}
       /\ \A d \in Releasers : release[d] \notin ReleaseSteps

PoolInv == PoolTyped /\ Chromes /\ Stopping /\ ChromeAccounted

(***************************************************************************)
(* The debug sockets.  The path leads to an open one or is free; and one   *)
(* whose Chrome chromed kills is closed before (CloseUnready) or by the    *)
(* release that is still about to do so.                                   *)
(***************************************************************************)
Sockets ==
  /\ listening \subseteq Requests /\ killed \subseteq Requests
  /\ server # "exited" => path \in listening \cup {None}
  /\ \A r \in Requests :
       /\ acquire[r] \in Unstarted => r \notin killed
       /\ acquire[r] = "kill" => r \notin listening
       /\ r \in listening \cap killed =>
            \E d \in Releasers : release[d] = "close" /\ taken[d] = r

(***************************************************************************)
(* The inductive invariant of the session, as long as chromed runs and no  *)
(* read was given up or outlived its agent (Calm): one party at a time     *)
(* works on it (OneAtATime), so what each finds is what the one before it  *)
(* left.  Reads leave a session whose Chrome, path and HTTP proxy belong   *)
(* together (Session); a destroy takes it apart in order (TornDown).       *)
(***************************************************************************)
Calm == ~raced /\ server = "up"
DestroySteps == {"forget", "proxy", "release", "wait"}

KeeperTyped ==
  /\ wards \in Nat /\ exists \in BOOLEAN /\ raced \in BOOLEAN
  /\ read \in [Requests -> ReadSteps \cup {"idle", "done"}]
  /\ reader \in [Requests -> Nat]
  /\ proxyByID \in Owners /\ httpProxy \in Owners
  /\ proxyServer \in [Requests -> Owners]
  /\ destroy \in [Releases -> DestroySteps \cup {"idle", "done"}]

OneAtATime ==
  /\ \A d \in Releases :
       /\ destroy[d] \in DestroySteps => ~exists
       /\ release[d] \in ReleaseSteps => destroy[d] = "wait"
       /\ \A e \in Releases :
            destroy[d] \in DestroySteps /\ destroy[e] \in DestroySteps => d = e
  /\ ~raced =>
       \A r \in Requests :
         /\ Reading(r) => exists /\ reader[r] = wards
         /\ acquire[r] \in AcquireSteps => read[r] = "wait"
         /\ \A s \in Requests : Reading(r) /\ Reading(s) => r = s

Session ==
  /\ \A r \in Requests :
       /\ acquire[r] \in AcquireSteps \ {"lookup"} => instances = None
       /\ acquire[r] \in {"start", "wait", "insert"} => path = r
       /\ Reading(r) /\ read[r] # "lookup" => proxyByID = None
       /\ read[r] \in {"dial", "wait", "store"} => httpProxy = proxyServer[r]
       /\ read[r] = "store" => acquire[r] = "ok"
  /\ replaced = {}
  /\ instances # None =>
       /\ path = instances
       /\ proxyByID # None => proxyServer[instances] = httpProxy
       /\ exists /\ proxyByID = None => read[instances] \in {"wait", "store"}

TornDown ==
  ~exists =>
    /\ (\A d \in Releases : destroy[d] # "forget") => proxyByID = None
    /\ (\A d \in Releases : destroy[d] \notin {"forget", "proxy"}) => httpProxy = None
    /\ (\A d \in Releases : /\ destroy[d] \notin {"forget", "proxy", "release"}
                            /\ release[d] # "take") => instances = None

SessionInv == KeeperTyped /\ OneAtATime /\ (Calm => Session /\ TornDown)

-----------------------------------------------------------------------------
(* The pool's invariant, action by action.                                 *)

(* It holds at the start.                                                  *)
LEMMA PoolInitInv == Init => PoolInv
BY PoolAssumption DEF Init, PoolInit, PoolInv, PoolTyped, Chromes, Stopping, ChromeAccounted,
   Running,
   Owners, Releasers, AcquireSteps, ReleaseSteps, Unstarted

(* A step of an acquire: every Chrome it starts it keeps at hand, until it *)
(* is killed or inserted.                                                  *)
LEMMA AcquireInv ==
  ASSUME PoolInv, NEW r \in Requests, UNCHANGED read, AcquireStep(r)
  PROVE  PoolInv'
<1>1. CASE Lookup(r)
  <2>1. PoolTyped'
    BY <1>1 DEF PoolInv, PoolTyped, Owners, AcquireSteps, ReleaseSteps, Lookup, Step, history,
       sockets
  <2>2. Chromes'
    BY PoolAssumption, <1>1, <2>1 DEF PoolInv, PoolTyped, Chromes, Owners, Unstarted, Lookup,
       Step, history, sockets
  <2>3. Stopping'
    BY PoolAssumption, <1>1, <2>1 DEF PoolInv, PoolTyped, Chromes, Stopping, Owners,
       AcquireSteps, ReleaseSteps, Releasers, Acquiring, Unstarted, Lookup, Step, history,
       sockets
  <2>4. ChromeAccounted'
    BY PoolAssumption, <1>1, <2>1, <2>2 DEF PoolInv, PoolTyped, Chromes, Stopping,
       ChromeAccounted, Running, Owners, Releasers, Releasing, ReleaseSteps, AcquireSteps,
       Unstarted, Lookup, Step, history, sockets
  <2> QED
    BY <2>1, <2>2, <2>3, <2>4 DEF PoolInv
<1>2. CASE ClearPath(r)
  <2>1. PoolTyped'
    BY <1>2 DEF PoolInv, PoolTyped, Owners, AcquireSteps, ReleaseSteps, ClearPath, Step,
       history, sockets
  <2>2. Chromes'
    BY PoolAssumption, <1>2, <2>1 DEF PoolInv, PoolTyped, Chromes, Owners, Unstarted, ClearPath,
       Step, history, sockets
  <2>3. Stopping'
    BY PoolAssumption, <1>2, <2>1 DEF PoolInv, PoolTyped, Chromes, Stopping, Owners,
       AcquireSteps, ReleaseSteps, Releasers, Acquiring, Unstarted, ClearPath, Step, history,
       sockets
  <2>4. ChromeAccounted'
    BY PoolAssumption, <1>2, <2>1, <2>2 DEF PoolInv, PoolTyped, Chromes, Stopping,
       ChromeAccounted, Running, Owners, Releasers, Releasing, ReleaseSteps, AcquireSteps,
       Unstarted, ClearPath, Step, history, sockets
  <2> QED
    BY <2>1, <2>2, <2>3, <2>4 DEF PoolInv
<1>3. CASE Listen(r)
  <2>1. PoolTyped'
    BY <1>3 DEF PoolInv, PoolTyped, Owners, AcquireSteps, ReleaseSteps, Listen, Step, history,
       sockets
  <2>2. Chromes'
    BY PoolAssumption, <1>3, <2>1 DEF PoolInv, PoolTyped, Chromes, Owners, Unstarted, Listen,
       Step, history, sockets
  <2>3. Stopping'
    BY PoolAssumption, <1>3, <2>1 DEF PoolInv, PoolTyped, Chromes, Stopping, Owners,
       AcquireSteps, ReleaseSteps, Releasers, Acquiring, Unstarted, Listen, Step, history,
       sockets
  <2>4. ChromeAccounted'
    BY PoolAssumption, <1>3, <2>1, <2>2 DEF PoolInv, PoolTyped, Chromes, Stopping,
       ChromeAccounted, Running, Owners, Releasers, Releasing, ReleaseSteps, AcquireSteps,
       Unstarted, Listen, Step, history, sockets
  <2> QED
    BY <2>1, <2>2, <2>3, <2>4 DEF PoolInv
<1>4. CASE Start(r)
  <2>1. PoolTyped'
    BY <1>4 DEF PoolInv, PoolTyped, Owners, AcquireSteps, ReleaseSteps, Start, Step, history,
       sockets
  <2>2. Chromes'
    BY PoolAssumption, <1>4, <2>1 DEF PoolInv, PoolTyped, Chromes, Owners, Unstarted, Start,
       Step, history, sockets
  <2>3. Stopping'
    BY PoolAssumption, <1>4, <2>1 DEF PoolInv, PoolTyped, Chromes, Stopping, Owners,
       AcquireSteps, ReleaseSteps, Releasers, Acquiring, Unstarted, Start, Step, history,
       sockets
  <2>4. ChromeAccounted'
    BY PoolAssumption, <1>4, <2>1, <2>2 DEF PoolInv, PoolTyped, Chromes, Stopping,
       ChromeAccounted, Running, Owners, Releasers, Releasing, ReleaseSteps, AcquireSteps,
       Unstarted, Start, Step, history, sockets
  <2> QED
    BY <2>1, <2>2, <2>3, <2>4 DEF PoolInv
<1>5. CASE WaitReady(r)
  <2>1. PoolTyped'
    BY <1>5 DEF PoolInv, PoolTyped, Owners, AcquireSteps, ReleaseSteps, WaitReady, Step,
       history, sockets
  <2>2. Chromes'
    BY PoolAssumption, <1>5, <2>1 DEF PoolInv, PoolTyped, Chromes, Owners, Unstarted, WaitReady,
       Step, history, sockets
  <2>3. Stopping'
    BY PoolAssumption, <1>5, <2>1 DEF PoolInv, PoolTyped, Chromes, Stopping, Owners,
       AcquireSteps, ReleaseSteps, Releasers, Acquiring, Unstarted, WaitReady, Step, history,
       sockets
  <2>4. ChromeAccounted'
    BY PoolAssumption, <1>5, <2>1, <2>2 DEF PoolInv, PoolTyped, Chromes, Stopping,
       ChromeAccounted, Running, Owners, Releasers, Releasing, ReleaseSteps, AcquireSteps,
       Unstarted, WaitReady, Step, history, sockets
  <2> QED
    BY <2>1, <2>2, <2>3, <2>4 DEF PoolInv
<1>6. CASE CloseUnready(r)
  <2>1. PoolTyped'
    BY <1>6 DEF PoolInv, PoolTyped, Owners, AcquireSteps, ReleaseSteps, CloseUnready, Step,
       history, sockets
  <2>2. Chromes'
    BY PoolAssumption, <1>6, <2>1 DEF PoolInv, PoolTyped, Chromes, Owners, Unstarted,
       CloseUnready, Step, history, sockets
  <2>3. Stopping'
    BY PoolAssumption, <1>6, <2>1 DEF PoolInv, PoolTyped, Chromes, Stopping, Owners,
       AcquireSteps, ReleaseSteps, Releasers, Acquiring, Unstarted, CloseUnready, Step, history,
       sockets
  <2>4. ChromeAccounted'
    BY PoolAssumption, <1>6, <2>1, <2>2 DEF PoolInv, PoolTyped, Chromes, Stopping,
       ChromeAccounted, Running, Owners, Releasers, Releasing, ReleaseSteps, AcquireSteps,
       Unstarted, CloseUnready, Step, history, sockets
  <2> QED
    BY <2>1, <2>2, <2>3, <2>4 DEF PoolInv
<1>7. CASE KillUnready(r)
  <2>1. PoolTyped'
    BY <1>7 DEF PoolInv, PoolTyped, Owners, AcquireSteps, ReleaseSteps, KillUnready, Step,
       history, sockets
  <2>2. Chromes'
    BY PoolAssumption, <1>7, <2>1 DEF PoolInv, PoolTyped, Chromes, Owners, Unstarted,
       KillUnready, Step, history, sockets
  <2>3. Stopping'
    BY PoolAssumption, <1>7, <2>1 DEF PoolInv, PoolTyped, Chromes, Stopping, Owners,
       AcquireSteps, ReleaseSteps, Releasers, Acquiring, Unstarted, KillUnready, Step, history,
       sockets
  <2>4. ChromeAccounted'
    BY PoolAssumption, <1>7, <2>1, <2>2 DEF PoolInv, PoolTyped, Chromes, Stopping,
       ChromeAccounted, Running, Owners, Releasers, Releasing, ReleaseSteps, AcquireSteps,
       Unstarted, KillUnready, Step, history, sockets
  <2> QED
    BY <2>1, <2>2, <2>3, <2>4 DEF PoolInv
<1>8. CASE Insert(r)
  <2>1. PoolTyped'
    BY <1>8 DEF PoolInv, PoolTyped, Owners, AcquireSteps, ReleaseSteps, Insert, Step, history,
       sockets
  <2>2. Chromes'
    BY PoolAssumption, <1>8, <2>1 DEF PoolInv, PoolTyped, Chromes, Owners, Unstarted, Insert,
       Step, history, sockets
  <2>3. Stopping'
    BY PoolAssumption, <1>8, <2>1 DEF PoolInv, PoolTyped, Chromes, Stopping, Owners,
       AcquireSteps, ReleaseSteps, Releasers, Acquiring, Unstarted, Insert, Step, history,
       sockets
  <2>4. ChromeAccounted'
    BY PoolAssumption, <1>8, <2>1, <2>2 DEF PoolInv, PoolTyped, Chromes, Stopping,
       ChromeAccounted, Running, Owners, Releasers, Releasing, ReleaseSteps, AcquireSteps,
       Unstarted, Insert, Step, history, sockets
  <2> QED
    BY <2>1, <2>2, <2>3, <2>4 DEF PoolInv
<1> QED
  BY <1>1, <1>2, <1>3, <1>4, <1>5, <1>6, <1>7, <1>8 DEF AcquireStep

(* A Chrome ends, and its reaper forgets it only after it did.             *)
LEMMA ReaperInv ==
  ASSUME PoolInv, NEW r \in Requests, UNCHANGED read, ChromeExits(r) \/ ReaperStep(r)
  PROVE  PoolInv'
<1>1. CASE ChromeExits(r)
  <2>1. PoolTyped'
    BY <1>1 DEF PoolInv, PoolTyped, Owners, AcquireSteps, ReleaseSteps, ChromeExits, requests,
       history, sockets
  <2>2. Chromes'
    BY PoolAssumption, <1>1, <2>1 DEF PoolInv, PoolTyped, Chromes, Owners, Unstarted,
       ChromeExits, requests, history, sockets
  <2>3. Stopping'
    BY PoolAssumption, <1>1, <2>1 DEF PoolInv, PoolTyped, Chromes, Stopping, Owners,
       AcquireSteps, ReleaseSteps, Releasers, Acquiring, Unstarted, ChromeExits, requests,
       history, sockets
  <2>4. ChromeAccounted'
    BY PoolAssumption, <1>1, <2>1, <2>2 DEF PoolInv, PoolTyped, Chromes, Stopping,
       ChromeAccounted, Running, Owners, Releasers, Releasing, ReleaseSteps, AcquireSteps,
       Unstarted, ChromeExits, requests, history, sockets
  <2> QED
    BY <2>1, <2>2, <2>3, <2>4 DEF PoolInv
<1>2. CASE ReaperWaits(r)
  <2>1. PoolTyped'
    BY <1>2 DEF PoolInv, PoolTyped, Owners, AcquireSteps, ReleaseSteps, ReaperWaits, requests,
       history, sockets
  <2>2. Chromes'
    BY PoolAssumption, <1>2, <2>1 DEF PoolInv, PoolTyped, Chromes, Owners, Unstarted,
       ReaperWaits, requests, history, sockets
  <2>3. Stopping'
    BY PoolAssumption, <1>2, <2>1 DEF PoolInv, PoolTyped, Chromes, Stopping, Owners,
       AcquireSteps, ReleaseSteps, Releasers, Acquiring, Unstarted, ReaperWaits, requests,
       history, sockets
  <2>4. ChromeAccounted'
    BY PoolAssumption, <1>2, <2>1, <2>2 DEF PoolInv, PoolTyped, Chromes, Stopping,
       ChromeAccounted, Running, Owners, Releasers, Releasing, ReleaseSteps, AcquireSteps,
       Unstarted, ReaperWaits, requests, history, sockets
  <2> QED
    BY <2>1, <2>2, <2>3, <2>4 DEF PoolInv
<1>3. CASE Forget(r)
  <2>1. PoolTyped'
    BY <1>3 DEF PoolInv, PoolTyped, Owners, AcquireSteps, ReleaseSteps, Forget, requests,
       history, sockets
  <2>2. Chromes'
    BY PoolAssumption, <1>3, <2>1 DEF PoolInv, PoolTyped, Chromes, Owners, Unstarted, Forget,
       requests, history, sockets
  <2>3. Stopping'
    BY PoolAssumption, <1>3, <2>1 DEF PoolInv, PoolTyped, Chromes, Stopping, Owners,
       AcquireSteps, ReleaseSteps, Releasers, Acquiring, Unstarted, Forget, requests, history,
       sockets
  <2>4. ChromeAccounted'
    BY PoolAssumption, <1>3, <2>1, <2>2 DEF PoolInv, PoolTyped, Chromes, Stopping,
       ChromeAccounted, Running, Owners, Releasers, Releasing, ReleaseSteps, AcquireSteps,
       Unstarted, Forget, requests, history, sockets
  <2> QED
    BY <2>1, <2>2, <2>3, <2>4 DEF PoolInv
<1> QED
  BY <1>1, <1>2, <1>3 DEF ReaperStep

(* A release has at hand what it took out of the map.                      *)
LEMMA ReleaseInv ==
  ASSUME PoolInv, NEW d \in Releasers, UNCHANGED read, ReleaseStep(d)
  PROVE  PoolInv'
<1>1. CASE Take(d)
  <2>1. PoolTyped'
    BY <1>1 DEF PoolInv, PoolTyped, Owners, AcquireSteps, ReleaseSteps, Take, RStep, history,
       sockets
  <2>2. Chromes'
    BY PoolAssumption, <1>1, <2>1 DEF PoolInv, PoolTyped, Chromes, Owners, Unstarted, Take,
       RStep, history, sockets
  <2>3. Stopping'
    BY PoolAssumption, <1>1, <2>1 DEF PoolInv, PoolTyped, Chromes, Stopping, Owners,
       AcquireSteps, ReleaseSteps, Releasers, Acquiring, Unstarted, Take, RStep, history,
       sockets
  <2>4. ChromeAccounted'
    BY PoolAssumption, <1>1, <2>1, <2>2 DEF PoolInv, PoolTyped, Chromes, Stopping,
       ChromeAccounted, Running, Owners, Releasers, Releasing, ReleaseSteps, AcquireSteps,
       Unstarted, Take, RStep, history, sockets
  <2> QED
    BY <2>1, <2>2, <2>3, <2>4 DEF PoolInv
<1>2. CASE Kill(d)
  <2>1. PoolTyped'
    BY <1>2 DEF PoolInv, PoolTyped, Owners, AcquireSteps, ReleaseSteps, Kill, RStep, history,
       sockets
  <2>2. Chromes'
    BY PoolAssumption, <1>2, <2>1 DEF PoolInv, PoolTyped, Chromes, Owners, Unstarted, Kill,
       RStep, history, sockets
  <2>3. Stopping'
    BY PoolAssumption, <1>2, <2>1 DEF PoolInv, PoolTyped, Chromes, Stopping, Owners,
       AcquireSteps, ReleaseSteps, Releasers, Acquiring, Unstarted, Kill, RStep, history,
       sockets
  <2>4. ChromeAccounted'
    BY PoolAssumption, <1>2, <2>1, <2>2 DEF PoolInv, PoolTyped, Chromes, Stopping,
       ChromeAccounted, Running, Owners, Releasers, Releasing, ReleaseSteps, AcquireSteps,
       Unstarted, Kill, RStep, history, sockets
  <2> QED
    BY <2>1, <2>2, <2>3, <2>4 DEF PoolInv
<1>3. CASE Close(d)
  <2>1. PoolTyped'
    BY <1>3 DEF PoolInv, PoolTyped, Owners, AcquireSteps, ReleaseSteps, Close, RStep, history,
       sockets
  <2>2. Chromes'
    BY PoolAssumption, <1>3, <2>1 DEF PoolInv, PoolTyped, Chromes, Owners, Unstarted, Close,
       RStep, history, sockets
  <2>3. Stopping'
    BY PoolAssumption, <1>3, <2>1 DEF PoolInv, PoolTyped, Chromes, Stopping, Owners,
       AcquireSteps, ReleaseSteps, Releasers, Acquiring, Unstarted, Close, RStep, history,
       sockets
  <2>4. ChromeAccounted'
    BY PoolAssumption, <1>3, <2>1, <2>2 DEF PoolInv, PoolTyped, Chromes, Stopping,
       ChromeAccounted, Running, Owners, Releasers, Releasing, ReleaseSteps, AcquireSteps,
       Unstarted, Close, RStep, history, sockets
  <2> QED
    BY <2>1, <2>2, <2>3, <2>4 DEF PoolInv
<1>4. CASE RemovePath(d)
  <2>1. PoolTyped'
    BY <1>4 DEF PoolInv, PoolTyped, Owners, AcquireSteps, ReleaseSteps, RemovePath, RStep,
       history, sockets
  <2>2. Chromes'
    BY PoolAssumption, <1>4, <2>1 DEF PoolInv, PoolTyped, Chromes, Owners, Unstarted,
       RemovePath, RStep, history, sockets
  <2>3. Stopping'
    BY PoolAssumption, <1>4, <2>1 DEF PoolInv, PoolTyped, Chromes, Stopping, Owners,
       AcquireSteps, ReleaseSteps, Releasers, Acquiring, Unstarted, RemovePath, RStep, history,
       sockets
  <2>4. ChromeAccounted'
    BY PoolAssumption, <1>4, <2>1, <2>2 DEF PoolInv, PoolTyped, Chromes, Stopping,
       ChromeAccounted, Running, Owners, Releasers, Releasing, ReleaseSteps, AcquireSteps,
       Unstarted, RemovePath, RStep, history, sockets
  <2> QED
    BY <2>1, <2>2, <2>3, <2>4 DEF PoolInv
<1> QED
  BY <1>1, <1>2, <1>3, <1>4 DEF ReleaseStep

(* The end of the server leaves behind only what was in flight.            *)
LEMMA ServerInv ==
  ASSUME PoolInv, UNCHANGED read, Stop \/ ReleaseAll \/ Exit
  PROVE  PoolInv'
<1>1. CASE Stop
  <2>1. PoolTyped'
    BY <1>1 DEF PoolInv, PoolTyped, Owners, AcquireSteps, ReleaseSteps, Stop, requests, history,
       sockets
  <2>2. Chromes'
    BY PoolAssumption, <1>1, <2>1 DEF PoolInv, PoolTyped, Chromes, Owners, Unstarted, Stop,
       requests, history, sockets
  <2>3. Stopping'
    BY PoolAssumption, <1>1, <2>1 DEF PoolInv, PoolTyped, Chromes, Stopping, Owners,
       AcquireSteps, ReleaseSteps, Releasers, Acquiring, Unstarted, Stop, requests, history,
       sockets
  <2>4. ChromeAccounted'
    BY PoolAssumption, <1>1, <2>1, <2>2 DEF PoolInv, PoolTyped, Chromes, Stopping,
       ChromeAccounted, Running, Owners, Releasers, Releasing, ReleaseSteps, AcquireSteps,
       Unstarted, Stop, requests, history, sockets
  <2> QED
    BY <2>1, <2>2, <2>3, <2>4 DEF PoolInv
<1>2. CASE ReleaseAll
  <2>1. PoolTyped'
    BY <1>2 DEF PoolInv, PoolTyped, Owners, AcquireSteps, ReleaseSteps, ReleaseAll, sockets,
       history
  <2>2. Chromes'
    BY PoolAssumption, <1>2, <2>1 DEF PoolInv, PoolTyped, Chromes, Owners, Unstarted,
       ReleaseAll, sockets, history
  <2>3. Stopping'
    BY PoolAssumption, <1>2, <2>1 DEF PoolInv, PoolTyped, Chromes, Stopping, Owners, AcquireSteps,
       ReleaseSteps, Releasers, Acquiring, Unstarted, ReleaseAll, sockets, history
  <2>4. ChromeAccounted'
    BY PoolAssumption, <1>2, <2>1, <2>2 DEF PoolInv, PoolTyped, Chromes, Stopping,
       ChromeAccounted, Running, Owners, Releasers, Releasing, ReleaseSteps, AcquireSteps,
       Unstarted, ReleaseAll, sockets, history
  <2> QED
    BY <2>1, <2>2, <2>3, <2>4 DEF PoolInv
<1>3. CASE Exit
  <2>1. PoolTyped'
    BY <1>3 DEF PoolInv, PoolTyped, Owners, AcquireSteps, ReleaseSteps, Exit, sockets, history
  <2>2. Chromes'
    <3>1. /\ instances' = None /\ chrome' = chrome /\ read' = read
          /\ \A r \in Requests :
               /\ acquire'[r] \notin AcquireSteps /\ (acquire[r] = "idle" => acquire'[r] = "idle")
               /\ acquire'[r] = "idle" => acquire[r] = "idle"
               /\ reaper'[r] = "done"
          /\ \A d \in Releasers : release'[d] \in {"idle", "done"}
      BY <1>3 DEF Exit, PoolInv, PoolTyped, AcquireSteps
    <3>2. \A r \in Requests : acquire'[r] \in Unstarted => acquire[r] = "idle"
      BY <3>1 DEF AcquireSteps, Unstarted
    <3> QED
      BY PoolAssumption, <3>1, <3>2 DEF Chromes, PoolInv, Unstarted
  <2>3. Stopping'
    BY PoolAssumption, <1>3, <2>1 DEF PoolInv, PoolTyped, Chromes, Stopping, Owners, AcquireSteps,
       ReleaseSteps, Releasers, Acquiring, Unstarted, Exit, sockets, history
  <2>4. ChromeAccounted'
    BY PoolAssumption, <1>3, <2>1, <2>2 DEF PoolInv, PoolTyped, Chromes, Stopping,
       ChromeAccounted, Running, Owners, Releasers, Releasing, ReleaseSteps, AcquireSteps,
       Unstarted, Exit, sockets, history
  <2> QED
    BY <2>1, <2>2, <2>3, <2>4 DEF PoolInv
<1> QED
  BY <1>1, <1>2, <1>3

(* keeperd's steps: a request reaches chromed at most once.                *)
LEMMA KeeperStepPool ==
  ASSUME PoolInv, SessionInv,
         \/ \E r \in Requests : BeginRead(r) \/ ReadOn(r)
         \/ \E d \in Releases : BeginDestroy(d) \/ DestroyOn(d)
         \/ Recreate
  PROVE  PoolInv'
<1>1. ASSUME NEW r \in Requests,
             \/ BeginRead(r) \/ LookupSession(r) \/ AcquireProxy(r) \/ Answered(r) \/ TimeOut(r)
             \/ GiveUp(r) \/ Store(r)
      PROVE  PoolInv'
  <2>1. /\ UNCHANGED poolVars
        /\ \A s \in Requests : read'[s] \in {"idle", "lookup", "proxy", "dial"}
                                => read[s] \in {"idle", "lookup", "proxy", "dial"}
    BY <1>1 DEF BeginRead, LookupSession, AcquireProxy, Answered, TimeOut, GiveUp, Store,
       ReadStep, SessionInv, KeeperTyped
  <2> QED
    BY <2>1 DEF poolVars, requests, history, sockets, PoolInv, PoolTyped, Chromes, Stopping,
       ChromeAccounted, Running
<1>2. ASSUME NEW r \in Requests, Dial(r) PROVE PoolInv'
  <2>1. PoolTyped'
    BY <1>2 DEF Dial, history, sockets, PoolInv, PoolTyped, AcquireSteps
  <2>2. Chromes'
    BY PoolAssumption, <1>2, <2>1 DEF Dial, ReadStep, history, sockets, SessionInv, KeeperTyped,
       PoolInv, PoolTyped, Chromes, Unstarted
  <2>3. Stopping'
    BY <1>2, <2>1 DEF Dial, ReadStep, history, sockets, PoolInv, PoolTyped, Stopping
  <2>4. ChromeAccounted'
    BY <1>2, <2>1 DEF Dial, ReadStep, history, sockets, PoolInv, PoolTyped, Chromes, Unstarted,
       ChromeAccounted, Running
  <2> QED
    BY <2>1, <2>2, <2>3, <2>4 DEF PoolInv
<1>3. ASSUME NEW d \in Releases,
             BeginDestroy(d) \/ ForgetSession(d) \/ ReleaseProxy(d) \/ Released(d)
      PROVE  PoolInv'
  <2>1. UNCHANGED <<poolVars, read>>
    BY <1>3 DEF BeginDestroy, ForgetSession, ReleaseProxy, Released, DestroyStep
  <2> QED
    BY <2>1 DEF poolVars, requests, history, sockets, PoolInv, PoolTyped, Chromes, Stopping,
       ChromeAccounted, Running
<1>4. ASSUME NEW d \in Releases, RequestRelease(d) PROVE PoolInv'
  <2> USE DEF RequestRelease, DestroyStep, history, sockets
  <2>1. PoolTyped'
    BY <1>4 DEF PoolInv, PoolTyped, ReleaseSteps
  <2>2. Chromes'
    BY <1>4, <2>1 DEF PoolInv, PoolTyped, Chromes, Releasers
  <2>3. Stopping'
    BY PoolAssumption, <1>4, <2>1 DEF PoolInv, PoolTyped, Stopping, Releasers
  <2>4. ChromeAccounted'
    <3>1. release[d] # "kill" /\ Shutdown # d
      BY PoolAssumption, <1>4 DEF SessionInv, OneAtATime, ReleaseSteps
    <3>2. \A e \in Releasers : release[e] = "kill" => release'[e] = "kill" /\ taken'[e] = taken[e]
      BY <1>4, <3>1 DEF PoolInv, PoolTyped
    <3> QED
      BY <1>4, <3>2 DEF PoolInv, PoolTyped, ChromeAccounted, Running, Releasers
  <2> QED
    BY <2>1, <2>2, <2>3, <2>4 DEF PoolInv
<1>5. CASE Recreate
  BY <1>5 DEF Recreate, poolVars, requests, history, sockets, PoolInv, PoolTyped, Chromes,
     Stopping, ChromeAccounted, Running
<1> QED
  BY <1>1, <1>2, <1>3, <1>4, <1>5 DEF ReadOn, DestroyOn

-----------------------------------------------------------------------------
(* The sockets' invariant.                                                 *)

(* Every step of chromed keeps it.                                         *)
LEMMA PoolSockets == ASSUME PoolInv, Sockets, PoolNext PROVE Sockets'
<1> USE PoolAssumption DEF PoolInv, PoolTyped, Sockets, sockets, history, requests
<1>1. ASSUME NEW r \in Requests, AcquireStep(r) PROVE Sockets'
  <2> USE DEF Step, Unstarted
  <2>1. CASE Lookup(r) \/ ClearPath(r) \/ Start(r) \/ WaitReady(r) \/ Insert(r)
    BY <2>1 DEF Lookup, ClearPath, Start, WaitReady, Insert
  <2>2. CASE Listen(r)
    BY <2>2 DEF Listen
  <2>3. CASE CloseUnready(r)
    BY <2>3 DEF CloseUnready
  <2>4. CASE KillUnready(r)
    BY <2>4 DEF KillUnready
  <2> QED
    BY <1>1, <2>1, <2>2, <2>3, <2>4 DEF AcquireStep
<1>2. ASSUME NEW r \in Requests, ReaperStep(r) \/ ChromeExits(r) PROVE Sockets'
  BY <1>2 DEF ReaperStep, ReaperWaits, Forget, ChromeExits
<1>3. ASSUME NEW d \in Releasers, ReleaseStep(d) PROVE Sockets'
  <2> USE DEF RStep
  <2>1. CASE Take(d) \/ RemovePath(d)
    BY <2>1 DEF Take, RemovePath
  <2>2. CASE Kill(d)
    <3>1. taken[d] \in Requests /\ acquire[taken[d]] = "ok" /\ release[d] = "kill"
      BY <2>2 DEF Kill, Chromes
    <3>2. \A e \in Releasers : release[e] = "close" => release'[e] = "close" /\ taken'[e] = taken[e]
      BY <2>2 DEF Kill
    <3>3. CASE chrome[taken[d]] = "reaped"
      BY <2>2, <3>2, <3>3 DEF Kill
    <3>4. CASE chrome[taken[d]] # "reaped"
      <4>1. release'[d] = "close" /\ taken'[d] = taken[d] /\ killed' = killed \cup {taken[d]}
        BY <2>2, <3>4 DEF Kill
      <4>2. UNCHANGED <<listening, path, acquire, server>>
        BY <2>2, <3>4 DEF Kill
      <4> QED
        BY <3>1, <3>2, <4>1, <4>2 DEF Unstarted
    <3> QED
      BY <3>3, <3>4
  <2>3. CASE Close(d)
    <3>1. \A e \in Releasers : release[e] = "close" /\ taken[e] # taken[d]
                                => release'[e] = "close" /\ taken'[e] = taken[e]
      BY <2>3 DEF Close
    <3> QED
      BY <2>3, <3>1 DEF Close
  <2> QED
    BY <1>3, <2>1, <2>2, <2>3 DEF ReleaseStep
<1>4. CASE Stop
  BY <1>4 DEF Stop
<1>5. CASE ReleaseAll
  BY <1>5 DEF ReleaseAll
<1>6. CASE Exit
  BY <1>6 DEF Exit, AcquireSteps, Unstarted
<1> QED
  BY <1>1, <1>2, <1>3, <1>4, <1>5, <1>6 DEF PoolNext

(* keeperd's steps do not touch a socket.                                  *)
LEMMA KeeperSockets ==
  ASSUME PoolInv, SessionInv, Sockets,
         \/ \E r \in Requests : BeginRead(r) \/ ReadOn(r)
         \/ \E d \in Releases : BeginDestroy(d) \/ DestroyOn(d)
         \/ Recreate
  PROVE  Sockets'
<1>1. ASSUME NEW r \in Requests, Dial(r) PROVE Sockets'
  BY <1>1 DEF Dial, ReadStep, sockets, history, Sockets, PoolInv, PoolTyped, Chromes, Unstarted
<1>2. ASSUME NEW d \in Releases, RequestRelease(d) PROVE Sockets'
  <2>1. release[d] # "close"
    BY <1>2 DEF RequestRelease, DestroyStep, SessionInv, OneAtATime, ReleaseSteps
  <2>2. \A e \in Releasers : release[e] = "close" => release'[e] = "close" /\ taken'[e] = taken[e]
    BY <1>2, <2>1 DEF RequestRelease, PoolInv, PoolTyped
  <2> QED
    BY <1>2, <2>2 DEF RequestRelease, sockets, history, Sockets
<1>3. CASE UNCHANGED poolVars
  BY <1>3 DEF poolVars, sockets, history, requests, Sockets
<1> QED
  BY <1>1, <1>2, <1>3 DEF ReadOn, DestroyOn, BeginRead, LookupSession, AcquireProxy, Answered,
     TimeOut, GiveUp, Store, BeginDestroy, ForgetSession, ReleaseProxy, Released, Recreate

-----------------------------------------------------------------------------
(* The session's invariant.                                                *)

(* It holds at the start.                                                  *)
LEMMA SessionInitInv == Init => SessionInv
<1> SUFFICES ASSUME Init PROVE SessionInv
  OBVIOUS
<1> USE DEF Init, PoolInit
<1>1. KeeperTyped
  BY DEF KeeperTyped, Owners
<1>2. OneAtATime
  <2>1. \A r \in Requests : ~Reading(r) /\ acquire[r] \notin AcquireSteps
    BY DEF Reading, ReadSteps, AcquireSteps
  <2>2. \A d \in Releases : destroy[d] \notin DestroySteps /\ release[d] \notin ReleaseSteps
    BY DEF DestroySteps, ReleaseSteps, Releasers
  <2> QED
    BY <2>1, <2>2 DEF OneAtATime
<1>3. Session /\ TornDown
  BY DEF Session, TornDown, AcquireSteps
<1> QED
  BY <1>1, <1>2, <1>3 DEF SessionInv

(* An acquire: only one is under way while all is calm.                    *)
LEMMA AcquireSession ==
  ASSUME PoolInv, SessionInv, UNCHANGED keeper, NEW r \in Requests, AcquireStep(r)
  PROVE  SessionInv'
<1>1. CASE Lookup(r)
  <2> USE <1>1 DEF Lookup, Step, history, sockets, keeper
  <2>1. KeeperTyped'
    BY DEF SessionInv, KeeperTyped, Owners, ReadSteps, DestroySteps
  <2>2. OneAtATime'
    BY PoolAssumption, <2>1 DEF SessionInv, KeeperTyped, PoolInv, PoolTyped, OneAtATime, Reading,
       ReadSteps, AcquireSteps, ReleaseSteps, Releasers, DestroySteps
  <2>3. ASSUME Calm' PROVE Session'
    <3>1. Calm /\ Session /\ OneAtATime
      BY <2>3 DEF SessionInv, Calm
    <3> QED
      BY PoolAssumption, <3>1, <2>1 DEF SessionInv, KeeperTyped, Owners, Calm, Session, TornDown,
         OneAtATime, Reading, ReadSteps, AcquireSteps, ReleaseSteps, DestroySteps, PoolInv,
         PoolTyped, Chromes, Releasers
  <2>4. ASSUME Calm' PROVE TornDown'
    <3>1. Calm /\ Session /\ OneAtATime /\ TornDown
      BY <2>4 DEF SessionInv, Calm
    <3> QED
      BY PoolAssumption, <3>1, <2>1 DEF SessionInv, KeeperTyped, Calm, Session, TornDown,
         OneAtATime, Reading, ReadSteps, AcquireSteps, ReleaseSteps, DestroySteps, PoolInv,
         PoolTyped, Releasers
  <2> QED
    BY <2>1, <2>2, <2>3, <2>4 DEF SessionInv
<1>2. CASE ClearPath(r)
  <2> USE <1>2 DEF ClearPath, Step, history, sockets, keeper
  <2>1. KeeperTyped'
    BY DEF SessionInv, KeeperTyped, Owners, ReadSteps, DestroySteps
  <2>2. OneAtATime'
    BY PoolAssumption, <2>1 DEF SessionInv, KeeperTyped, PoolInv, PoolTyped, OneAtATime, Reading,
       ReadSteps, AcquireSteps, ReleaseSteps, Releasers, DestroySteps
  <2>3. ASSUME Calm' PROVE Session'
    <3>1. Calm /\ Session /\ OneAtATime
      BY <2>3 DEF SessionInv, Calm
    <3> QED
      BY PoolAssumption, <3>1, <2>1 DEF SessionInv, KeeperTyped, Owners, Calm, Session, TornDown,
         OneAtATime, Reading, ReadSteps, AcquireSteps, ReleaseSteps, DestroySteps, PoolInv,
         PoolTyped, Chromes, Releasers
  <2>4. ASSUME Calm' PROVE TornDown'
    <3>1. Calm /\ Session /\ OneAtATime /\ TornDown
      BY <2>4 DEF SessionInv, Calm
    <3> QED
      BY PoolAssumption, <3>1, <2>1 DEF SessionInv, KeeperTyped, Calm, Session, TornDown,
         OneAtATime, Reading, ReadSteps, AcquireSteps, ReleaseSteps, DestroySteps, PoolInv,
         PoolTyped, Releasers
  <2> QED
    BY <2>1, <2>2, <2>3, <2>4 DEF SessionInv
<1>3. CASE Listen(r)
  <2> USE <1>3 DEF Listen, Step, history, sockets, keeper
  <2>1. KeeperTyped'
    BY DEF SessionInv, KeeperTyped, Owners, ReadSteps, DestroySteps
  <2>2. OneAtATime'
    BY PoolAssumption, <2>1 DEF SessionInv, KeeperTyped, PoolInv, PoolTyped, OneAtATime, Reading,
       ReadSteps, AcquireSteps, ReleaseSteps, Releasers, DestroySteps
  <2>3. ASSUME Calm' PROVE Session'
    <3>1. Calm /\ Session /\ OneAtATime
      BY <2>3 DEF SessionInv, Calm
    <3> QED
      BY PoolAssumption, <3>1, <2>1 DEF SessionInv, KeeperTyped, Owners, Calm, Session, TornDown,
         OneAtATime, Reading, ReadSteps, AcquireSteps, ReleaseSteps, DestroySteps, PoolInv,
         PoolTyped, Chromes, Releasers
  <2>4. ASSUME Calm' PROVE TornDown'
    <3>1. Calm /\ Session /\ OneAtATime /\ TornDown
      BY <2>4 DEF SessionInv, Calm
    <3> QED
      BY PoolAssumption, <3>1, <2>1 DEF SessionInv, KeeperTyped, Calm, Session, TornDown,
         OneAtATime, Reading, ReadSteps, AcquireSteps, ReleaseSteps, DestroySteps, PoolInv,
         PoolTyped, Releasers
  <2> QED
    BY <2>1, <2>2, <2>3, <2>4 DEF SessionInv
<1>4. CASE Start(r)
  <2> USE <1>4 DEF Start, Step, history, sockets, keeper
  <2>1. KeeperTyped'
    BY DEF SessionInv, KeeperTyped, Owners, ReadSteps, DestroySteps
  <2>2. OneAtATime'
    BY PoolAssumption, <2>1 DEF SessionInv, KeeperTyped, PoolInv, PoolTyped, OneAtATime, Reading,
       ReadSteps, AcquireSteps, ReleaseSteps, Releasers, DestroySteps
  <2>3. ASSUME Calm' PROVE Session'
    <3>1. Calm /\ Session /\ OneAtATime
      BY <2>3 DEF SessionInv, Calm
    <3> QED
      BY PoolAssumption, <3>1, <2>1 DEF SessionInv, KeeperTyped, Owners, Calm, Session, TornDown,
         OneAtATime, Reading, ReadSteps, AcquireSteps, ReleaseSteps, DestroySteps, PoolInv,
         PoolTyped, Chromes, Releasers
  <2>4. ASSUME Calm' PROVE TornDown'
    <3>1. Calm /\ Session /\ OneAtATime /\ TornDown
      BY <2>4 DEF SessionInv, Calm
    <3> QED
      BY PoolAssumption, <3>1, <2>1 DEF SessionInv, KeeperTyped, Calm, Session, TornDown,
         OneAtATime, Reading, ReadSteps, AcquireSteps, ReleaseSteps, DestroySteps, PoolInv,
         PoolTyped, Releasers
  <2> QED
    BY <2>1, <2>2, <2>3, <2>4 DEF SessionInv
<1>5. CASE WaitReady(r)
  <2> USE <1>5 DEF WaitReady, Step, history, sockets, keeper
  <2>1. KeeperTyped'
    BY DEF SessionInv, KeeperTyped, Owners, ReadSteps, DestroySteps
  <2>2. OneAtATime'
    BY PoolAssumption, <2>1 DEF SessionInv, KeeperTyped, PoolInv, PoolTyped, OneAtATime, Reading,
       ReadSteps, AcquireSteps, ReleaseSteps, Releasers, DestroySteps
  <2>3. ASSUME Calm' PROVE Session'
    <3>1. Calm /\ Session /\ OneAtATime
      BY <2>3 DEF SessionInv, Calm
    <3> QED
      BY PoolAssumption, <3>1, <2>1 DEF SessionInv, KeeperTyped, Owners, Calm, Session, TornDown,
         OneAtATime, Reading, ReadSteps, AcquireSteps, ReleaseSteps, DestroySteps, PoolInv,
         PoolTyped, Chromes, Releasers
  <2>4. ASSUME Calm' PROVE TornDown'
    <3>1. Calm /\ Session /\ OneAtATime /\ TornDown
      BY <2>4 DEF SessionInv, Calm
    <3> QED
      BY PoolAssumption, <3>1, <2>1 DEF SessionInv, KeeperTyped, Calm, Session, TornDown,
         OneAtATime, Reading, ReadSteps, AcquireSteps, ReleaseSteps, DestroySteps, PoolInv,
         PoolTyped, Releasers
  <2> QED
    BY <2>1, <2>2, <2>3, <2>4 DEF SessionInv
<1>6. CASE CloseUnready(r)
  <2> USE <1>6 DEF CloseUnready, Step, history, sockets, keeper
  <2>1. KeeperTyped'
    BY DEF SessionInv, KeeperTyped, Owners, ReadSteps, DestroySteps
  <2>2. OneAtATime'
    BY PoolAssumption, <2>1 DEF SessionInv, KeeperTyped, PoolInv, PoolTyped, OneAtATime, Reading,
       ReadSteps, AcquireSteps, ReleaseSteps, Releasers, DestroySteps
  <2>3. ASSUME Calm' PROVE Session'
    <3>1. Calm /\ Session /\ OneAtATime
      BY <2>3 DEF SessionInv, Calm
    <3> QED
      BY PoolAssumption, <3>1, <2>1 DEF SessionInv, KeeperTyped, Owners, Calm, Session, TornDown,
         OneAtATime, Reading, ReadSteps, AcquireSteps, ReleaseSteps, DestroySteps, PoolInv,
         PoolTyped, Chromes, Releasers
  <2>4. ASSUME Calm' PROVE TornDown'
    <3>1. Calm /\ Session /\ OneAtATime /\ TornDown
      BY <2>4 DEF SessionInv, Calm
    <3> QED
      BY PoolAssumption, <3>1, <2>1 DEF SessionInv, KeeperTyped, Calm, Session, TornDown,
         OneAtATime, Reading, ReadSteps, AcquireSteps, ReleaseSteps, DestroySteps, PoolInv,
         PoolTyped, Releasers
  <2> QED
    BY <2>1, <2>2, <2>3, <2>4 DEF SessionInv
<1>7. CASE KillUnready(r)
  <2> USE <1>7 DEF KillUnready, Step, history, sockets, keeper
  <2>1. KeeperTyped'
    BY DEF SessionInv, KeeperTyped, Owners, ReadSteps, DestroySteps
  <2>2. OneAtATime'
    BY PoolAssumption, <2>1 DEF SessionInv, KeeperTyped, PoolInv, PoolTyped, OneAtATime, Reading,
       ReadSteps, AcquireSteps, ReleaseSteps, Releasers, DestroySteps
  <2>3. ASSUME Calm' PROVE Session'
    <3>1. Calm /\ Session /\ OneAtATime
      BY <2>3 DEF SessionInv, Calm
    <3> QED
      BY PoolAssumption, <3>1, <2>1 DEF SessionInv, KeeperTyped, Owners, Calm, Session, TornDown,
         OneAtATime, Reading, ReadSteps, AcquireSteps, ReleaseSteps, DestroySteps, PoolInv,
         PoolTyped, Chromes, Releasers
  <2>4. ASSUME Calm' PROVE TornDown'
    <3>1. Calm /\ Session /\ OneAtATime /\ TornDown
      BY <2>4 DEF SessionInv, Calm
    <3> QED
      BY PoolAssumption, <3>1, <2>1 DEF SessionInv, KeeperTyped, Calm, Session, TornDown,
         OneAtATime, Reading, ReadSteps, AcquireSteps, ReleaseSteps, DestroySteps, PoolInv,
         PoolTyped, Releasers
  <2> QED
    BY <2>1, <2>2, <2>3, <2>4 DEF SessionInv
<1>8. CASE Insert(r)
  <2> USE <1>8 DEF Insert, Step, history, sockets, keeper
  <2>1. KeeperTyped'
    BY DEF SessionInv, KeeperTyped, Owners, ReadSteps, DestroySteps
  <2>2. OneAtATime'
    BY PoolAssumption, <2>1 DEF SessionInv, KeeperTyped, PoolInv, PoolTyped, OneAtATime, Reading,
       ReadSteps, AcquireSteps, ReleaseSteps, Releasers, DestroySteps
  <2>3. ASSUME Calm' PROVE Session'
    <3>1. Calm /\ Session /\ OneAtATime
      BY <2>3 DEF SessionInv, Calm
    <3> QED
      BY PoolAssumption, <3>1, <2>1 DEF SessionInv, KeeperTyped, Owners, Calm, Session, TornDown,
         OneAtATime, Reading, ReadSteps, AcquireSteps, ReleaseSteps, DestroySteps, PoolInv,
         PoolTyped, Chromes, Releasers
  <2>4. ASSUME Calm' PROVE TornDown'
    <3>1. Calm /\ Session /\ OneAtATime /\ TornDown
      BY <2>4 DEF SessionInv, Calm
    <3> QED
      BY PoolAssumption, <3>1, <2>1 DEF SessionInv, KeeperTyped, Calm, Session, TornDown,
         OneAtATime, Reading, ReadSteps, AcquireSteps, ReleaseSteps, DestroySteps, PoolInv,
         PoolTyped, Releasers
  <2> QED
    BY <2>1, <2>2, <2>3, <2>4 DEF SessionInv
<1> QED
  BY <1>1, <1>2, <1>3, <1>4, <1>5, <1>6, <1>7, <1>8 DEF AcquireStep

(* A Chrome ends or is forgotten.                                          *)
LEMMA ReaperSession ==
  ASSUME PoolInv, SessionInv, UNCHANGED keeper, NEW r \in Requests, ChromeExits(r) \/ ReaperStep(r)
  PROVE  SessionInv'
<1>1. CASE ChromeExits(r)
  <2> USE <1>1 DEF ChromeExits, requests, history, sockets, keeper
  <2>1. KeeperTyped'
    BY DEF SessionInv, KeeperTyped, Owners, ReadSteps, DestroySteps
  <2>2. OneAtATime'
    BY PoolAssumption, <2>1 DEF SessionInv, KeeperTyped, PoolInv, PoolTyped, OneAtATime, Reading,
       ReadSteps, AcquireSteps, ReleaseSteps, Releasers, DestroySteps
  <2>3. ASSUME Calm' PROVE Session'
    <3>1. Calm /\ Session /\ OneAtATime
      BY <2>3 DEF SessionInv, Calm
    <3> QED
      BY PoolAssumption, <3>1, <2>1 DEF SessionInv, KeeperTyped, Owners, Calm, Session, TornDown,
         OneAtATime, Reading, ReadSteps, AcquireSteps, ReleaseSteps, DestroySteps, PoolInv,
         PoolTyped, Chromes, Releasers
  <2>4. ASSUME Calm' PROVE TornDown'
    <3>1. Calm /\ Session /\ OneAtATime /\ TornDown
      BY <2>4 DEF SessionInv, Calm
    <3> QED
      BY PoolAssumption, <3>1, <2>1 DEF SessionInv, KeeperTyped, Calm, Session, TornDown,
         OneAtATime, Reading, ReadSteps, AcquireSteps, ReleaseSteps, DestroySteps, PoolInv,
         PoolTyped, Releasers
  <2> QED
    BY <2>1, <2>2, <2>3, <2>4 DEF SessionInv
<1>2. CASE ReaperWaits(r)
  <2> USE <1>2 DEF ReaperWaits, requests, history, sockets, keeper
  <2>1. KeeperTyped'
    BY DEF SessionInv, KeeperTyped, Owners, ReadSteps, DestroySteps
  <2>2. OneAtATime'
    BY PoolAssumption, <2>1 DEF SessionInv, KeeperTyped, PoolInv, PoolTyped, OneAtATime, Reading,
       ReadSteps, AcquireSteps, ReleaseSteps, Releasers, DestroySteps
  <2>3. ASSUME Calm' PROVE Session'
    <3>1. Calm /\ Session /\ OneAtATime
      BY <2>3 DEF SessionInv, Calm
    <3> QED
      BY PoolAssumption, <3>1, <2>1 DEF SessionInv, KeeperTyped, Owners, Calm, Session, TornDown,
         OneAtATime, Reading, ReadSteps, AcquireSteps, ReleaseSteps, DestroySteps, PoolInv,
         PoolTyped, Chromes, Releasers
  <2>4. ASSUME Calm' PROVE TornDown'
    <3>1. Calm /\ Session /\ OneAtATime /\ TornDown
      BY <2>4 DEF SessionInv, Calm
    <3> QED
      BY PoolAssumption, <3>1, <2>1 DEF SessionInv, KeeperTyped, Calm, Session, TornDown,
         OneAtATime, Reading, ReadSteps, AcquireSteps, ReleaseSteps, DestroySteps, PoolInv,
         PoolTyped, Releasers
  <2> QED
    BY <2>1, <2>2, <2>3, <2>4 DEF SessionInv
<1>3. CASE Forget(r)
  <2> USE <1>3 DEF Forget, requests, history, sockets, keeper
  <2>1. KeeperTyped'
    BY DEF SessionInv, KeeperTyped, Owners, ReadSteps, DestroySteps
  <2>2. OneAtATime'
    BY PoolAssumption, <2>1 DEF SessionInv, KeeperTyped, PoolInv, PoolTyped, OneAtATime, Reading,
       ReadSteps, AcquireSteps, ReleaseSteps, Releasers, DestroySteps
  <2>3. ASSUME Calm' PROVE Session'
    <3>1. Calm /\ Session /\ OneAtATime
      BY <2>3 DEF SessionInv, Calm
    <3> QED
      BY PoolAssumption, <3>1, <2>1 DEF SessionInv, KeeperTyped, Owners, Calm, Session, TornDown,
         OneAtATime, Reading, ReadSteps, AcquireSteps, ReleaseSteps, DestroySteps, PoolInv,
         PoolTyped, Chromes, Releasers
  <2>4. ASSUME Calm' PROVE TornDown'
    <3>1. Calm /\ Session /\ OneAtATime /\ TornDown
      BY <2>4 DEF SessionInv, Calm
    <3> QED
      BY PoolAssumption, <3>1, <2>1 DEF SessionInv, KeeperTyped, Calm, Session, TornDown,
         OneAtATime, Reading, ReadSteps, AcquireSteps, ReleaseSteps, DestroySteps, PoolInv,
         PoolTyped, Releasers
  <2> QED
    BY <2>1, <2>2, <2>3, <2>4 DEF SessionInv
<1> QED
  BY <1>1, <1>2, <1>3 DEF ReaperStep

(* A release: no read is under way.                                        *)
LEMMA ReleaseSession ==
  ASSUME PoolInv, SessionInv, UNCHANGED keeper, NEW d \in Releasers, ReleaseStep(d)
  PROVE  SessionInv'
<1>1. CASE Take(d)
  <2> USE <1>1 DEF Take, RStep, history, sockets, keeper
  <2>1. KeeperTyped'
    BY DEF SessionInv, KeeperTyped, Owners, ReadSteps, DestroySteps
  <2>2. OneAtATime'
    BY PoolAssumption, <2>1 DEF SessionInv, KeeperTyped, PoolInv, PoolTyped, OneAtATime, Reading,
       ReadSteps, AcquireSteps, ReleaseSteps, Releasers, DestroySteps
  <2>3. ASSUME Calm' PROVE Session'
    <3>1. Calm /\ Session /\ OneAtATime
      BY <2>3 DEF SessionInv, Calm
    <3> QED
      BY PoolAssumption, <3>1, <2>1 DEF SessionInv, KeeperTyped, Owners, Calm, Session, TornDown,
         OneAtATime, Reading, ReadSteps, AcquireSteps, ReleaseSteps, DestroySteps, PoolInv,
         PoolTyped, Chromes, Releasers
  <2>4. ASSUME Calm' PROVE TornDown'
    <3>1. Calm /\ Session /\ OneAtATime /\ TornDown
      BY <2>4 DEF SessionInv, Calm
    <3> QED
      BY PoolAssumption, <3>1, <2>1 DEF SessionInv, KeeperTyped, Calm, Session, TornDown,
         OneAtATime, Reading, ReadSteps, AcquireSteps, ReleaseSteps, DestroySteps, PoolInv,
         PoolTyped, Releasers
  <2> QED
    BY <2>1, <2>2, <2>3, <2>4 DEF SessionInv
<1>2. CASE Kill(d)
  <2> USE <1>2 DEF Kill, RStep, history, sockets, keeper
  <2>1. KeeperTyped'
    BY DEF SessionInv, KeeperTyped, Owners, ReadSteps, DestroySteps
  <2>2. OneAtATime'
    BY PoolAssumption, <2>1 DEF SessionInv, KeeperTyped, PoolInv, PoolTyped, OneAtATime, Reading,
       ReadSteps, AcquireSteps, ReleaseSteps, Releasers, DestroySteps
  <2>3. ASSUME Calm' PROVE Session'
    <3>1. Calm /\ Session /\ OneAtATime
      BY <2>3 DEF SessionInv, Calm
    <3> QED
      BY PoolAssumption, <3>1, <2>1 DEF SessionInv, KeeperTyped, Owners, Calm, Session, TornDown,
         OneAtATime, Reading, ReadSteps, AcquireSteps, ReleaseSteps, DestroySteps, PoolInv,
         PoolTyped, Chromes, Releasers
  <2>4. ASSUME Calm' PROVE TornDown'
    <3>1. Calm /\ Session /\ OneAtATime /\ TornDown
      BY <2>4 DEF SessionInv, Calm
    <3> QED
      BY PoolAssumption, <3>1, <2>1 DEF SessionInv, KeeperTyped, Calm, Session, TornDown,
         OneAtATime, Reading, ReadSteps, AcquireSteps, ReleaseSteps, DestroySteps, PoolInv,
         PoolTyped, Releasers
  <2> QED
    BY <2>1, <2>2, <2>3, <2>4 DEF SessionInv
<1>3. CASE Close(d)
  <2> USE <1>3 DEF Close, RStep, history, sockets, keeper
  <2>1. KeeperTyped'
    BY DEF SessionInv, KeeperTyped, Owners, ReadSteps, DestroySteps
  <2>2. OneAtATime'
    BY PoolAssumption, <2>1 DEF SessionInv, KeeperTyped, PoolInv, PoolTyped, OneAtATime, Reading,
       ReadSteps, AcquireSteps, ReleaseSteps, Releasers, DestroySteps
  <2>3. ASSUME Calm' PROVE Session'
    <3>1. Calm /\ Session /\ TornDown /\ OneAtATime /\ d # Shutdown
      BY <2>3 DEF SessionInv, Calm, PoolInv, Stopping
    <3>2. destroy[d] = "wait" /\ ~exists
      BY <3>1 DEF OneAtATime, ReleaseSteps, DestroySteps, Releasers
    <3>3. instances = None
      <4>1. \A e \in Releases : e # d => destroy[e] \notin DestroySteps /\ release[e] \notin ReleaseSteps
        BY <3>1, <3>2 DEF OneAtATime, DestroySteps, Releasers
      <4> QED
        BY <3>1, <3>2, <4>1 DEF TornDown, DestroySteps, ReleaseSteps
    <3>4. \A r \in Requests : ~Reading(r) /\ acquire[r] \notin AcquireSteps
      BY <3>1, <3>2 DEF OneAtATime, Calm, Reading, ReadSteps
    <3> QED
      BY <3>1, <3>3, <3>4 DEF Session, AcquireSteps, Reading, ReadSteps
  <2>4. ASSUME Calm' PROVE TornDown'
    <3>1. Calm /\ Session /\ OneAtATime /\ TornDown
      BY <2>4 DEF SessionInv, Calm
    <3> QED
      BY PoolAssumption, <3>1, <2>1 DEF SessionInv, KeeperTyped, Calm, Session, TornDown,
         OneAtATime, Reading, ReadSteps, AcquireSteps, ReleaseSteps, DestroySteps, PoolInv,
         PoolTyped, Releasers
  <2> QED
    BY <2>1, <2>2, <2>3, <2>4 DEF SessionInv
<1>4. CASE RemovePath(d)
  <2> USE <1>4 DEF RemovePath, RStep, history, sockets, keeper
  <2>1. KeeperTyped'
    BY DEF SessionInv, KeeperTyped, Owners, ReadSteps, DestroySteps
  <2>2. OneAtATime'
    BY PoolAssumption, <2>1 DEF SessionInv, KeeperTyped, PoolInv, PoolTyped, OneAtATime, Reading,
       ReadSteps, AcquireSteps, ReleaseSteps, Releasers, DestroySteps
  <2>3. ASSUME Calm' PROVE Session'
    <3>1. Calm /\ Session /\ TornDown /\ OneAtATime /\ d # Shutdown
      BY <2>3 DEF SessionInv, Calm, PoolInv, Stopping
    <3>2. destroy[d] = "wait" /\ ~exists
      BY <3>1 DEF OneAtATime, ReleaseSteps, DestroySteps, Releasers
    <3>3. instances = None
      <4>1. \A e \in Releases : e # d => destroy[e] \notin DestroySteps /\ release[e] \notin ReleaseSteps
        BY <3>1, <3>2 DEF OneAtATime, DestroySteps, Releasers
      <4> QED
        BY <3>1, <3>2, <4>1 DEF TornDown, DestroySteps, ReleaseSteps
    <3>4. \A r \in Requests : ~Reading(r) /\ acquire[r] \notin AcquireSteps
      BY <3>1, <3>2 DEF OneAtATime, Calm, Reading, ReadSteps
    <3> QED
      BY <3>1, <3>3, <3>4 DEF Session, AcquireSteps, Reading, ReadSteps
  <2>4. ASSUME Calm' PROVE TornDown'
    <3>1. Calm /\ Session /\ OneAtATime /\ TornDown
      BY <2>4 DEF SessionInv, Calm
    <3> QED
      BY PoolAssumption, <3>1, <2>1 DEF SessionInv, KeeperTyped, Calm, Session, TornDown,
         OneAtATime, Reading, ReadSteps, AcquireSteps, ReleaseSteps, DestroySteps, PoolInv,
         PoolTyped, Releasers
  <2> QED
    BY <2>1, <2>2, <2>3, <2>4 DEF SessionInv
<1> QED
  BY <1>1, <1>2, <1>3, <1>4 DEF ReleaseStep

(* The end of the server ends the calm.                                    *)
LEMMA ServerSession ==
  ASSUME PoolInv, SessionInv, UNCHANGED keeper, Stop \/ ReleaseAll \/ Exit
  PROVE  SessionInv'
<1>1. CASE Stop
  <2> USE <1>1 DEF Stop, requests, history, sockets, keeper
  <2>1. KeeperTyped'
    BY DEF SessionInv, KeeperTyped, Owners, ReadSteps, DestroySteps
  <2>2. OneAtATime'
    BY PoolAssumption, <2>1 DEF SessionInv, KeeperTyped, PoolInv, PoolTyped, OneAtATime, Reading,
       ReadSteps, AcquireSteps, ReleaseSteps, Releasers, DestroySteps
  <2>3. ASSUME Calm' PROVE Session'
    <3>1. Calm /\ Session /\ OneAtATime
      BY <2>3 DEF SessionInv, Calm
    <3> QED
      BY PoolAssumption, <3>1, <2>1 DEF SessionInv, KeeperTyped, Owners, Calm, Session, TornDown,
         OneAtATime, Reading, ReadSteps, AcquireSteps, ReleaseSteps, DestroySteps, PoolInv,
         PoolTyped, Chromes, Releasers
  <2>4. ASSUME Calm' PROVE TornDown'
    <3>1. Calm /\ Session /\ OneAtATime /\ TornDown
      BY <2>4 DEF SessionInv, Calm
    <3> QED
      BY PoolAssumption, <3>1, <2>1 DEF SessionInv, KeeperTyped, Calm, Session, TornDown,
         OneAtATime, Reading, ReadSteps, AcquireSteps, ReleaseSteps, DestroySteps, PoolInv,
         PoolTyped, Releasers
  <2> QED
    BY <2>1, <2>2, <2>3, <2>4 DEF SessionInv
<1>2. CASE ReleaseAll
  <2> USE <1>2 DEF ReleaseAll, keeper, sockets, history
  <2>1. KeeperTyped'
    BY DEF SessionInv, KeeperTyped, Owners, ReadSteps, DestroySteps
  <2>2. OneAtATime'
    BY PoolAssumption, <2>1 DEF SessionInv, KeeperTyped, PoolInv, PoolTyped, OneAtATime, Reading,
       ReadSteps, AcquireSteps, ReleaseSteps, Releasers, DestroySteps
  <2>3. ASSUME Calm' PROVE Session'
    <3>1. Calm /\ Session /\ OneAtATime
      BY <2>3 DEF SessionInv, Calm
    <3> QED
      BY PoolAssumption, <3>1, <2>1 DEF SessionInv, KeeperTyped, Owners, Calm, Session, TornDown,
         OneAtATime, Reading, ReadSteps, AcquireSteps, ReleaseSteps, DestroySteps, PoolInv,
         PoolTyped, Chromes, Releasers
  <2>4. ASSUME Calm' PROVE TornDown'
    <3>1. Calm /\ Session /\ OneAtATime /\ TornDown
      BY <2>4 DEF SessionInv, Calm
    <3> QED
      BY PoolAssumption, <3>1, <2>1 DEF SessionInv, KeeperTyped, Calm, Session, TornDown,
         OneAtATime, Reading, ReadSteps, AcquireSteps, ReleaseSteps, DestroySteps, PoolInv,
         PoolTyped, Releasers
  <2> QED
    BY <2>1, <2>2, <2>3, <2>4 DEF SessionInv
<1>3. CASE Exit
  <2> USE <1>3 DEF Exit, keeper, sockets, history
  <2>1. KeeperTyped'
    BY DEF SessionInv, KeeperTyped, Owners, ReadSteps, DestroySteps
  <2>2. OneAtATime'
    BY PoolAssumption, <2>1 DEF SessionInv, KeeperTyped, PoolInv, PoolTyped, OneAtATime, Reading,
       ReadSteps, AcquireSteps, ReleaseSteps, Releasers, DestroySteps
  <2>3. ASSUME Calm' PROVE Session'
    <3>1. Calm /\ Session /\ OneAtATime
      BY <2>3 DEF SessionInv, Calm
    <3> QED
      BY PoolAssumption, <3>1, <2>1 DEF SessionInv, KeeperTyped, Owners, Calm, Session, TornDown,
         OneAtATime, Reading, ReadSteps, AcquireSteps, ReleaseSteps, DestroySteps, PoolInv,
         PoolTyped, Chromes, Releasers
  <2>4. ASSUME Calm' PROVE TornDown'
    <3>1. Calm /\ Session /\ OneAtATime /\ TornDown
      BY <2>4 DEF SessionInv, Calm
    <3> QED
      BY PoolAssumption, <3>1, <2>1 DEF SessionInv, KeeperTyped, Calm, Session, TornDown,
         OneAtATime, Reading, ReadSteps, AcquireSteps, ReleaseSteps, DestroySteps, PoolInv,
         PoolTyped, Releasers
  <2> QED
    BY <2>1, <2>2, <2>3, <2>4 DEF SessionInv
<1> QED
  BY <1>1, <1>2, <1>3

(* A page read, up to its session.                                         *)
LEMMA ReadSession ==
  ASSUME PoolInv, SessionInv, NEW r \in Requests, BeginRead(r) \/ ReadOn(r)
  PROVE  SessionInv'
<1>1. CASE BeginRead(r)
  <2> USE <1>1 DEF BeginRead, poolVars, requests, history, sockets
  <2>1. KeeperTyped'
    BY DEF SessionInv, KeeperTyped, Owners, ReadSteps, DestroySteps
  <2>2. OneAtATime'
    BY PoolAssumption, <2>1 DEF SessionInv, KeeperTyped, PoolInv, PoolTyped, OneAtATime, Reading,
       ReadSteps, AcquireSteps, ReleaseSteps, Releasers, DestroySteps
  <2>3. ASSUME Calm' PROVE Session'
    <3>1. Calm /\ Session /\ OneAtATime
      BY <2>3 DEF SessionInv, Calm
    <3> QED
      BY PoolAssumption, <3>1, <2>1 DEF SessionInv, KeeperTyped, Owners, Calm, Session, TornDown,
         OneAtATime, Reading, ReadSteps, AcquireSteps, ReleaseSteps, DestroySteps, PoolInv,
         PoolTyped, Chromes, Releasers
  <2>4. ASSUME Calm' PROVE TornDown'
    <3>1. Calm /\ Session /\ OneAtATime /\ TornDown
      BY <2>4 DEF SessionInv, Calm
    <3> QED
      BY PoolAssumption, <3>1, <2>1 DEF SessionInv, KeeperTyped, Calm, Session, TornDown,
         OneAtATime, Reading, ReadSteps, AcquireSteps, ReleaseSteps, DestroySteps, PoolInv,
         PoolTyped, Releasers
  <2> QED
    BY <2>1, <2>2, <2>3, <2>4 DEF SessionInv
<1>2. CASE LookupSession(r)
  <2> USE <1>2 DEF LookupSession, ReadStep, poolVars, requests, history, sockets
  <2>1. KeeperTyped'
    BY DEF SessionInv, KeeperTyped, Owners, ReadSteps, DestroySteps
  <2>2. OneAtATime'
    BY PoolAssumption, <2>1 DEF SessionInv, KeeperTyped, PoolInv, PoolTyped, OneAtATime, Reading,
       ReadSteps, AcquireSteps, ReleaseSteps, Releasers, DestroySteps
  <2>3. ASSUME Calm' PROVE Session'
    <3>1. Calm /\ Session /\ OneAtATime
      BY <2>3 DEF SessionInv, Calm
    <3> QED
      BY PoolAssumption, <3>1, <2>1 DEF SessionInv, KeeperTyped, Owners, Calm, Session, TornDown,
         OneAtATime, Reading, ReadSteps, AcquireSteps, ReleaseSteps, DestroySteps, PoolInv,
         PoolTyped, Chromes, Releasers
  <2>4. ASSUME Calm' PROVE TornDown'
    <3>1. Calm /\ Session /\ OneAtATime /\ TornDown
      BY <2>4 DEF SessionInv, Calm
    <3> QED
      BY PoolAssumption, <3>1, <2>1 DEF SessionInv, KeeperTyped, Calm, Session, TornDown,
         OneAtATime, Reading, ReadSteps, AcquireSteps, ReleaseSteps, DestroySteps, PoolInv,
         PoolTyped, Releasers
  <2> QED
    BY <2>1, <2>2, <2>3, <2>4 DEF SessionInv
<1>3. CASE AcquireProxy(r)
  <2> USE <1>3 DEF AcquireProxy, ReadStep, poolVars, requests, history, sockets
  <2>1. KeeperTyped'
    BY DEF SessionInv, KeeperTyped, Owners, ReadSteps, DestroySteps
  <2>2. OneAtATime'
    BY PoolAssumption, <2>1 DEF SessionInv, KeeperTyped, PoolInv, PoolTyped, OneAtATime, Reading,
       ReadSteps, AcquireSteps, ReleaseSteps, Releasers, DestroySteps
  <2>3. ASSUME Calm' PROVE Session'
    <3>1. Calm /\ Session /\ OneAtATime
      BY <2>3 DEF SessionInv, Calm
    <3> QED
      BY PoolAssumption, <3>1, <2>1 DEF SessionInv, KeeperTyped, Owners, Calm, Session, TornDown,
         OneAtATime, Reading, ReadSteps, AcquireSteps, ReleaseSteps, DestroySteps, PoolInv,
         PoolTyped, Chromes, Releasers
  <2>4. ASSUME Calm' PROVE TornDown'
    <3>1. Calm /\ Session /\ OneAtATime /\ TornDown
      BY <2>4 DEF SessionInv, Calm
    <3> QED
      BY PoolAssumption, <3>1, <2>1 DEF SessionInv, KeeperTyped, Calm, Session, TornDown,
         OneAtATime, Reading, ReadSteps, AcquireSteps, ReleaseSteps, DestroySteps, PoolInv,
         PoolTyped, Releasers
  <2> QED
    BY <2>1, <2>2, <2>3, <2>4 DEF SessionInv
<1>4. CASE Dial(r)
  <2> USE <1>4 DEF Dial, ReadStep, poolVars, requests, history, sockets
  <2>1. KeeperTyped'
    BY DEF SessionInv, KeeperTyped, Owners, ReadSteps, DestroySteps
  <2>2. OneAtATime'
    BY PoolAssumption, <2>1 DEF SessionInv, KeeperTyped, PoolInv, PoolTyped, OneAtATime, Reading,
       ReadSteps, AcquireSteps, ReleaseSteps, Releasers, DestroySteps
  <2>3. ASSUME Calm' PROVE Session'
    <3>1. Calm /\ Session /\ OneAtATime
      BY <2>3 DEF SessionInv, Calm
    <3> QED
      BY PoolAssumption, <3>1, <2>1 DEF SessionInv, KeeperTyped, Owners, Calm, Session, TornDown,
         OneAtATime, Reading, ReadSteps, AcquireSteps, ReleaseSteps, DestroySteps, PoolInv,
         PoolTyped, Chromes, Releasers
  <2>4. ASSUME Calm' PROVE TornDown'
    <3>1. Calm /\ Session /\ OneAtATime /\ TornDown
      BY <2>4 DEF SessionInv, Calm
    <3> QED
      BY PoolAssumption, <3>1, <2>1 DEF SessionInv, KeeperTyped, Calm, Session, TornDown,
         OneAtATime, Reading, ReadSteps, AcquireSteps, ReleaseSteps, DestroySteps, PoolInv,
         PoolTyped, Releasers
  <2> QED
    BY <2>1, <2>2, <2>3, <2>4 DEF SessionInv
<1>5. CASE Answered(r)
  <2> USE <1>5 DEF Answered, ReadStep, poolVars, requests, history, sockets
  <2>1. KeeperTyped'
    BY DEF SessionInv, KeeperTyped, Owners, ReadSteps, DestroySteps
  <2>2. OneAtATime'
    BY PoolAssumption, <2>1 DEF SessionInv, KeeperTyped, PoolInv, PoolTyped, OneAtATime, Reading,
       ReadSteps, AcquireSteps, ReleaseSteps, Releasers, DestroySteps
  <2>3. ASSUME Calm' PROVE Session'
    <3>1. Calm /\ Session /\ OneAtATime
      BY <2>3 DEF SessionInv, Calm
    <3> QED
      BY PoolAssumption, <3>1, <2>1 DEF SessionInv, KeeperTyped, Owners, Calm, Session, TornDown,
         OneAtATime, Reading, ReadSteps, AcquireSteps, ReleaseSteps, DestroySteps, PoolInv,
         PoolTyped, Chromes, Releasers
  <2>4. ASSUME Calm' PROVE TornDown'
    <3>1. Calm /\ Session /\ OneAtATime /\ TornDown
      BY <2>4 DEF SessionInv, Calm
    <3> QED
      BY PoolAssumption, <3>1, <2>1 DEF SessionInv, KeeperTyped, Calm, Session, TornDown,
         OneAtATime, Reading, ReadSteps, AcquireSteps, ReleaseSteps, DestroySteps, PoolInv,
         PoolTyped, Releasers
  <2> QED
    BY <2>1, <2>2, <2>3, <2>4 DEF SessionInv
<1>6. CASE TimeOut(r)
  <2> USE <1>6 DEF TimeOut, ReadStep, poolVars, requests, history, sockets
  <2>1. KeeperTyped'
    BY DEF SessionInv, KeeperTyped, Owners, ReadSteps, DestroySteps
  <2>2. OneAtATime'
    BY PoolAssumption, <2>1 DEF SessionInv, KeeperTyped, PoolInv, PoolTyped, OneAtATime, Reading,
       ReadSteps, AcquireSteps, ReleaseSteps, Releasers, DestroySteps
  <2>3. ~Calm'
    BY DEF Calm
  <2> QED
    BY <2>1, <2>2, <2>3 DEF SessionInv
<1>7. CASE GiveUp(r)
  <2> USE <1>7 DEF GiveUp, ReadStep, poolVars, requests, history, sockets
  <2>1. KeeperTyped'
    BY DEF SessionInv, KeeperTyped, Owners, ReadSteps, DestroySteps
  <2>2. OneAtATime'
    BY PoolAssumption, <2>1 DEF SessionInv, KeeperTyped, PoolInv, PoolTyped, OneAtATime, Reading,
       ReadSteps, AcquireSteps, ReleaseSteps, Releasers, DestroySteps
  <2>3. ASSUME Calm' PROVE Session'
    <3>1. Calm /\ Session /\ OneAtATime
      BY <2>3 DEF SessionInv, Calm
    <3> QED
      BY PoolAssumption, <3>1, <2>1 DEF SessionInv, KeeperTyped, Owners, Calm, Session, TornDown,
         OneAtATime, Reading, ReadSteps, AcquireSteps, ReleaseSteps, DestroySteps, PoolInv,
         PoolTyped, Chromes, Releasers
  <2>4. ASSUME Calm' PROVE TornDown'
    <3>1. Calm /\ Session /\ OneAtATime /\ TornDown
      BY <2>4 DEF SessionInv, Calm
    <3> QED
      BY PoolAssumption, <3>1, <2>1 DEF SessionInv, KeeperTyped, Calm, Session, TornDown,
         OneAtATime, Reading, ReadSteps, AcquireSteps, ReleaseSteps, DestroySteps, PoolInv,
         PoolTyped, Releasers
  <2> QED
    BY <2>1, <2>2, <2>3, <2>4 DEF SessionInv
<1>8. CASE Store(r)
  <2> USE <1>8 DEF Store, ReadStep, poolVars, requests, history, sockets
  <2>1. KeeperTyped'
    BY DEF SessionInv, KeeperTyped, Owners, ReadSteps, DestroySteps
  <2>2. OneAtATime'
    BY PoolAssumption, <2>1 DEF SessionInv, KeeperTyped, PoolInv, PoolTyped, OneAtATime, Reading,
       ReadSteps, AcquireSteps, ReleaseSteps, Releasers, DestroySteps
  <2>3. ASSUME Calm' PROVE Session'
    <3>1. Calm /\ Session /\ OneAtATime
      BY <2>3 DEF SessionInv, Calm
    <3> QED
      BY PoolAssumption, <3>1, <2>1 DEF SessionInv, KeeperTyped, Owners, Calm, Session, TornDown,
         OneAtATime, Reading, ReadSteps, AcquireSteps, ReleaseSteps, DestroySteps, PoolInv,
         PoolTyped, Chromes, Releasers
  <2>4. ASSUME Calm' PROVE TornDown'
    <3>1. Calm /\ Session /\ OneAtATime /\ TornDown
      BY <2>4 DEF SessionInv, Calm
    <3> QED
      BY PoolAssumption, <3>1, <2>1 DEF SessionInv, KeeperTyped, Calm, Session, TornDown,
         OneAtATime, Reading, ReadSteps, AcquireSteps, ReleaseSteps, DestroySteps, PoolInv,
         PoolTyped, Releasers
  <2> QED
    BY <2>1, <2>2, <2>3, <2>4 DEF SessionInv
<1> QED
  BY <1>1, <1>2, <1>3, <1>4, <1>5, <1>6, <1>7, <1>8 DEF ReadOn

(* A destroy takes the session apart.                                      *)
LEMMA DestroySession ==
  ASSUME PoolInv, SessionInv, NEW d \in Releases, BeginDestroy(d) \/ DestroyOn(d)
  PROVE  SessionInv'
<1>1. CASE BeginDestroy(d)
  <2> USE <1>1 DEF BeginDestroy, poolVars, requests, history, sockets
  <2>1. KeeperTyped'
    BY DEF SessionInv, KeeperTyped, Owners, ReadSteps, DestroySteps
  <2>2. OneAtATime'
    <3>1. \A e \in Releases : destroy[e] \notin DestroySteps
      BY DEF SessionInv, OneAtATime
    <3>2. \A e \in Releases : e # d => destroy'[e] = destroy[e]
      BY DEF SessionInv, KeeperTyped
    <3>3. ~raced' => ~raced /\ \A r \in Requests : ~Reading(r)
      BY DEF SessionInv, KeeperTyped
    <3>4. \A e \in Releases : release'[e] \in ReleaseSteps => destroy'[e] = "wait"
      BY <3>1, <3>2 DEF SessionInv, OneAtATime, DestroySteps
    <3>5. ~raced' => \A r \in Requests : ~Reading(r)' /\ acquire'[r] \notin AcquireSteps
      <4>1. read' = read /\ acquire' = acquire
        OBVIOUS
      <4> QED
        BY <3>3, <4>1 DEF SessionInv, OneAtATime, Reading, ReadSteps
    <3> QED
      BY <3>1, <3>2, <3>4, <3>5 DEF OneAtATime, DestroySteps
  <2>3. ASSUME Calm' PROVE Session'
    <3>1. Calm /\ Session /\ OneAtATime
      BY <2>3 DEF SessionInv, Calm
    <3> QED
      BY PoolAssumption, <3>1, <2>1 DEF SessionInv, KeeperTyped, Owners, Calm, Session, TornDown,
         OneAtATime, Reading, ReadSteps, AcquireSteps, ReleaseSteps, DestroySteps, PoolInv,
         PoolTyped, Chromes, Releasers
  <2>4. ASSUME Calm' PROVE TornDown'
    <3>1. Calm /\ Session /\ OneAtATime /\ TornDown
      BY <2>4 DEF SessionInv, Calm
    <3> QED
      BY PoolAssumption, <3>1, <2>1 DEF SessionInv, KeeperTyped, Calm, Session, TornDown,
         OneAtATime, Reading, ReadSteps, AcquireSteps, ReleaseSteps, DestroySteps, PoolInv,
         PoolTyped, Releasers
  <2> QED
    BY <2>1, <2>2, <2>3, <2>4 DEF SessionInv
<1>2. CASE ForgetSession(d)
  <2> USE <1>2 DEF ForgetSession, DestroyStep, poolVars, requests, history, sockets
  <2>1. KeeperTyped'
    BY DEF SessionInv, KeeperTyped, Owners, ReadSteps, DestroySteps
  <2>2. OneAtATime'
    BY PoolAssumption, <2>1 DEF SessionInv, KeeperTyped, PoolInv, PoolTyped, OneAtATime, Reading,
       ReadSteps, AcquireSteps, ReleaseSteps, Releasers, DestroySteps
  <2>3. ASSUME Calm' PROVE Session'
    <3>1. Calm /\ Session /\ OneAtATime
      BY <2>3 DEF SessionInv, Calm
    <3> QED
      BY PoolAssumption, <3>1, <2>1 DEF SessionInv, KeeperTyped, Owners, Calm, Session, TornDown,
         OneAtATime, Reading, ReadSteps, AcquireSteps, ReleaseSteps, DestroySteps, PoolInv,
         PoolTyped, Chromes, Releasers
  <2>4. ASSUME Calm' PROVE TornDown'
    <3>1. Calm /\ Session /\ OneAtATime /\ TornDown
      BY <2>4 DEF SessionInv, Calm
    <3> QED
      BY PoolAssumption, <3>1, <2>1 DEF SessionInv, KeeperTyped, Calm, Session, TornDown,
         OneAtATime, Reading, ReadSteps, AcquireSteps, ReleaseSteps, DestroySteps, PoolInv,
         PoolTyped, Releasers
  <2> QED
    BY <2>1, <2>2, <2>3, <2>4 DEF SessionInv
<1>3. CASE ReleaseProxy(d)
  <2> USE <1>3 DEF ReleaseProxy, DestroyStep, poolVars, requests, history, sockets
  <2>1. KeeperTyped'
    BY DEF SessionInv, KeeperTyped, Owners, ReadSteps, DestroySteps
  <2>2. OneAtATime'
    BY PoolAssumption, <2>1 DEF SessionInv, KeeperTyped, PoolInv, PoolTyped, OneAtATime, Reading,
       ReadSteps, AcquireSteps, ReleaseSteps, Releasers, DestroySteps
  <2>3. ASSUME Calm' PROVE Session'
    <3>1. Calm /\ Session /\ OneAtATime
      BY <2>3 DEF SessionInv, Calm
    <3> QED
      BY PoolAssumption, <3>1, <2>1 DEF SessionInv, KeeperTyped, Owners, Calm, Session, TornDown,
         OneAtATime, Reading, ReadSteps, AcquireSteps, ReleaseSteps, DestroySteps, PoolInv,
         PoolTyped, Chromes, Releasers
  <2>4. ASSUME Calm' PROVE TornDown'
    <3>1. Calm /\ Session /\ OneAtATime /\ TornDown
      BY <2>4 DEF SessionInv, Calm
    <3> QED
      BY PoolAssumption, <3>1, <2>1 DEF SessionInv, KeeperTyped, Calm, Session, TornDown,
         OneAtATime, Reading, ReadSteps, AcquireSteps, ReleaseSteps, DestroySteps, PoolInv,
         PoolTyped, Releasers
  <2> QED
    BY <2>1, <2>2, <2>3, <2>4 DEF SessionInv
<1>4. CASE RequestRelease(d)
  <2> USE <1>4 DEF RequestRelease, DestroyStep, poolVars, requests, history, sockets
  <2>1. KeeperTyped'
    BY DEF SessionInv, KeeperTyped, Owners, ReadSteps, DestroySteps
  <2>2. OneAtATime'
    BY PoolAssumption, <2>1 DEF SessionInv, KeeperTyped, PoolInv, PoolTyped, OneAtATime, Reading,
       ReadSteps, AcquireSteps, ReleaseSteps, Releasers, DestroySteps
  <2>3. ASSUME Calm' PROVE Session'
    <3>1. Calm /\ Session /\ OneAtATime
      BY <2>3 DEF SessionInv, Calm
    <3> QED
      BY PoolAssumption, <3>1, <2>1 DEF SessionInv, KeeperTyped, Owners, Calm, Session, TornDown,
         OneAtATime, Reading, ReadSteps, AcquireSteps, ReleaseSteps, DestroySteps, PoolInv,
         PoolTyped, Chromes, Releasers
  <2>4. ASSUME Calm' PROVE TornDown'
    <3>1. Calm /\ Session /\ OneAtATime /\ TornDown
      BY <2>4 DEF SessionInv, Calm
    <3> QED
      BY PoolAssumption, <3>1, <2>1 DEF SessionInv, KeeperTyped, Calm, Session, TornDown,
         OneAtATime, Reading, ReadSteps, AcquireSteps, ReleaseSteps, DestroySteps, PoolInv,
         PoolTyped, Releasers
  <2> QED
    BY <2>1, <2>2, <2>3, <2>4 DEF SessionInv
<1>5. CASE Released(d)
  <2> USE <1>5 DEF Released, DestroyStep, poolVars, requests, history, sockets
  <2>1. KeeperTyped'
    BY DEF SessionInv, KeeperTyped, Owners, ReadSteps, DestroySteps
  <2>2. OneAtATime'
    BY PoolAssumption, <2>1 DEF SessionInv, KeeperTyped, PoolInv, PoolTyped, OneAtATime, Reading,
       ReadSteps, AcquireSteps, ReleaseSteps, Releasers, DestroySteps
  <2>3. ASSUME Calm' PROVE Session'
    <3>1. Calm /\ Session /\ OneAtATime
      BY <2>3 DEF SessionInv, Calm
    <3> QED
      BY PoolAssumption, <3>1, <2>1 DEF SessionInv, KeeperTyped, Owners, Calm, Session, TornDown,
         OneAtATime, Reading, ReadSteps, AcquireSteps, ReleaseSteps, DestroySteps, PoolInv,
         PoolTyped, Chromes, Releasers
  <2>4. ASSUME Calm' PROVE TornDown'
    <3>1. Calm /\ Session /\ OneAtATime /\ TornDown
      BY <2>4 DEF SessionInv, Calm
    <3> QED
      BY PoolAssumption, <3>1, <2>1 DEF SessionInv, KeeperTyped, Calm, Session, TornDown,
         OneAtATime, Reading, ReadSteps, AcquireSteps, ReleaseSteps, DestroySteps, PoolInv,
         PoolTyped, Releasers
  <2> QED
    BY <2>1, <2>2, <2>3, <2>4 DEF SessionInv
<1> QED
  BY <1>1, <1>2, <1>3, <1>4, <1>5 DEF DestroyOn

(* The agent's next Ward finds nothing of the last one's session.          *)
LEMMA RecreateSession == ASSUME PoolInv, SessionInv, Recreate PROVE SessionInv'
<1> USE DEF Recreate, poolVars, requests, history, sockets
<1>1. KeeperTyped'
  BY DEF SessionInv, KeeperTyped, Owners, ReadSteps, DestroySteps
<1>2. OneAtATime'
  BY PoolAssumption, <1>1 DEF SessionInv, KeeperTyped, PoolInv, PoolTyped, OneAtATime, Reading,
     ReadSteps, AcquireSteps, ReleaseSteps, Releasers, DestroySteps
<1>3. ASSUME Calm' PROVE Session'
  <2>1. Calm /\ Session /\ OneAtATime
    BY <1>3 DEF SessionInv, Calm
  <2> QED
    BY PoolAssumption, <2>1, <1>1 DEF SessionInv, KeeperTyped, Owners, Calm, Session, TornDown,
       OneAtATime, Reading, ReadSteps, AcquireSteps, ReleaseSteps, DestroySteps, PoolInv,
       PoolTyped, Chromes, Releasers
<1>4. ASSUME Calm' PROVE TornDown'
  <2>1. Calm /\ Session /\ OneAtATime /\ TornDown
    BY <1>4 DEF SessionInv, Calm
  <2> QED
    BY PoolAssumption, <2>1, <1>1 DEF SessionInv, KeeperTyped, Calm, Session, TornDown,
       OneAtATime, Reading, ReadSteps, AcquireSteps, ReleaseSteps, DestroySteps, PoolInv,
       PoolTyped, Releasers
<1> QED
  BY <1>1, <1>2, <1>3, <1>4 DEF SessionInv

-----------------------------------------------------------------------------
(* The theorems.                                                           *)

BInv == PoolInv /\ Sockets /\ SessionInv

(* Every step keeps the invariant.                                         *)
LEMMA StepInv == BInv /\ [Next]_vars => BInv'
<1> SUFFICES ASSUME BInv, [Next]_vars PROVE BInv'
  OBVIOUS
<1> USE DEF BInv
<1>1. ASSUME PoolNext, UNCHANGED keeper PROVE BInv'
  <2>0. Sockets'
    BY <1>1, PoolSockets
  <2>1. read' = read
    BY <1>1 DEF keeper
  <2>2. ASSUME NEW r \in Requests, AcquireStep(r) PROVE BInv'
    BY <1>1, <2>0, <2>1, <2>2, AcquireInv, AcquireSession
  <2>3. ASSUME NEW r \in Requests, ReaperStep(r) \/ ChromeExits(r) PROVE BInv'
    BY <1>1, <2>0, <2>1, <2>3, ReaperInv, ReaperSession
  <2>4. ASSUME NEW d \in Releasers, ReleaseStep(d) PROVE BInv'
    BY <1>1, <2>0, <2>1, <2>4, ReleaseInv, ReleaseSession
  <2>5. CASE Stop \/ ReleaseAll \/ Exit
    BY <1>1, <2>0, <2>1, <2>5, ServerInv, ServerSession
  <2> QED
    BY <1>1, <2>2, <2>3, <2>4, <2>5 DEF PoolNext
<1>2. ASSUME NEW r \in Requests, BeginRead(r) \/ ReadOn(r) PROVE BInv'
  BY <1>2, KeeperStepPool, KeeperSockets, ReadSession
<1>3. ASSUME NEW d \in Releases, BeginDestroy(d) \/ DestroyOn(d) PROVE BInv'
  BY <1>3, KeeperStepPool, KeeperSockets, DestroySession
<1>4. CASE Recreate
  BY <1>4, KeeperStepPool, KeeperSockets, RecreateSession
<1>5. CASE UNCHANGED vars
  BY <1>5 DEF vars, poolVars, requests, history, sockets, keeper, PoolInv, PoolTyped, Chromes,
     Stopping, ChromeAccounted, Running, Sockets, SessionInv, KeeperTyped, OneAtATime, Calm, Session,
     TornDown, Reading
<1> QED
  BY <1>1, <1>2, <1>3, <1>4, <1>5 DEF Next

(* The invariant holds in every reachable state.                           *)
THEOREM Invariance == Spec => []BInv
<1>1. Init => BInv
  BY PoolInitInv, SessionInitInv, PoolAssumption DEF BInv, Init, PoolInit, Sockets
<1> QED
  BY <1>1, StepInv, PTL DEF Spec

(* Whatever requests, exits and shutdowns overlap, a running Chrome is     *)
(* somebody's to kill, was replaced, or was in flight at chromed's exit    *)
(* (manager.Acquire, Release, ReleaseAll).                                 *)
THEOREM NoChromeLost == Spec => []ChromeAccounted
<1>1. BInv => ChromeAccounted
  BY DEF BInv, PoolInv
<1> QED
  BY <1>1, Invariance, PTL

(* The reaper of an earlier Chrome never removes the agent's instance      *)
(* (manager.reap compares processes).                                      *)
THEOREM ReaperIsOwn == Spec => OnlyOwnReaped
<1>1. ASSUME BInv, [Next]_vars
      PROVE  [\A r \in Requests : instances = r /\ instances' # r =>
                \/ chrome[r] = "reaped" \/ r \in replaced'
                \/ server' = "exited"
                \/ \E d \in Releasers : taken'[d] = r]_poolVars
  <2> SUFFICES ASSUME NEW r \in Requests, instances = r, instances' # r
               PROVE  \/ chrome[r] = "reaped" \/ r \in replaced'
                      \/ server' = "exited"
                      \/ \E d \in Releasers : taken'[d] = r
    OBVIOUS
  <2>1. \/ \E s \in Requests : AcquireStep(s) \/ ReaperStep(s)
        \/ \E d \in Releasers : ReleaseStep(d)
        \/ Exit
    BY <1>1 DEF Next, PoolNext, BeginRead, ReadOn, BeginDestroy, DestroyOn, Recreate,
       LookupSession, AcquireProxy,
       Dial, Answered, TimeOut, GiveUp, Store, ForgetSession, ReleaseProxy, RequestRelease, Released, vars,
       poolVars, ChromeExits, Stop, ReleaseAll
  <2>2. ASSUME NEW s \in Requests, AcquireStep(s) \/ ReaperStep(s)
        PROVE  chrome[r] = "reaped" \/ r \in replaced'
    <3>1. Insert(s) \/ Forget(s)
      BY <2>2 DEF AcquireStep, ReaperStep, Lookup, ClearPath, Listen, Start, WaitReady,
         CloseUnready,
         KillUnready, ReaperWaits
    <3>2. CASE Insert(s)
      BY PoolAssumption, <3>2 DEF Insert
    <3>3. CASE Forget(s)
      BY <1>1, <3>3 DEF Forget, BInv, PoolInv, Chromes
    <3> QED
      BY <3>1, <3>2, <3>3
  <2>3. ASSUME NEW d \in Releasers, ReleaseStep(d) PROVE taken'[d] = r
    <3>1. Take(d)
      BY <2>3 DEF ReleaseStep, Kill, Close, RemovePath
    <3> QED
      BY PoolAssumption, <1>1, <3>1 DEF Take, RStep, BInv, PoolInv, PoolTyped
  <2>4. CASE Exit
    BY <2>4 DEF Exit
  <2> QED
    BY <2>1, <2>2, <2>3, <2>4
<1> QED
  BY <1>1, Invariance, PTL DEF Spec, OnlyOwnReaped

(* As long as no read was given up or outlived its agent, the debug path   *)
(* of the agent's instance is its own, and its HTTP proxy is the one       *)
(* keeperd serves (startUnixDebugForwarder, browserManager.ReadPage).      *)
THEOREM Reachable == Spec => []InstanceReachable
<1>1. BInv => InstanceReachable
  BY DEF BInv, Sockets, SessionInv, Calm, Session, InstanceReachable
<1> QED
  BY <1>1, Invariance, PTL

(* A destroy that met no read leaves neither process a session, an HTTP    *)
(* proxy, an instance or a running Chrome, however many Wards and sessions *)
(* the agent had before, and of the debug sockets only those whose Chrome  *)
(* did not start or had ended by itself (browserManager.Release,           *)
(* manager.Release, reap).                                                 *)
THEOREM NothingLeft == Spec => []DestroyLeavesNothing
<1>1. BInv => DestroyLeavesNothing
  <2> SUFFICES ASSUME BInv, ~exists, Quiet, server = "up", ~raced
               PROVE  /\ proxyByID = None /\ httpProxy = None /\ instances = None /\ Running = {}
                      /\ path \in listening \cup {None}
                      /\ listening \cap killed = {}
    BY DEF DestroyLeavesNothing
  <2>1. Session /\ TornDown /\ OneAtATime
    BY DEF BInv, SessionInv, Calm
  <2>2. \A d \in Releases : destroy[d] \notin DestroySteps /\ release[d] \notin ReleaseSteps
    BY <2>1 DEF Quiet, OneAtATime, DestroySteps
  <2>3. proxyByID = None /\ httpProxy = None /\ instances = None
    BY <2>1, <2>2 DEF TornDown, DestroySteps, ReleaseSteps
  <2>4. release[Shutdown] = "idle" /\ ChromeAccounted /\ replaced = {}
    BY <2>1 DEF BInv, PoolInv, Stopping, Session
  <2>5. Running = {}
    BY PoolAssumption, <2>2, <2>3, <2>4 DEF ChromeAccounted, Running, Quiet, Releasers, ReleaseSteps
  <2>6. path \in listening \cup {None} /\ listening \cap killed = {}
    BY <2>2, <2>4 DEF BInv, Sockets, Releasers, ReleaseSteps
  <2> QED
    BY <2>3, <2>5, <2>6
<1> QED
  BY <1>1, Invariance, PTL
=============================================================================
