--------------------------- MODULE AgentLifecycle ---------------------------
(***************************************************************************)
(* The life of an agent in keeperd (cmd/keeperd/provisioning.go): create,  *)
(* with its cleanup when a step fails, destroy, the Ward process and the   *)
(* goroutine that reaps it.                                                *)
(*                                                                         *)
(* All state is kept in maps under the agent's name and operations on      *)
(* different names touch different entries, so one name is modelled.  Each *)
(* create request is an incarnation of the agent: its number stands for    *)
(* the objects it makes (agentState, ACL, pipe, Ward).                     *)
(*                                                                         *)
(* A control connection handles its requests one by one (handleCtlConn);   *)
(* requests of different connections interleave.                           *)
(***************************************************************************)
EXTENDS Naturals

CONSTANTS
  Admins,     (* control connections that create and destroy                *)
  MaxCreates  (* bound: create requests accepted in a behaviour             *)

ASSUME LifecycleAssumption == MaxCreates \in Nat

Incarnations == 1..MaxCreates
None == 0

VARIABLES
  agents,     (* daemon.agents: the incarnation whose entry it is, its kind *)
  attached,   (* agentState.pipe: whose pipe, in the entry of each          *)
  registered, (* Router.pipes: whose pipe                                   *)
  acl,        (* Dispatcher.acls: whose policy                              *)
  headless,   (* browserManager.headless: set by whom                       *)
  subvol,     (* the root filesystem exists                                 *)
  rules,      (* the egress rules exist                                     *)
  ward,       (* the Ward process of each incarnation                       *)
  reaper,     (* the goroutine waiting for it                               *)
  pc,         (* where each connection is in its request                    *)
  subject,    (* the entry its request is about                             *)
  created,    (* bound: creates accepted so far                             *)
  survivors   (* history: Wards that a destroy failed to terminate          *)

maps == <<agents, attached, registered, acl, headless>>
host == <<subvol, rules, ward, survivors>>
vars == <<maps, host, reaper, pc, subject, created>>

(* An entry of the map of agents is a reservation until it is installed.   *)
NoEntry == <<None, "none">>
Reservation(i) == <<i, "reserved">>
Installed(i) == <<i, "installed">>
Entries == {NoEntry} \cup (Incarnations \X {"reserved", "installed"})

CreateSteps == {"provision", "configure", "grant", "install", "spawn",
                "addPipe", "attach", "reap", "network"}
UndoSteps == {"undoGrant", "undoBrowser", "undoSubvol", "undoEntry"}
DestroySteps == {"removePipe", "removeACL", "release", "removeRules",
                 "terminate", "destroySubvol"}

Init ==
  /\ agents = NoEntry
  /\ attached = [i \in Incarnations |-> None]
  /\ registered = None /\ acl = None /\ headless = None
  /\ subvol = FALSE /\ rules = FALSE
  /\ ward = [i \in Incarnations |-> "none"]
  /\ reaper = [i \in Incarnations |-> "none"]
  /\ pc = [a \in Admins |-> "idle"]
  /\ subject = [a \in Admins |-> NoEntry]
  /\ created = 0 /\ survivors = {}

Goto(a, s) == pc' = [pc EXCEPT ![a] = s]
At(a, s) == pc[a] = s /\ UNCHANGED <<created, subject>>
Inc(a) == subject[a][1]

-----------------------------------------------------------------------------
(* Faulty variants of actions below.  The specification does not use them: *)
(* each is a slip that one of the properties has to notice.                *)

(* A spawn that failed is taken for one that succeeded.                    *)
SpawnUnchecked(a) ==
  /\ At(a, "spawn")
  /\ ward' \in {ward, [ward EXCEPT ![Inc(a)] = "running"]}
  /\ Goto(a, "addPipe")
  /\ UNCHANGED <<maps, subvol, rules, survivors, reaper>>

(* The policy cannot be loaded and the create goes on.                     *)
GrantUnchecked(a) ==
  /\ At(a, "grant")
  /\ acl' \in {acl, Inc(a)}
  /\ Goto(a, "install")
  /\ UNCHANGED <<agents, attached, registered, headless, host, reaper>>

(* No cleanup was registered for the policy.                               *)
UndoGrantOmitted(a) ==
  /\ At(a, "undoGrant")
  /\ Goto(a, "undoBrowser")
  /\ UNCHANGED <<maps, host, reaper>>

(* The pipe of a destroyed agent is left to its reaper.                    *)
RemovePipeOmitted(a) ==
  /\ At(a, "removePipe")
  /\ Goto(a, "removeACL")
  /\ UNCHANGED <<maps, host, reaper>>

(* The Ward is not terminated before its root filesystem goes.             *)
TerminateOmitted(a) ==
  /\ At(a, "terminate")
  /\ Goto(a, "destroySubvol")
  /\ UNCHANGED <<maps, host, reaper>>

-----------------------------------------------------------------------------
(* agentCreate, one step for each access to what is shared.                *)

(* The name is free: an entry without subvolume or pipe reserves it.       *)
BeginCreate(a) ==
  LET i == created + 1 IN
  /\ pc[a] = "idle" /\ i \in Incarnations
  /\ agents = NoEntry
  /\ agents' = Reservation(i)
  /\ created' = i
  /\ subject' = [subject EXCEPT ![a] = Reservation(i)]
  /\ Goto(a, "provision")
  /\ UNCHANGED <<attached, registered, acl, headless, host, reaper>>

(* ProvisionSubvolume; a copy that fails half way leaves what it copied,   *)
(* and no cleanup is registered for it yet.                                *)
Provision(a) ==
  /\ At(a, "provision")
  /\ \/ subvol' = TRUE /\ Goto(a, "configure")
     \/ subvol' \in {subvol, TRUE} /\ Goto(a, "undoEntry")
  /\ UNCHANGED <<maps, rules, ward, survivors, reaper>>

(* The template's agent.kdl, the agent's own and the capability CLIs, then *)
(* SetHeadless.                                                            *)
Configure(a) ==
  /\ At(a, "configure")
  /\ \/ headless' = Inc(a) /\ Goto(a, "grant")
     \/ headless' = headless /\ Goto(a, "undoSubvol")
  /\ UNCHANGED <<agents, attached, registered, acl, host, reaper>>

Grant(a) ==
  /\ At(a, "grant")
  /\ acl' = Inc(a)
  /\ Goto(a, "install")
  /\ UNCHANGED <<agents, attached, registered, headless, host, reaper>>

(* An entry without a pipe replaces whatever the map holds by now.         *)
Install(a) ==
  /\ At(a, "install")
  /\ agents' = Installed(Inc(a))
  /\ attached' = [attached EXCEPT ![Inc(a)] = None]
  /\ Goto(a, "spawn")
  /\ UNCHANGED <<registered, acl, headless, host, reaper>>

(* spawnAgent: SpawnWard, its pipes and Start ...                          *)
Spawn(a) ==
  /\ At(a, "spawn")
  /\ \/ ward' = [ward EXCEPT ![Inc(a)] = "running"] /\ Goto(a, "addPipe")
     \/ ward' = ward /\ Goto(a, "undoGrant")
  /\ UNCHANGED <<maps, subvol, rules, survivors, reaper>>

(* ... Router.AddPipe ...                                                  *)
AddPipe(a) ==
  /\ At(a, "addPipe")
  /\ registered' = Inc(a)
  /\ Goto(a, "attach")
  /\ UNCHANGED <<agents, attached, acl, headless, host, reaper>>

(* ... the pipe is stored in the entry the map has now, if it has one ...  *)
Attach(a) ==
  /\ At(a, "attach")
  /\ attached' = IF agents = NoEntry THEN attached
                 ELSE [attached EXCEPT ![agents[1]] = Inc(a)]
  /\ Goto(a, "reap")
  /\ UNCHANGED <<agents, registered, acl, headless, host, reaper>>

(* ... the reaper is started ...                                           *)
StartReaper(a) ==
  /\ At(a, "reap")
  /\ reaper' = [reaper EXCEPT ![Inc(a)] = "waiting"]
  /\ Goto(a, "network")
  /\ UNCHANGED <<maps, host>>

(* ... and the egress rules are applied; a failure is not fatal.           *)
ApplyNetworkRules(a) ==
  /\ At(a, "network")
  /\ rules' \in {rules, TRUE}
  /\ Goto(a, "idle")
  /\ UNCHANGED <<maps, subvol, ward, survivors, reaper>>

(* The deferred cleanup, in reverse order of what was done, and at last    *)
(* the entry, whoever's it is.                                             *)
UndoGrant(a) ==
  /\ At(a, "undoGrant")
  /\ acl' = None
  /\ Goto(a, "undoBrowser")
  /\ UNCHANGED <<agents, attached, registered, headless, host, reaper>>

UndoBrowser(a) ==
  /\ At(a, "undoBrowser")
  /\ headless' = None
  /\ Goto(a, "undoSubvol")
  /\ UNCHANGED <<agents, attached, registered, acl, host, reaper>>

(* Its failure is ignored.                                                 *)
UndoSubvol(a) ==
  /\ At(a, "undoSubvol")
  /\ subvol' \in {subvol, FALSE}
  /\ Goto(a, "undoEntry")
  /\ UNCHANGED <<maps, rules, ward, survivors, reaper>>

UndoEntry(a) ==
  /\ At(a, "undoEntry")
  /\ agents' = NoEntry
  /\ Goto(a, "idle")
  /\ UNCHANGED <<attached, registered, acl, headless, host, reaper>>

-----------------------------------------------------------------------------
(* agentDestroy.                                                           *)

BeginDestroy(a) ==
  /\ pc[a] = "idle" /\ agents # NoEntry
  /\ agents' = NoEntry
  /\ subject' = [subject EXCEPT ![a] = agents]
  /\ Goto(a, "removePipe")
  /\ UNCHANGED <<attached, registered, acl, headless, host, reaper, created>>

RemovePipe(a) ==
  /\ At(a, "removePipe")
  /\ registered' = None
  /\ Goto(a, "removeACL")
  /\ UNCHANGED <<agents, attached, acl, headless, host, reaper>>

RemoveACL(a) ==
  /\ At(a, "removeACL")
  /\ acl' = None
  /\ Goto(a, "release")
  /\ UNCHANGED <<agents, attached, registered, headless, host, reaper>>

Release(a) ==
  /\ At(a, "release")
  /\ headless' = None
  /\ Goto(a, "removeRules")
  /\ UNCHANGED <<agents, attached, registered, acl, host, reaper>>

RemoveNetworkRules(a) ==
  /\ At(a, "removeRules")
  /\ rules' \in {rules, FALSE}
  /\ Goto(a, "terminate")
  /\ UNCHANGED <<maps, subvol, ward, survivors, reaper>>

(* Terminate names the machine, and its failure is ignored (a Ward not yet *)
(* registered with machined; a runtime that has no Terminate).             *)
Running == {i \in Incarnations : ward[i] = "running"}

Terminate(a) ==
  /\ At(a, "terminate")
  /\ \E killed \in SUBSET Running :
       /\ ward' = [i \in Incarnations |->
                     IF i \in killed THEN "exited" ELSE ward[i]]
       /\ survivors' = survivors \cup (Running \ killed)
  /\ Goto(a, "destroySubvol")
  /\ UNCHANGED <<maps, subvol, rules, reaper>>

(* Only an installed entry knows its subvolume; removing it may fail.      *)
DestroySubvolume(a) ==
  /\ At(a, "destroySubvol")
  /\ subvol' \in IF subject[a] = Installed(Inc(a)) THEN {subvol, FALSE} ELSE {subvol}
  /\ Goto(a, "idle")
  /\ UNCHANGED <<maps, rules, ward, survivors, reaper>>

-----------------------------------------------------------------------------
(* The Ward exits on its own, and its reaper, whenever it gets to run,     *)
(* removes the pipe registered under the agent's name.                     *)

WardExits(i) ==
  /\ ward[i] = "running"
  /\ ward' = [ward EXCEPT ![i] = "exited"]
  /\ UNCHANGED <<maps, subvol, rules, survivors, reaper, pc, subject, created>>

Reap(i) ==
  /\ reaper[i] = "waiting" /\ ward[i] = "exited"
  /\ registered' = None
  /\ reaper' = [reaper EXCEPT ![i] = "done"]
  /\ UNCHANGED <<agents, attached, acl, headless, host, pc, subject, created>>

-----------------------------------------------------------------------------
Create(a) ==
  \/ Provision(a) \/ Configure(a) \/ Grant(a) \/ Install(a) \/ Spawn(a)
  \/ AddPipe(a) \/ Attach(a) \/ StartReaper(a) \/ ApplyNetworkRules(a)
  \/ UndoGrant(a) \/ UndoBrowser(a) \/ UndoSubvol(a) \/ UndoEntry(a)
Destroy(a) ==
  \/ RemovePipe(a) \/ RemoveACL(a) \/ Release(a) \/ RemoveNetworkRules(a)
  \/ Terminate(a) \/ DestroySubvolume(a)

Next ==
  \/ \E a \in Admins : BeginCreate(a) \/ BeginDestroy(a) \/ Create(a) \/ Destroy(a)
  \/ \E i \in Incarnations : WardExits(i) \/ Reap(i)

Spec == Init /\ [][Next]_vars

(* A request that was begun is carried through, and a reaper whose Ward    *)
(* exited runs; no one has to create, destroy or exit.                     *)
FairSpec ==
  /\ Spec
  /\ \A a \in Admins : WF_vars(Create(a) \/ Destroy(a))
  /\ \A i \in Incarnations : WF_vars(Reap(i))

-----------------------------------------------------------------------------
(* Properties.                                                             *)

TypeOK ==
  /\ agents \in Entries
  /\ attached \in [Incarnations -> Incarnations \cup {None}]
  /\ {registered, acl, headless} \subseteq Incarnations \cup {None}
  /\ subvol \in BOOLEAN /\ rules \in BOOLEAN
  /\ ward \in [Incarnations -> {"none", "running", "exited"}]
  /\ reaper \in [Incarnations -> {"none", "waiting", "done"}]
  /\ pc \in [Admins -> {"idle"} \cup CreateSteps \cup UndoSteps \cup DestroySteps]
  /\ subject \in [Admins -> Entries]
  /\ created \in Incarnations \cup {None}
  /\ survivors \subseteq Incarnations
  /\ \A i \in Incarnations :
       registered = i \/ reaper[i] # "none" => ward[i] # "none"

Quiet == \A a \in Admins : pc[a] = "idle"

(* Whichever step of a create failed, and after every destroy: with no     *)
(* request in progress an agent has everything a create gives it, all of   *)
(* the same incarnation, or keeperd has nothing left under its name (the   *)
(* deferred cleanup and agentDestroy undo what agentCreate did).           *)
AllOrNothing ==
  Quiet =>
    \/ agents = NoEntry /\ acl = None /\ headless = None /\ registered = None
    \/ \E i \in Incarnations :
         /\ agents = Installed(i) /\ attached[i] = i
         /\ acl = i /\ headless = i /\ subvol

(* The Ward of an agent that exists never runs without its policy, its     *)
(* browser setting and its root filesystem, not even while it is created   *)
(* (agentCreate grants before it spawns).                                  *)
EquippedWhileRunning ==
  \A i \in Running : agents = Installed(i) => acl = i /\ headless = i /\ subvol

(* No root filesystem is removed under a running Ward, unless terminating  *)
(* that Ward failed (agentDestroy terminates before it destroys).          *)
RootOutlivesWard == \A i \in Running : subvol \/ i \in survivors

(* The router only ever has a pipe under the agent's name that belongs to  *)
(* the incarnation in the map, or to the one being destroyed.              *)
RegisteredIsCurrent ==
  registered # None =>
    \/ agents = Installed(registered)
    \/ \E a \in Admins : pc[a] = "removePipe" /\ subject[a] = Installed(registered)

(* provisioning.go: "Reserve the slot early to prevent a race on           *)
(* concurrent creates."                                                    *)
OneCreatorAtATime ==
  \A a, b \in Admins :
    pc[a] \in CreateSteps /\ pc[b] \in CreateSteps => a = b

(* provisioning.go: "Reap the subprocess when it exits and remove the      *)
(* pipe": the pipe of a Ward that runs on is not removed with it.          *)
LiveWardReachable ==
  \A i \in Running : Quiet /\ agents = Installed(i) => registered = i
=============================================================================
