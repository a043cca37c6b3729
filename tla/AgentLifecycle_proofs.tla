----------------------- MODULE AgentLifecycle_proofs -----------------------
(***************************************************************************)
(* Theorems about AgentLifecycle for any number of creates: type           *)
(* correctness for any control connections, and the safety properties for  *)
(* one, which handles its requests one by one.                             *)
(***************************************************************************)
EXTENDS AgentLifecycle, TLAPS

(* One connection creates and destroys.                                    *)
OneAdmin == \E viv : Admins = {viv}

(***************************************************************************)
(* The inductive invariant says, for every place a connection can be in,   *)
(* what keeperd holds under the agent's name: the entry (EntryInv), the    *)
(* policy and the browser setting (GrantInv), the pipe (PipeInv), the root *)
(* filesystem and the Wards that may still run on it (WardInv).  TInv is   *)
(* the part that holds for any connections: a request in progress has an   *)
(* incarnation, and a Ward once it spawned it.                             *)
(***************************************************************************)
Up(a) == pc[a] = "idle" /\ agents # NoEntry
Spawned == {"addPipe", "attach", "reap", "network"}

Started(a) ==
  /\ pc[a] # "idle" => Inc(a) \in Incarnations
  /\ pc[a] \in Spawned => ward[Inc(a)] # "none"
TInv == TypeOK /\ \A a \in Admins : Started(a)

EntryInv(a) ==
  /\ Inc(a) <= created
  /\ pc[a] # "idle" \/ agents # NoEntry => Inc(a) \in Incarnations
  /\ pc[a] = "idle" => agents \in {NoEntry, Installed(Inc(a))}
  /\ pc[a] \in {"provision", "configure", "grant", "install"} =>
       agents = Reservation(Inc(a)) /\ ward[Inc(a)] = "none"
  /\ pc[a] \in {"spawn"} \cup Spawned => agents = Installed(Inc(a))
  /\ pc[a] \in {"spawn"} \cup UndoSteps => ward[Inc(a)] = "none"
  /\ pc[a] \in UndoSteps => agents \in {Reservation(Inc(a)), Installed(Inc(a))}
  /\ pc[a] \in DestroySteps =>
       agents = NoEntry /\ subject[a] = Installed(Inc(a))

GrantInv(a) ==
  /\ acl = IF \/ Up(a)
              \/ pc[a] \in {"install", "spawn", "undoGrant", "removePipe", "removeACL"}
              \/ pc[a] \in Spawned
             THEN Inc(a) ELSE None
  /\ headless = IF \/ Up(a)
                   \/ pc[a] \in {"grant", "install", "spawn", "undoGrant",
                                 "undoBrowser", "removePipe", "removeACL", "release"}
                   \/ pc[a] \in Spawned
                  THEN Inc(a) ELSE None

PipeInv(a) ==
  /\ registered # None =>
       /\ registered = Inc(a)
       /\ Up(a) \/ pc[a] \in {"attach", "reap", "network", "removePipe"}
  /\ Up(a) \/ pc[a] \in {"reap", "network"} => attached[Inc(a)] = Inc(a)

WardInv(a) ==
  /\ \/ Up(a)
     \/ pc[a] \in {"configure", "grant", "install", "spawn", "undoGrant",
                   "undoBrowser"}
     \/ pc[a] \in Spawned
     \/ pc[a] \in DestroySteps \ {"destroySubvol"}
     => subvol
  /\ \A i \in Incarnations :
       /\ i > created => ward[i] = "none"
       /\ ward[i] = "running" =>
            \/ i \in survivors
            \/ /\ i = Inc(a)
               /\ \/ Up(a) \/ pc[a] \in Spawned
                  \/ pc[a] \in DestroySteps \ {"destroySubvol"}

AdminInv(a) == EntryInv(a) /\ GrantInv(a) /\ PipeInv(a) /\ WardInv(a)
IInv == OneAdmin /\ TInv /\ \A a \in Admins : AdminInv(a)
-----------------------------------------------------------------------------
(* An entry is free, or a reservation or installation of its incarnation.  *)
LEMMA EntryFacts ==
  /\ \A e \in Entries :
       /\ e[1] \in Incarnations \cup {None}
       /\ e = NoEntry \/ (e[1] \in Incarnations /\ e \in {Reservation(e[1]), Installed(e[1])})
  /\ \A i, j : /\ Reservation(i)[1] = i /\ Installed(i)[1] = i
                /\ Reservation(i) # Installed(j)
  /\ \A i \in Incarnations :
       /\ {Reservation(i), Installed(i)} \subseteq Entries
       /\ NoEntry \notin {Reservation(i), Installed(i)}
  /\ NoEntry \in Entries /\ NoEntry[1] = None /\ None \notin Incarnations
  BY LifecycleAssumption DEF Entries, NoEntry, Reservation, Installed, None, Incarnations

LEMMA TypeStep == TInv /\ [Next]_vars => TInv'
<1> SUFFICES ASSUME TInv, [Next]_vars PROVE TInv'
  OBVIOUS
<1> USE EntryFacts DEF TInv, TypeOK, Started, Inc, Spawned, At, Goto
<1>0. CASE UNCHANGED vars
  BY <1>0 DEF vars, maps, host
<1>1. ASSUME NEW a \in Admins, Provision(a) PROVE TInv'
  <2>1. subvol' \in BOOLEAN
    BY <1>1, Zenon DEF Provision
  <2>2. /\ pc[a] = "provision"
        /\ pc' \in {[pc EXCEPT ![a] = "configure"], [pc EXCEPT ![a] = "undoEntry"]}
        /\ UNCHANGED <<maps, rules, ward, survivors, reaper, created, subject>>
    BY <1>1 DEF Provision
  <2> QED
    BY <2>1, <2>2 DEF maps, CreateSteps, UndoSteps
<1>2. ASSUME NEW a \in Admins, Configure(a) PROVE TInv'
  BY <1>2 DEF Configure, maps, host, CreateSteps, UndoSteps, DestroySteps
<1>3. ASSUME NEW a \in Admins, Grant(a) PROVE TInv'
  BY <1>3 DEF Grant, maps, host, CreateSteps, UndoSteps, DestroySteps
<1>4. ASSUME NEW a \in Admins, Install(a) PROVE TInv'
  BY <1>4 DEF Install, maps, host, CreateSteps, UndoSteps, DestroySteps
<1>5. ASSUME NEW a \in Admins, Spawn(a) PROVE TInv'
  BY <1>5 DEF Spawn, maps, host, CreateSteps, UndoSteps, DestroySteps
<1>6. ASSUME NEW a \in Admins, AddPipe(a) PROVE TInv'
  BY <1>6 DEF AddPipe, maps, host, CreateSteps, UndoSteps, DestroySteps
<1>7. ASSUME NEW a \in Admins, Attach(a) PROVE TInv'
  BY <1>7 DEF Attach, maps, host, CreateSteps, UndoSteps, DestroySteps
<1>8. ASSUME NEW a \in Admins, StartReaper(a) PROVE TInv'
  BY <1>8 DEF StartReaper, maps, host, CreateSteps, UndoSteps, DestroySteps
<1>9. ASSUME NEW a \in Admins, ApplyNetworkRules(a) PROVE TInv'
  BY <1>9 DEF ApplyNetworkRules, maps, host, CreateSteps, UndoSteps, DestroySteps
<1>10. ASSUME NEW a \in Admins, UndoGrant(a) PROVE TInv'
  BY <1>10 DEF UndoGrant, maps, host, CreateSteps, UndoSteps, DestroySteps
<1>11. ASSUME NEW a \in Admins, UndoBrowser(a) PROVE TInv'
  BY <1>11 DEF UndoBrowser, maps, host, CreateSteps, UndoSteps, DestroySteps
<1>12. ASSUME NEW a \in Admins, UndoSubvol(a) PROVE TInv'
  BY <1>12 DEF UndoSubvol, maps, host, CreateSteps, UndoSteps, DestroySteps
<1>13. ASSUME NEW a \in Admins, UndoEntry(a) PROVE TInv'
  BY <1>13 DEF UndoEntry, maps, host, CreateSteps, UndoSteps, DestroySteps
<1>14. ASSUME NEW a \in Admins, RemovePipe(a) PROVE TInv'
  BY <1>14 DEF RemovePipe, maps, host, CreateSteps, UndoSteps, DestroySteps
<1>15. ASSUME NEW a \in Admins, RemoveACL(a) PROVE TInv'
  BY <1>15 DEF RemoveACL, maps, host, CreateSteps, UndoSteps, DestroySteps
<1>16. ASSUME NEW a \in Admins, Release(a) PROVE TInv'
  BY <1>16 DEF Release, maps, host, CreateSteps, UndoSteps, DestroySteps
<1>17. ASSUME NEW a \in Admins, RemoveNetworkRules(a) PROVE TInv'
  BY <1>17 DEF RemoveNetworkRules, maps, host, CreateSteps, UndoSteps, DestroySteps
<1>18. ASSUME NEW a \in Admins, Terminate(a) PROVE TInv'
  <2> PICK killed \in SUBSET Running :
        /\ ward' = [i \in Incarnations |-> IF i \in killed THEN "exited" ELSE ward[i]]
        /\ survivors' = survivors \cup (Running \ killed)
    BY <1>18 DEF Terminate
  <2>1. /\ ward' \in [Incarnations -> {"none", "running", "exited"}]
        /\ survivors' \subseteq Incarnations
        /\ \A i \in Incarnations : ward[i] # "none" => ward'[i] # "none"
    BY DEF Running
  <2> QED
    BY <1>18, <2>1 DEF Terminate, maps, DestroySteps
<1>19. ASSUME NEW a \in Admins, DestroySubvolume(a) PROVE TInv'
  BY <1>19 DEF DestroySubvolume, maps, host, CreateSteps, UndoSteps, DestroySteps
<1>20. ASSUME NEW a \in Admins, BeginCreate(a) PROVE TInv'
  BY <1>20 DEF BeginCreate, maps, host, CreateSteps
<1>21. ASSUME NEW a \in Admins, BeginDestroy(a) PROVE TInv'
  BY <1>21 DEF BeginDestroy, maps, host, DestroySteps
<1>22. ASSUME NEW i \in Incarnations, WardExits(i) PROVE TInv'
  BY <1>22 DEF WardExits, maps, host
<1>23. ASSUME NEW i \in Incarnations, Reap(i) PROVE TInv'
  BY <1>23 DEF Reap, maps, host
<1> QED
  BY <1>0, <1>1, <1>2, <1>3, <1>4, <1>5, <1>6, <1>7, <1>8, <1>9, <1>10, <1>11, <1>12, <1>13, <1>14, <1>15, <1>16, <1>17, <1>18, <1>19, <1>20, <1>21, <1>22, <1>23 DEF Next, Create, Destroy
-----------------------------------------------------------------------------
(* What the steps of the one connection, its Wards and its reapers keep.   *)
LEMMA AdminStep ==
  ASSUME OneAdmin, TInv, TInv', NEW a \in Admins, AdminInv(a), [Next]_vars
  PROVE  AdminInv(a)'
<1> USE EntryFacts DEF Up, Inc, Spawned, At, Goto, UndoSteps, DestroySteps
<1>0. CASE UNCHANGED vars
  BY <1>0 DEF vars, maps, host, AdminInv, EntryInv, GrantInv, PipeInv, WardInv
<1>1. CASE BeginCreate(a)
  <2>1. EntryInv(a)'
    BY <1>1 DEF BeginCreate, maps, host, AdminInv, EntryInv, TInv, TypeOK, WardInv
  <2>2. GrantInv(a)'
    BY <1>1 DEF BeginCreate, maps, host, AdminInv, EntryInv, GrantInv, TInv, TypeOK
  <2>3. PipeInv(a)'
    BY <1>1 DEF BeginCreate, maps, host, AdminInv, EntryInv, PipeInv, TInv, TypeOK
  <2>4. WardInv(a)'
    BY <1>1 DEF BeginCreate, maps, host, AdminInv, EntryInv, WardInv, TInv, TypeOK
  <2> QED
    BY <2>1, <2>2, <2>3, <2>4 DEF AdminInv
<1>2. CASE Provision(a)
  <2>1. /\ pc[a] = "provision"
        /\ UNCHANGED <<maps, rules, ward, survivors, reaper, created, subject>>
    BY <1>2 DEF Provision
  <2>2. \/ pc' = [pc EXCEPT ![a] = "configure"] /\ subvol'
        \/ pc' = [pc EXCEPT ![a] = "undoEntry"]
    BY <1>2 DEF Provision
  <2>3. EntryInv(a)'
    BY <2>1, <2>2 DEF maps, AdminInv, EntryInv, TInv, TypeOK
  <2>4. GrantInv(a)'
    BY <2>1, <2>2 DEF maps, AdminInv, GrantInv, TInv, TypeOK
  <2>5. PipeInv(a)'
    BY <2>1, <2>2 DEF maps, AdminInv, PipeInv, TInv, TypeOK
  <2>6. WardInv(a)'
    BY <2>1, <2>2 DEF maps, AdminInv, WardInv, TInv, TypeOK
  <2> QED
    BY <2>3, <2>4, <2>5, <2>6 DEF AdminInv
<1>3. CASE Configure(a)
  <2>1. EntryInv(a)'
    BY <1>3 DEF Configure, maps, host, AdminInv, EntryInv, TInv, TypeOK, WardInv
  <2>2. GrantInv(a)'
    BY <1>3 DEF Configure, maps, host, AdminInv, EntryInv, GrantInv, TInv, TypeOK
  <2>3. PipeInv(a)'
    BY <1>3 DEF Configure, maps, host, AdminInv, EntryInv, PipeInv, TInv, TypeOK
  <2>4. WardInv(a)'
    BY <1>3 DEF Configure, maps, host, AdminInv, EntryInv, WardInv, TInv, TypeOK
  <2> QED
    BY <2>1, <2>2, <2>3, <2>4 DEF AdminInv
<1>4. CASE Grant(a)
  <2>1. EntryInv(a)'
    BY <1>4 DEF Grant, maps, host, AdminInv, EntryInv, TInv, TypeOK, WardInv
  <2>2. GrantInv(a)'
    BY <1>4 DEF Grant, maps, host, AdminInv, EntryInv, GrantInv, TInv, TypeOK
  <2>3. PipeInv(a)'
    BY <1>4 DEF Grant, maps, host, AdminInv, EntryInv, PipeInv, TInv, TypeOK
  <2>4. WardInv(a)'
    BY <1>4 DEF Grant, maps, host, AdminInv, EntryInv, WardInv, TInv, TypeOK
  <2> QED
    BY <2>1, <2>2, <2>3, <2>4 DEF AdminInv
<1>5. CASE Install(a)
  <2>1. EntryInv(a)'
    BY <1>5 DEF Install, maps, host, AdminInv, EntryInv, TInv, TypeOK, WardInv
  <2>2. GrantInv(a)'
    BY <1>5 DEF Install, maps, host, AdminInv, EntryInv, GrantInv, TInv, TypeOK
  <2>3. PipeInv(a)'
    BY <1>5 DEF Install, maps, host, AdminInv, EntryInv, PipeInv, TInv, TypeOK
  <2>4. WardInv(a)'
    BY <1>5 DEF Install, maps, host, AdminInv, EntryInv, WardInv, TInv, TypeOK
  <2> QED
    BY <2>1, <2>2, <2>3, <2>4 DEF AdminInv
<1>6. CASE Spawn(a)
  <2>1. EntryInv(a)'
    BY <1>6 DEF Spawn, maps, host, AdminInv, EntryInv, TInv, TypeOK, WardInv
  <2>2. GrantInv(a)'
    BY <1>6 DEF Spawn, maps, host, AdminInv, EntryInv, GrantInv, TInv, TypeOK
  <2>3. PipeInv(a)'
    BY <1>6 DEF Spawn, maps, host, AdminInv, EntryInv, PipeInv, TInv, TypeOK
  <2>4. WardInv(a)'
    <3>1. CASE ward' = ward /\ pc' = [pc EXCEPT ![a] = "undoGrant"]
      BY <1>6, <3>1 DEF Spawn, maps, AdminInv, EntryInv, WardInv, TInv, TypeOK
    <3>2. CASE /\ ward' = [ward EXCEPT ![Inc(a)] = "running"]
               /\ pc' = [pc EXCEPT ![a] = "addPipe"]
      <4>1. /\ pc[a] = "spawn" /\ subvol' /\ Inc(a) \in Incarnations
            /\ Inc(a) <= created
            /\ UNCHANGED <<created, subject, survivors>>
        BY <1>6 DEF Spawn, AdminInv, EntryInv, WardInv
      <4>2. \A i \in Incarnations : i > created => ward'[i] = "none"
        BY <3>2, <4>1 DEF AdminInv, WardInv, TInv, TypeOK, Incarnations, None
      <4>3. \A i \in Incarnations : ward'[i] = "running" => i \in survivors \/ i = Inc(a)
        BY <3>2, <4>1 DEF AdminInv, WardInv, TInv, TypeOK
      <4>4. pc'[a] = "addPipe"
        BY <3>2 DEF TInv, TypeOK
      <4> QED
        BY <4>1, <4>2, <4>3, <4>4 DEF WardInv
    <3> QED
      BY <1>6, <3>1, <3>2 DEF Spawn
  <2> QED
    BY <2>1, <2>2, <2>3, <2>4 DEF AdminInv
<1>7. CASE AddPipe(a)
  <2>1. EntryInv(a)'
    BY <1>7 DEF AddPipe, maps, host, AdminInv, EntryInv, TInv, TypeOK, WardInv
  <2>2. GrantInv(a)'
    BY <1>7 DEF AddPipe, maps, host, AdminInv, EntryInv, GrantInv, TInv, TypeOK
  <2>3. PipeInv(a)'
    BY <1>7 DEF AddPipe, maps, host, AdminInv, EntryInv, PipeInv, TInv, TypeOK
  <2>4. WardInv(a)'
    BY <1>7 DEF AddPipe, maps, host, AdminInv, EntryInv, WardInv, TInv, TypeOK
  <2> QED
    BY <2>1, <2>2, <2>3, <2>4 DEF AdminInv
<1>8. CASE Attach(a)
  <2>1. EntryInv(a)'
    BY <1>8 DEF Attach, maps, host, AdminInv, EntryInv, TInv, TypeOK, WardInv
  <2>2. GrantInv(a)'
    BY <1>8 DEF Attach, maps, host, AdminInv, EntryInv, GrantInv, TInv, TypeOK
  <2>3. PipeInv(a)'
    BY <1>8 DEF Attach, maps, host, AdminInv, EntryInv, PipeInv, TInv, TypeOK
  <2>4. WardInv(a)'
    BY <1>8 DEF Attach, maps, host, AdminInv, EntryInv, WardInv, TInv, TypeOK
  <2> QED
    BY <2>1, <2>2, <2>3, <2>4 DEF AdminInv
<1>9. CASE StartReaper(a)
  <2>1. EntryInv(a)'
    BY <1>9 DEF StartReaper, maps, host, AdminInv, EntryInv, TInv, TypeOK, WardInv
  <2>2. GrantInv(a)'
    BY <1>9 DEF StartReaper, maps, host, AdminInv, EntryInv, GrantInv, TInv, TypeOK
  <2>3. PipeInv(a)'
    BY <1>9 DEF StartReaper, maps, host, AdminInv, EntryInv, PipeInv, TInv, TypeOK
  <2>4. WardInv(a)'
    BY <1>9 DEF StartReaper, maps, host, AdminInv, EntryInv, WardInv, TInv, TypeOK
  <2> QED
    BY <2>1, <2>2, <2>3, <2>4 DEF AdminInv
<1>10. CASE ApplyNetworkRules(a)
  <2>1. EntryInv(a)'
    BY <1>10 DEF ApplyNetworkRules, maps, host, AdminInv, EntryInv, TInv, TypeOK, WardInv
  <2>2. GrantInv(a)'
    BY <1>10 DEF ApplyNetworkRules, maps, host, AdminInv, EntryInv, GrantInv, TInv, TypeOK
  <2>3. PipeInv(a)'
    BY <1>10 DEF ApplyNetworkRules, maps, host, AdminInv, EntryInv, PipeInv, TInv, TypeOK
  <2>4. WardInv(a)'
    BY <1>10 DEF ApplyNetworkRules, maps, host, AdminInv, EntryInv, WardInv, TInv, TypeOK
  <2> QED
    BY <2>1, <2>2, <2>3, <2>4 DEF AdminInv
<1>11. CASE UndoGrant(a)
  <2>1. EntryInv(a)'
    BY <1>11 DEF UndoGrant, maps, host, AdminInv, EntryInv, TInv, TypeOK, WardInv
  <2>2. GrantInv(a)'
    BY <1>11 DEF UndoGrant, maps, host, AdminInv, EntryInv, GrantInv, TInv, TypeOK
  <2>3. PipeInv(a)'
    BY <1>11 DEF UndoGrant, maps, host, AdminInv, EntryInv, PipeInv, TInv, TypeOK
  <2>4. WardInv(a)'
    BY <1>11 DEF UndoGrant, maps, host, AdminInv, EntryInv, WardInv, TInv, TypeOK
  <2> QED
    BY <2>1, <2>2, <2>3, <2>4 DEF AdminInv
<1>12. CASE UndoBrowser(a)
  <2>1. EntryInv(a)'
    BY <1>12 DEF UndoBrowser, maps, host, AdminInv, EntryInv, TInv, TypeOK, WardInv
  <2>2. GrantInv(a)'
    BY <1>12 DEF UndoBrowser, maps, host, AdminInv, EntryInv, GrantInv, TInv, TypeOK
  <2>3. PipeInv(a)'
    BY <1>12 DEF UndoBrowser, maps, host, AdminInv, EntryInv, PipeInv, TInv, TypeOK
  <2>4. WardInv(a)'
    BY <1>12 DEF UndoBrowser, maps, host, AdminInv, EntryInv, WardInv, TInv, TypeOK
  <2> QED
    BY <2>1, <2>2, <2>3, <2>4 DEF AdminInv
<1>13. CASE UndoSubvol(a)
  <2>1. EntryInv(a)'
    BY <1>13 DEF UndoSubvol, maps, host, AdminInv, EntryInv, TInv, TypeOK, WardInv
  <2>2. GrantInv(a)'
    BY <1>13 DEF UndoSubvol, maps, host, AdminInv, EntryInv, GrantInv, TInv, TypeOK
  <2>3. PipeInv(a)'
    BY <1>13 DEF UndoSubvol, maps, host, AdminInv, EntryInv, PipeInv, TInv, TypeOK
  <2>4. WardInv(a)'
    BY <1>13 DEF UndoSubvol, maps, host, AdminInv, EntryInv, WardInv, TInv, TypeOK
  <2> QED
    BY <2>1, <2>2, <2>3, <2>4 DEF AdminInv
<1>14. CASE UndoEntry(a)
  <2>1. EntryInv(a)'
    BY <1>14 DEF UndoEntry, maps, host, AdminInv, EntryInv, TInv, TypeOK, WardInv
  <2>2. GrantInv(a)'
    BY <1>14 DEF UndoEntry, maps, host, AdminInv, EntryInv, GrantInv, TInv, TypeOK
  <2>3. PipeInv(a)'
    BY <1>14 DEF UndoEntry, maps, host, AdminInv, EntryInv, PipeInv, TInv, TypeOK
  <2>4. WardInv(a)'
    BY <1>14 DEF UndoEntry, maps, host, AdminInv, EntryInv, WardInv, TInv, TypeOK
  <2> QED
    BY <2>1, <2>2, <2>3, <2>4 DEF AdminInv
<1>15. CASE BeginDestroy(a)
  <2>1. EntryInv(a)'
    BY <1>15 DEF BeginDestroy, maps, host, AdminInv, EntryInv, TInv, TypeOK, WardInv
  <2>2. GrantInv(a)'
    BY <1>15 DEF BeginDestroy, maps, host, AdminInv, EntryInv, GrantInv, TInv, TypeOK
  <2>3. PipeInv(a)'
    BY <1>15 DEF BeginDestroy, maps, host, AdminInv, EntryInv, PipeInv, TInv, TypeOK
  <2>4. WardInv(a)'
    BY <1>15 DEF BeginDestroy, maps, host, AdminInv, EntryInv, WardInv, TInv, TypeOK
  <2> QED
    BY <2>1, <2>2, <2>3, <2>4 DEF AdminInv
<1>16. CASE RemovePipe(a)
  <2>1. EntryInv(a)'
    BY <1>16 DEF RemovePipe, maps, host, AdminInv, EntryInv, TInv, TypeOK, WardInv
  <2>2. GrantInv(a)'
    BY <1>16 DEF RemovePipe, maps, host, AdminInv, EntryInv, GrantInv, TInv, TypeOK
  <2>3. PipeInv(a)'
    BY <1>16 DEF RemovePipe, maps, host, AdminInv, EntryInv, PipeInv, TInv, TypeOK
  <2>4. WardInv(a)'
    BY <1>16 DEF RemovePipe, maps, host, AdminInv, EntryInv, WardInv, TInv, TypeOK
  <2> QED
    BY <2>1, <2>2, <2>3, <2>4 DEF AdminInv
<1>17. CASE RemoveACL(a)
  <2>1. EntryInv(a)'
    BY <1>17 DEF RemoveACL, maps, host, AdminInv, EntryInv, TInv, TypeOK, WardInv
  <2>2. GrantInv(a)'
    BY <1>17 DEF RemoveACL, maps, host, AdminInv, EntryInv, GrantInv, TInv, TypeOK
  <2>3. PipeInv(a)'
    BY <1>17 DEF RemoveACL, maps, host, AdminInv, EntryInv, PipeInv, TInv, TypeOK
  <2>4. WardInv(a)'
    BY <1>17 DEF RemoveACL, maps, host, AdminInv, EntryInv, WardInv, TInv, TypeOK
  <2> QED
    BY <2>1, <2>2, <2>3, <2>4 DEF AdminInv
<1>18. CASE Release(a)
  <2>1. EntryInv(a)'
    BY <1>18 DEF Release, maps, host, AdminInv, EntryInv, TInv, TypeOK, WardInv
  <2>2. GrantInv(a)'
    BY <1>18 DEF Release, maps, host, AdminInv, EntryInv, GrantInv, TInv, TypeOK
  <2>3. PipeInv(a)'
    BY <1>18 DEF Release, maps, host, AdminInv, EntryInv, PipeInv, TInv, TypeOK
  <2>4. WardInv(a)'
    BY <1>18 DEF Release, maps, host, AdminInv, EntryInv, WardInv, TInv, TypeOK
  <2> QED
    BY <2>1, <2>2, <2>3, <2>4 DEF AdminInv
<1>19. CASE RemoveNetworkRules(a)
  <2>1. EntryInv(a)'
    BY <1>19 DEF RemoveNetworkRules, maps, host, AdminInv, EntryInv, TInv, TypeOK, WardInv
  <2>2. GrantInv(a)'
    BY <1>19 DEF RemoveNetworkRules, maps, host, AdminInv, EntryInv, GrantInv, TInv, TypeOK
  <2>3. PipeInv(a)'
    BY <1>19 DEF RemoveNetworkRules, maps, host, AdminInv, EntryInv, PipeInv, TInv, TypeOK
  <2>4. WardInv(a)'
    BY <1>19 DEF RemoveNetworkRules, maps, host, AdminInv, EntryInv, WardInv, TInv, TypeOK
  <2> QED
    BY <2>1, <2>2, <2>3, <2>4 DEF AdminInv
<1>20. CASE Terminate(a)
  <2>1. EntryInv(a)'
    BY <1>20 DEF Terminate, maps, host, AdminInv, EntryInv, TInv, TypeOK, WardInv
  <2>2. GrantInv(a)'
    BY <1>20 DEF Terminate, maps, host, AdminInv, EntryInv, GrantInv, TInv, TypeOK
  <2>3. PipeInv(a)'
    BY <1>20 DEF Terminate, maps, host, AdminInv, EntryInv, PipeInv, TInv, TypeOK
  <2>4. WardInv(a)'
    <3> PICK killed \in SUBSET Running :
          /\ ward' = [i \in Incarnations |-> IF i \in killed THEN "exited" ELSE ward[i]]
          /\ survivors' = survivors \cup (Running \ killed)
      BY <1>20 DEF Terminate
    <3>1. \A i \in Incarnations :
            /\ ward[i] = "none" => ward'[i] = "none"
            /\ ward'[i] = "running" => i \in survivors'
      BY DEF Running, TInv, TypeOK
    <3>2. /\ pc[a] = "terminate" /\ pc' = [pc EXCEPT ![a] = "destroySubvol"]
          /\ created' = created
      BY <1>20 DEF Terminate
    <3>3. \A i \in Incarnations : i > created => ward[i] = "none"
      BY DEF AdminInv, WardInv
    <3> QED
      BY <3>1, <3>2, <3>3 DEF WardInv, TInv, TypeOK
  <2> QED
    BY <2>1, <2>2, <2>3, <2>4 DEF AdminInv
<1>21. CASE DestroySubvolume(a)
  <2>1. EntryInv(a)'
    BY <1>21 DEF DestroySubvolume, maps, host, AdminInv, EntryInv, TInv, TypeOK, WardInv
  <2>2. GrantInv(a)'
    BY <1>21 DEF DestroySubvolume, maps, host, AdminInv, EntryInv, GrantInv, TInv, TypeOK
  <2>3. PipeInv(a)'
    BY <1>21 DEF DestroySubvolume, maps, host, AdminInv, EntryInv, PipeInv, TInv, TypeOK
  <2>4. WardInv(a)'
    BY <1>21 DEF DestroySubvolume, maps, host, AdminInv, EntryInv, WardInv, TInv, TypeOK
  <2> QED
    BY <2>1, <2>2, <2>3, <2>4 DEF AdminInv
<1>22. ASSUME NEW i \in Incarnations, WardExits(i) PROVE AdminInv(a)'
  BY <1>22 DEF WardExits, maps, AdminInv, EntryInv, GrantInv, PipeInv, WardInv, TInv, TypeOK
<1>23. ASSUME NEW i \in Incarnations, Reap(i) PROVE AdminInv(a)'
  BY <1>23 DEF Reap, host, AdminInv, EntryInv, GrantInv, PipeInv, WardInv, TInv, TypeOK
<1> QED
  BY <1>0, <1>1, <1>2, <1>3, <1>4, <1>5, <1>6, <1>7, <1>8, <1>9, <1>10, <1>11, <1>12, <1>13, <1>14, <1>15, <1>16, <1>17, <1>18, <1>19, <1>20, <1>21, <1>22, <1>23 DEF OneAdmin, Next, Create, Destroy

-----------------------------------------------------------------------------
LEMMA InitInv == Init => TInv /\ \A a \in Admins : AdminInv(a)
<1> SUFFICES ASSUME Init PROVE TInv /\ \A a \in Admins : AdminInv(a)
  OBVIOUS
<1> USE EntryFacts, LifecycleAssumption
<1>1. \A a \in Admins : pc[a] = "idle" /\ subject[a] = NoEntry /\ Inc(a) = None
  BY DEF Init, Inc
<1>2. \A i \in Incarnations : ward[i] = "none" /\ reaper[i] = "none" /\ registered # i
  BY DEF Init
<1>3. TInv
  <2>1. subvol \in BOOLEAN /\ rules \in BOOLEAN
    BY Zenon DEF Init
  <2>2. created \in Incarnations \cup {None} /\ survivors \subseteq Incarnations
    BY DEF Init, None
  <2>3. /\ agents \in Entries
        /\ {registered, acl, headless} \subseteq Incarnations \cup {None}
    BY DEF Init
  <2>4. /\ attached \in [Incarnations -> Incarnations \cup {None}]
        /\ ward \in [Incarnations -> {"none", "running", "exited"}]
        /\ reaper \in [Incarnations -> {"none", "waiting", "done"}]
        /\ pc \in [Admins -> {"idle"} \cup CreateSteps \cup UndoSteps \cup DestroySteps]
        /\ subject \in [Admins -> Entries]
    BY DEF Init
  <2>5. TypeOK
    BY <1>2, <2>1, <2>2, <2>3, <2>4 DEF TypeOK
  <2> QED
    BY <1>1, <2>5 DEF TInv, Started, Spawned
<1>4. ASSUME NEW a \in Admins PROVE AdminInv(a)
  <2>1. agents = NoEntry /\ acl = None /\ headless = None /\ registered = None /\ created = 0
    BY DEF Init
  <2> USE <1>1, <1>2, <2>1 DEF Up, Spawned, UndoSteps, DestroySteps
  <2>2. EntryInv(a)
    BY DEF EntryInv, None
  <2>3. GrantInv(a)
    BY DEF GrantInv
  <2>4. PipeInv(a)
    BY DEF PipeInv
  <2>5. WardInv(a)
    BY DEF WardInv
  <2> QED
    BY <2>2, <2>3, <2>4, <2>5 DEF AdminInv
<1> QED
  BY <1>3, <1>4

(* Whatever connections do at the same time, keeperd's maps hold what they *)
(* are for, and only a Ward that was started has a pipe or a reaper.       *)
THEOREM TypeCorrect == Spec => []TypeOK
<1>1. Init => TInv
  BY InitInv
<1>2. TInv /\ [Next]_vars => TInv'
  BY TypeStep
<1>3. TInv => TypeOK
  BY DEF TInv
<1> QED
  BY <1>1, <1>2, <1>3, PTL DEF Spec

(* One connection and its Wards and reapers keep the inductive invariant.  *)
THEOREM Invariance == OneAdmin /\ Spec => []IInv
<1>1. OneAdmin /\ Init => IInv
  BY InitInv DEF IInv
<1>2. IInv /\ [Next]_vars => IInv'
  <2> SUFFICES ASSUME IInv, [Next]_vars PROVE IInv'
    OBVIOUS
  <2>1. TInv'
    BY TypeStep DEF IInv
  <2>2. \A a \in Admins : AdminInv(a)'
    BY <2>1, AdminStep DEF IInv
  <2> QED
    BY <2>1, <2>2 DEF IInv, OneAdmin
<1> QED
  BY <1>1, <1>2, PTL DEF Spec

LEMMA Consequences ==
  IInv => AllOrNothing /\ EquippedWhileRunning /\ RootOutlivesWard /\ RegisteredIsCurrent
<1> SUFFICES ASSUME IInv, NEW a, Admins = {a}, TInv, AdminInv(a)
             PROVE  /\ AllOrNothing /\ EquippedWhileRunning
                    /\ RootOutlivesWard /\ RegisteredIsCurrent
  BY DEF IInv, OneAdmin
<1> USE EntryFacts DEF AdminInv, EntryInv, GrantInv, PipeInv, WardInv, Up, Inc,
        Spawned, UndoSteps, DestroySteps, TInv, TypeOK, CreateSteps
<1>1. AllOrNothing
  BY DEF AllOrNothing, Quiet
<1>2. EquippedWhileRunning
  <2> SUFFICES ASSUME NEW i \in Incarnations, ward[i] = "running", agents = Installed(i)
               PROVE  acl = i /\ headless = i /\ subvol
    BY DEF EquippedWhileRunning, Running
  <2>1. \/ Up(a) \/ pc[a] = "spawn" \/ pc[a] \in Spawned
        \/ pc[a] \in UndoSteps
    BY DEF AdminInv
  <2>2. Inc(a) = i
    BY <2>1 DEF AdminInv
  <2>3. Up(a) \/ pc[a] \in Spawned
    BY <2>1, <2>2
  <2> QED
    BY <2>2, <2>3
<1>3. RootOutlivesWard
  BY DEF RootOutlivesWard, Running
<1>4. RegisteredIsCurrent
  BY DEF RegisteredIsCurrent
<1> QED
  BY <1>1, <1>2, <1>3, <1>4

(* With no request in progress an agent is complete or gone, whichever     *)
(* steps of agentCreate failed before.                                     *)
THEOREM CompleteOrGone == OneAdmin /\ Spec => []AllOrNothing
BY Invariance, Consequences, PTL

(* A Ward of an existing agent runs with its policy, its browser setting   *)
(* and its root filesystem.                                                *)
THEOREM Equipped == OneAdmin /\ Spec => []EquippedWhileRunning
BY Invariance, Consequences, PTL

(* A root filesystem is only removed under a Ward that could not be        *)
(* terminated.                                                             *)
THEOREM RootKept == OneAdmin /\ Spec => []RootOutlivesWard
BY Invariance, Consequences, PTL

(* The pipe under the agent's name is that of the agent in the map.        *)
THEOREM PipeIsCurrent == OneAdmin /\ Spec => []RegisteredIsCurrent
BY Invariance, Consequences, PTL

=============================================================================
