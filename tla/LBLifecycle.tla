------------------------------ MODULE LBLifecycle ------------------------------
(***************************************************************************)
(* The life of LoadBalancer objects and of the cloudscale load balancers   *)
(* that the controller creates, adopts and deletes for them:               *)
(* LoadBalancerReconciler.Reconcile with ensureLoadBalancer,               *)
(* guessLoadbalancerZone and cleanupLoadBalancer, run by the one worker of *)
(* the controller against the Kubernetes API (optimistic updates, an       *)
(* informer cache that lags, the validating webhook) and the cloudscale    *)
(* API, while users edit the objects and other people use the cloudscale   *)
(* project.                                                                *)
(*                                                                         *)
(* One action is one remote call of the worker (the code between two calls *)
(* is local), so that everybody else's steps interleave between any two    *)
(* calls.  Abstractions:                                                   *)
(*  - pools, listeners, monitors, members and floating IPs (lines 143-233  *)
(*    of Reconcile) are the one step Pools, whose outcome in the status is *)
(*    the set of zones that the backend servers are in;                    *)
(*  - guessLoadbalancerZone asks for one server per node; here every zone  *)
(*    has one node, whose server is there if the zone is in servers;       *)
(*  - requeueing with a delay or a rate limit puts the key into the queue  *)
(*    at once: there is no clock, and fairness does not promise speed;     *)
(*  - the objects request no floating IP, so the webhook's only checks     *)
(*    that can refuse an update are those of verifyChanges.                *)
(***************************************************************************)
EXTENDS Naturals, FiniteSets

CONSTANTS
  Objects,        \* namespace/name of LoadBalancer objects
  UIDs,           \* Kubernetes UIDs: one per creation of an object
  LBs,            \* cloudscale UUIDs
  Foreign,        \* the load balancers of the project that nobody created here
  Zones,          \* cloudscale zones
  None,           \* an empty string or a missing value
  OtherFinalizer, \* may objects carry another controller's finalizer: SUBSET BOOLEAN
  MaxFaults,      \* bound: failed calls, lost replies and restarts
  MaxEdits,       \* bound: spec edits by users
  MaxCloud        \* bound: changes made behind the controller's back

ASSUME ConstantsAssumption ==
  /\ Foreign \subseteq LBs
  /\ None \notin Objects \cup UIDs \cup LBs \cup Zones \cup {"true"}
  /\ "true" \notin UIDs
  /\ OtherFinalizer \subseteq BOOLEAN
  /\ MaxFaults \in Nat /\ MaxEdits \in Nat /\ MaxCloud \in Nat

VARIABLES
  \* the Kubernetes API server
  api,      \* api[c]: the stored version of object c
  issued,   \* UIDs given out so far
  \* the controller process
  watch,    \* watch[c]: versions written and not yet seen by the informer
  cache,    \* cache[c]: the version the informer cache holds
  queue,    \* keys in the work queue
  w,        \* the worker: its next remote call and Reconcile's local variables
  \* the cloudscale project
  cloud,    \* cloud[l]: load balancer l
  servers,  \* the zones of the servers behind the matching nodes
  \* bounds
  faults, edits, meddled

vars == <<api, issued, watch, cache, queue, w, cloud, servers, faults, edits, meddled>>

workerFrame == <<issued, cache, servers, edits, meddled>>
userFrame   == <<cache, queue, w, cloud, servers, faults, meddled>>
cloudFrame  == <<api, issued, watch, cache, queue, w, faults, edits>>

Statuses == {"changing", "active"}

\* A version of a LoadBalancer object: resourceVersion, UID, metadata, the
\* spec fields the life cycle depends on, and its status.
Version ==
  [rv: Nat, exists: BOOLEAN, uid: UIDs \cup {None},
   deleting: BOOLEAN, fin: BOOLEAN, other: BOOLEAN,
   uuid: LBs \cup {None}, zone: Zones \cup {None}, vips: BOOLEAN,
   status: Statuses \cup {None}, report: SUBSET Zones]

\* No object under this name; the resource version keeps growing.
Absent(n) ==
  [rv |-> n, exists |-> FALSE, uid |-> None,
   deleting |-> FALSE, fin |-> FALSE, other |-> FALSE,
   uuid |-> None, zone |-> None, vips |-> FALSE,
   status |-> None, report |-> {}]

\* A cloudscale load balancer: its name (None: not one the controller gives),
\* the tags the controller reads, and whether its flavor is lb-standard.
CloudLB ==
  [st: {"unborn", "alive", "gone"}, name: Objects \cup {None},
   uid: UIDs \cup {None}, managed: {"true", None}, adopted: BOOLEAN,
   standard: BOOLEAN, zone: Zones \cup {None}, status: Statuses \cup {None}]

Unborn ==
  [st |-> "unborn", name |-> None, uid |-> None, managed |-> None,
   adopted |-> FALSE, standard |-> TRUE, zone |-> None, status |-> None]

\* What a cloudscale reply tells Reconcile about a load balancer.
Reply == [id: LBs \cup {None}, zone: Zones \cup {None}, status: Statuses \cup {None}]
NoReply == [id |-> None, zone |-> None, status |-> None]
ReplyOf(l) == [id |-> l, zone |-> cloud[l].zone, status |-> cloud[l].status]

Alive(l) == cloud[l].st = "alive"

Calls ==
  {"addFinalizer", "listCreated", "guessZone", "create", "get", "adopt",
   "saveUUID", "saveZone", "saveStatus", "pools", "saveReport", "done",
   "delete", "listManaged", "deleteListed", "removeFinalizer"}

\* The worker: the pending call, the key, Reconcile's copy lb of the object,
\* ensuredLB, the zone to create in, what clean-up has still to delete, the
\* nodes whose servers are still to be asked for and the servers seen.
Work ==
  [pc: Calls \cup {"idle"}, key: Objects \cup {None}, lb: Version, ens: Reply,
   zone: Zones \cup {None}, doomed: SUBSET LBs, todo: SUBSET Zones,
   view: SUBSET Zones]

Idle ==
  [pc |-> "idle", key |-> None, lb |-> Absent(0), ens |-> NoReply,
   zone |-> None, doomed |-> {}, todo |-> {}, view |-> {}]

Init ==
  /\ api = [c \in Objects |-> Absent(0)]
  /\ issued = {}
  /\ watch = [c \in Objects |-> {}]
  /\ cache = api
  /\ queue = {}
  /\ w = Idle
  /\ \E z \in [Foreign -> Zones], s \in [Foreign -> BOOLEAN] :
       cloud = [l \in LBs |->
                 IF l \in Foreign
                 THEN [Unborn EXCEPT !.st = "alive", !.zone = z[l],
                                     !.standard = s[l], !.status = "active"]
                 ELSE Unborn]
  /\ servers \in SUBSET Zones
  /\ faults = 0 /\ edits = 0 /\ meddled = 0

--------------------------------------------------------------------------------
(* The Kubernetes API server *)

\* Wrong on purpose: a webhook that does not protect the UUID.
verifyChanges_zoneOnly(old, new) ==
  /\ old.zone # None => new.zone = old.zone
  /\ new.vips = old.vips

\* verifyChanges of the validating webhook; vips stands for the whole list.
verifyChanges(old, new) ==
  /\ old.uuid # None => new.uuid = old.uuid
  /\ old.zone # None => new.zone = old.zone
  /\ new.vips = old.vips

\* The version the API server stores for an accepted write: an object that is
\* being deleted disappears with its last finalizer.
Stored(v) ==
  IF v.deleting /\ ~v.fin /\ ~v.other THEN Absent(v.rv + 1)
                                      ELSE [v EXCEPT !.rv = v.rv + 1]

Put(c, v) ==
  /\ api' = [api EXCEPT ![c] = Stored(v)]
  /\ watch' = [watch EXCEPT ![c] = watch[c] \cup {Stored(v)}]

\* The optimistic lock of an update: it is based on the stored version.
Fresh == api[w.key].exists /\ api[w.key].rv = w.lb.rv

\* r.Update: the optimistic lock, then the webhook
UpdateAccepted(new) == Fresh /\ verifyChanges(api[w.key], new)

--------------------------------------------------------------------------------
(* Going on with Reconcile, and leaving it *)

Goto(x) == w' = x /\ UNCHANGED <<queue, faults>>

\* Wrong on purpose: the key is read after the worker has let go of it.
Requeue_late == w' = Idle /\ queue' = queue \cup {w'.key}

Requeue == w' = Idle /\ queue' = queue \cup {w.key}

\* return an error: the controller requeues the key with a rate limit
Fail == Requeue /\ UNCHANGED faults

\* Wrong on purpose: without the deferred function nothing is requeued.
Done_forgets == w' = Idle /\ UNCHANGED <<queue, faults>>

\* return Result{}, nil: the deferred function requeues the key after
\* maxReconcileInterval; a changing load balancer is looked at again after 5s
Done == Requeue /\ UNCHANGED faults

\* return Result{Requeue: true}, nil
Again == Requeue /\ UNCHANGED faults

Fault == faults < MaxFaults /\ faults' = faults + 1

\* The worker gets an error from a call, whether or not it had its effect.
Lost == Fault /\ Requeue

\* A write after which Reconcile goes on with the version the server returned.
WriteAndGoto(accepted, new, p) ==
  \/ /\ accepted
     /\ Put(w.key, new)
     /\ Goto([w EXCEPT !.pc = p, !.lb = Stored(new)]) \/ Lost
  \/ ~accepted /\ Fail /\ UNCHANGED <<api, watch>>

\* A write that is Reconcile's last call; leave is how it returns.
WriteAndLeave(accepted, new, leave) ==
  \/ /\ accepted
     /\ Put(w.key, new)
     /\ leave \/ Lost
  \/ ~accepted /\ Fail /\ UNCHANGED <<api, watch>>

--------------------------------------------------------------------------------
(* Reconcile *)

\* ensureLoadBalancer's first call
EnsureCall(v) == IF v.uuid = None THEN "listCreated" ELSE "get"

\* cleanupLoadBalancer's first call
CleanupCall(v) == IF v.uuid = None THEN "listManaged" ELSE "delete"

\* Wrong on purpose: the load balancer is created before the finalizer is set.
FirstCall_noFinalizer(v) ==
  IF v.deleting THEN IF v.fin THEN CleanupCall(v) ELSE "done" ELSE EnsureCall(v)

\* Wrong on purpose: the finalizer goes before the load balancer.
FirstCall_noCleanup(v) ==
  CASE v.deleting /\ v.fin   -> "removeFinalizer"
    [] v.deleting /\ ~v.fin  -> "done"
    [] ~v.deleting /\ ~v.fin -> "addFinalizer"
    [] ~v.deleting /\ v.fin  -> EnsureCall(v)

\* Wrong on purpose: clean-up does not wait for the deletion timestamp.
FirstCall_eager(v) ==
  IF v.fin THEN CleanupCall(v) ELSE IF v.deleting THEN "done" ELSE "addFinalizer"

\* Reconcile's first call for the cached version v
FirstCall(v) ==
  CASE v.deleting /\ v.fin   -> CleanupCall(v)
    [] v.deleting /\ ~v.fin  -> "done"
    [] ~v.deleting /\ ~v.fin -> "addFinalizer"
    [] ~v.deleting /\ v.fin  -> EnsureCall(v)

\* Reconcile's next call once ensureLoadBalancer has returned reply r for an
\* object that has a UUID
AfterEnsure(v, r) ==
  IF v.zone = None THEN "saveZone"
  ELSE IF v.status # r.status THEN "saveStatus"
  ELSE IF r.status = "changing" THEN "done" ELSE "pools"

\* The worker takes a key and reads the object from the informer cache.
Start(c) ==
  LET v == cache[c] IN
  /\ w.pc = "idle"
  /\ c \in queue
  /\ queue' = queue \ {c}
  /\ w' = IF v.exists
          THEN [Idle EXCEPT !.pc = FirstCall(v), !.key = c, !.lb = v,
                            !.doomed = IF FirstCall(v) = "delete"
                                       THEN {v.uuid} ELSE {}]
          ELSE Idle
  /\ UNCHANGED <<api, watch, cloud, faults, workerFrame>>

AddFinalizer ==
  LET new == [w.lb EXCEPT !.fin = TRUE] IN
  /\ w.pc = "addFinalizer"
  /\ WriteAndGoto(UpdateAccepted(new), new, EnsureCall(new))
  /\ UNCHANGED <<cloud, workerFrame>>

\* Wrong on purpose: the filter that cleanupLoadBalancer uses.
CreatedFor_byManagedTag(l, c, u) ==
  Alive(l) /\ cloud[l].managed = u /\ cloud[l].name = c

\* Wrong on purpose: the name alone identifies the load balancer.
CreatedFor_byName(l, c, u) == Alive(l) /\ cloud[l].name = c

\* A load balancer created earlier for this object, and still under its name.
CreatedFor(l, c, u) == Alive(l) /\ cloud[l].uid = u /\ cloud[l].name = c

ListCreated ==
  /\ w.pc = "listCreated"
  /\ \/ \E l \in LBs :
          /\ CreatedFor(l, w.key, w.lb.uid)
          /\ Goto([w EXCEPT !.pc = "saveUUID", !.ens = ReplyOf(l)])
     \/ /\ \A l \in LBs : ~CreatedFor(l, w.key, w.lb.uid)
        /\ Goto([w EXCEPT !.pc = IF w.lb.zone = None THEN "guessZone" ELSE "create",
                          !.zone = w.lb.zone, !.todo = Zones])
  /\ UNCHANGED <<api, watch, cloud, workerFrame>>

\* guessLoadbalancerZone: ask for the server of one node after the other (one
\* that is not found is skipped); in the end there must be exactly one zone.
GuessZone ==
  /\ w.pc = "guessZone"
  /\ \E n \in w.todo :
       LET rest == w.todo \ {n}
           seen == w.view \cup ({n} \cap servers)
       IN
       \/ /\ rest # {}
          /\ Goto([w EXCEPT !.todo = rest, !.view = seen])
       \/ /\ rest = {}
          /\ \/ \E z \in Zones :
                  seen = {z} /\ Goto([w EXCEPT !.pc = "create", !.zone = z])
             \/ (\A z \in Zones : seen # {z}) /\ Fail
  /\ UNCHANGED <<api, watch, cloud, workerFrame>>

\* A project that is out of load balancers refuses the request.
Create ==
  /\ w.pc = "create"
  /\ \/ \E l \in LBs :
          /\ cloud[l].st = "unborn"
          /\ cloud' = [cloud EXCEPT ![l] =
               [st |-> "alive", name |-> w.key, uid |-> w.lb.uid,
                managed |-> "true", adopted |-> FALSE, standard |-> TRUE,
                zone |-> w.zone, status |-> "changing"]]
          /\ \/ Goto([w EXCEPT !.pc = "saveUUID",
                 !.ens = [id |-> l, zone |-> w.zone, status |-> "changing"]])
             \/ Lost
     \/ /\ \A l \in LBs : cloud[l].st # "unborn"
        /\ Fail /\ UNCHANGED cloud
  /\ UNCHANGED <<api, watch, workerFrame>>

\* ensureLoadBalancer does not adopt load balancer l for the object
RefusesToAdopt(v, l) ==
  \/ v.vips
  \/ ~cloud[l].standard
  \/ v.zone # None /\ cloud[l].zone # v.zone

\* ensureLoadBalancer for an object with a UUID: the load balancer must exist,
\* and is adopted if the controller does not manage it yet.
Get ==
  LET l == w.lb.uuid
      managed == cloud[l].managed = "true"
      usable == Alive(l) /\ (managed \/ ~RefusesToAdopt(w.lb, l))
  IN
  /\ w.pc = "get"
  /\ \/ /\ usable
        /\ Goto([w EXCEPT !.ens = ReplyOf(l),
                          !.pc = IF managed THEN AfterEnsure(w.lb, ReplyOf(l))
                                            ELSE "adopt"])
     \/ ~usable /\ Fail
  /\ UNCHANGED <<api, watch, cloud, workerFrame>>

\* Adopting is tagging: managed and adopted.
Adopt ==
  LET l == w.lb.uuid IN
  /\ w.pc = "adopt"
  /\ \/ /\ Alive(l)
        /\ cloud' = [cloud EXCEPT ![l].managed = "true", ![l].adopted = TRUE]
        /\ Goto([w EXCEPT !.pc = AfterEnsure(w.lb, w.ens)]) \/ Lost
     \/ ~Alive(l) /\ Fail /\ UNCHANGED cloud
  /\ UNCHANGED <<api, watch, workerFrame>>

SaveUUID ==
  LET new == [w.lb EXCEPT !.uuid = w.ens.id, !.zone = w.ens.zone] IN
  /\ w.pc = "saveUUID"
  /\ WriteAndLeave(UpdateAccepted(new), new, Again)
  /\ UNCHANGED <<cloud, workerFrame>>

SaveZone ==
  LET new == [w.lb EXCEPT !.zone = w.ens.zone] IN
  /\ w.pc = "saveZone"
  /\ WriteAndLeave(UpdateAccepted(new), new, Again)
  /\ UNCHANGED <<cloud, workerFrame>>

\* The status subresource is not subject to the webhook.
SaveStatus ==
  LET new == [w.lb EXCEPT !.status = w.ens.status] IN
  /\ w.pc = "saveStatus"
  /\ WriteAndGoto(Fresh, new, IF w.ens.status = "changing" THEN "done" ELSE "pools")
  /\ UNCHANGED <<cloud, workerFrame>>

\* The comparison of the two UUIDs, and everything Reconcile does below the
\* load balancer itself.
Pools ==
  LET usable == w.ens.id = w.lb.uuid /\ Alive(w.lb.uuid) IN
  /\ w.pc = "pools"
  /\ \/ /\ usable
        /\ Goto([w EXCEPT !.pc = IF w.lb.report = servers THEN "done" ELSE "saveReport",
                          !.view = servers])
     \/ ~usable /\ Fail
  /\ UNCHANGED <<api, watch, cloud, workerFrame>>

SaveReport ==
  LET new == [w.lb EXCEPT !.report = w.view] IN
  /\ w.pc = "saveReport"
  /\ WriteAndLeave(Fresh, new, Done)
  /\ UNCHANGED <<cloud, workerFrame>>

Finish ==
  /\ w.pc = "done"
  /\ Done
  /\ UNCHANGED <<api, watch, cloud, workerFrame>>

--------------------------------------------------------------------------------
(* cleanupLoadBalancer, and the removal of the finalizer *)

\* The load balancers cleanupLoadBalancer takes for leftovers of this object:
\* it compares the managed tag with the UID.
Leftover(l) ==
  Alive(l) /\ cloud[l].managed = w.lb.uid /\ cloud[l].name = w.key

\* What follows the deletion of l
AfterDelete(l) ==
  IF w.pc = "delete" THEN "listManaged"
  ELSE IF w.doomed = {l} THEN "removeFinalizer" ELSE "deleteListed"

\* Wrong on purpose: a load balancer that is already deleted is an error.
Delete_strict ==
  /\ w.pc \in {"delete", "deleteListed"}
  /\ \E l \in w.doomed :
       \/ /\ Alive(l)
          /\ cloud' = [cloud EXCEPT ![l].st = "gone"]
          /\ Goto([w EXCEPT !.pc = AfterDelete(l), !.doomed = w.doomed \ {l}]) \/ Lost
       \/ ~Alive(l) /\ Fail /\ UNCHANGED cloud
  /\ UNCHANGED <<api, watch, workerFrame>>

\* Delete the recorded load balancer ("delete"), or one of the leftovers
\* ("deleteListed").  A recorded one that is not found ends the clean-up.
Delete ==
  /\ w.pc \in {"delete", "deleteListed"}
  /\ \E l \in w.doomed :
       \/ /\ Alive(l)
          /\ cloud' = [cloud EXCEPT ![l].st = "gone"]
          /\ Goto([w EXCEPT !.pc = AfterDelete(l), !.doomed = w.doomed \ {l}]) \/ Lost
       \/ /\ ~Alive(l)
          /\ IF w.pc = "delete" THEN Goto([w EXCEPT !.pc = "removeFinalizer"]) ELSE Fail
          /\ UNCHANGED cloud
  /\ UNCHANGED <<api, watch, workerFrame>>

ListManaged ==
  LET found == {l \in LBs : Leftover(l)} IN
  /\ w.pc = "listManaged"
  /\ Goto([w EXCEPT !.pc = IF found = {} THEN "removeFinalizer" ELSE "deleteListed",
                    !.doomed = found])
  /\ UNCHANGED <<api, watch, cloud, workerFrame>>

\* Wrong on purpose: a patch of the finalizers without the optimistic lock.
RemoveFinalizer_patch ==
  /\ w.pc = "removeFinalizer"
  /\ WriteAndLeave(api[w.key].exists, [api[w.key] EXCEPT !.fin = FALSE], Done)
  /\ UNCHANGED <<cloud, workerFrame>>

RemoveFinalizer ==
  LET new == [w.lb EXCEPT !.fin = FALSE] IN
  /\ w.pc = "removeFinalizer"
  /\ WriteAndLeave(UpdateAccepted(new), new, Done)
  /\ UNCHANGED <<cloud, workerFrame>>

--------------------------------------------------------------------------------
(* Faults, and the informer *)

\* The pending call fails without an effect.
CallFails ==
  /\ w.pc \notin {"idle", "done"}
  /\ Lost
  /\ UNCHANGED <<api, watch, cloud, workerFrame>>

\* The process ends; the next one lists all objects and queues them.
Restart ==
  /\ Fault
  /\ w' = Idle
  /\ cache' = api
  /\ watch' = [c \in Objects |-> {}]
  /\ queue' = {c \in Objects : api[c].exists}
  /\ UNCHANGED <<api, issued, cloud, servers, edits, meddled>>

\* The informer moves to a newer version, never back, and queues the key.
Deliver(c) ==
  \E v \in watch[c] :
    /\ cache' = [cache EXCEPT ![c] = v]
    /\ watch' = [watch EXCEPT ![c] = {x \in watch[c] : x.rv > v.rv}]
    /\ queue' = queue \cup {c}
    /\ UNCHANGED <<api, issued, w, cloud, servers, faults, edits, meddled>>

--------------------------------------------------------------------------------
(* Users of the Kubernetes API *)

\* UUIDs a user may write: those of load balancers of the project.
Choices == {None} \cup {l \in LBs : Alive(l)}

UserCreate(c) ==
  /\ ~api[c].exists
  /\ \E u \in UIDs \ issued, l \in Choices, z \in Zones \cup {None},
        vips \in BOOLEAN, other \in OtherFinalizer :
       /\ Put(c, [rv |-> api[c].rv, exists |-> TRUE, uid |-> u,
                  deleting |-> FALSE, fin |-> FALSE, other |-> other,
                  uuid |-> l, zone |-> z, vips |-> vips,
                  status |-> None, report |-> {}])
       /\ issued' = issued \cup {u}
  /\ UNCHANGED <<edits, userFrame>>

UserEdit(c) ==
  /\ edits < MaxEdits /\ edits' = edits + 1
  /\ api[c].exists
  /\ \E l \in Choices, z \in Zones \cup {None} :
       LET new == [api[c] EXCEPT !.uuid = l, !.zone = z] IN
       new # api[c] /\ verifyChanges(api[c], new) /\ Put(c, new)
  /\ UNCHANGED <<issued, userFrame>>

UserDelete(c) ==
  /\ api[c].exists /\ ~api[c].deleting
  /\ Put(c, [api[c] EXCEPT !.deleting = TRUE])
  /\ UNCHANGED <<issued, edits, userFrame>>

\* The other controller is done with an object that is being deleted.
OtherReleases(c) ==
  /\ api[c].exists /\ api[c].deleting /\ api[c].other
  /\ Put(c, [api[c] EXCEPT !.other = FALSE])
  /\ UNCHANGED <<issued, edits, userFrame>>

--------------------------------------------------------------------------------
(* The cloudscale project *)

\* A load balancer has finished what it was doing.
CloudSettles(l) ==
  /\ Alive(l) /\ cloud[l].status = "changing"
  /\ cloud' = [cloud EXCEPT ![l].status = "active"]
  /\ UNCHANGED <<servers, meddled, cloudFrame>>

\* It starts changing by itself, or somebody renames or deletes it.
CloudChanges(l) ==
  /\ meddled < MaxCloud /\ meddled' = meddled + 1
  /\ Alive(l)
  /\ \/ cloud' = [cloud EXCEPT ![l].status = "changing"]
     \/ cloud' = [cloud EXCEPT ![l].name = None]
     \/ cloud' = [cloud EXCEPT ![l].st = "gone"]
  /\ UNCHANGED <<servers, cloudFrame>>

\* Nodes or their servers come and go.
ServersChange ==
  /\ meddled < MaxCloud /\ meddled' = meddled + 1
  /\ servers' \in SUBSET Zones
  /\ UNCHANGED <<cloud, cloudFrame>>

--------------------------------------------------------------------------------

Worker ==
  \/ AddFinalizer \/ ListCreated \/ GuessZone \/ Create \/ Get \/ Adopt
  \/ SaveUUID \/ SaveZone \/ SaveStatus \/ Pools \/ SaveReport \/ Finish
  \/ Delete \/ ListManaged \/ RemoveFinalizer

Users(c) == UserCreate(c) \/ UserEdit(c) \/ UserDelete(c) \/ OtherReleases(c)

Project ==
  \/ \E l \in LBs : CloudSettles(l) \/ CloudChanges(l)
  \/ ServersChange

Next ==
  \/ \E c \in Objects : Start(c) \/ Deliver(c) \/ Users(c)
  \/ Worker
  \/ CallFails \/ Restart
  \/ Project

Spec == Init /\ [][Next]_vars

\* The work queue is fair to its keys, a call that can succeed does so once
\* the faults are used up, the informer keeps up, a changing load balancer
\* settles and other controllers release what is being deleted.
Fairness ==
  /\ WF_vars(Worker)
  /\ \A c \in Objects : /\ SF_vars(Start(c))
                        /\ WF_vars(Deliver(c))
                        /\ WF_vars(OtherReleases(c))
  /\ \A l \in LBs : WF_vars(CloudSettles(l))

FairSpec == Spec /\ Fairness

--------------------------------------------------------------------------------
(* Properties *)

\* Every variable stays in its type, wherever an error, a conflict or a restart
\* ends Reconcile (lines 70-242) and whatever copy of the object it works on.
TypeOK ==
  /\ api \in [Objects -> Version]
  /\ issued \subseteq UIDs
  /\ watch \in [Objects -> SUBSET Version]
  /\ cache \in [Objects -> Version]
  /\ queue \subseteq Objects
  /\ w \in Work
  /\ cloud \in [LBs -> CloudLB]
  /\ servers \subseteq Zones
  /\ faults \in Nat /\ edits \in Nat /\ meddled \in Nat

\* ensureLoadBalancer looks for a load balancer tagged with the object's UID
\* before it creates one (lines 751-761).  So a create whose reply was lost, a
\* failed save of the UUID or a restart never leads to a second load balancer
\* for the object, unless somebody renames the first.
OneLoadBalancerPerObject ==
  \A l, m \in LBs :
    /\ Alive(l) /\ Alive(m)
    /\ cloud[l].uid # None /\ cloud[l].uid = cloud[m].uid
    /\ cloud[l].name # None /\ cloud[l].name = cloud[m].name
    => l = m

\* While Reconcile may create a load balancer for an object, that very object
\* (not a later one of the same name) is stored with the finalizer, however
\* stale the cached version was that Reconcile started from (lines 89-110): it
\* cannot disappear before cleanupLoadBalancer has run.
CreatesUnderFinalizer ==
  w.pc \in {"listCreated", "guessZone", "create", "saveUUID"} =>
    api[w.key].exists /\ api[w.key].uid = w.lb.uid /\ api[w.key].fin

\* The finalizer is only removed when the load balancer the object records is
\* deleted: an object that loses it names no load balancer that is alive,
\* although clean-up worked on a cached copy (lines 89-99).
FinalizedMeansDeleted == [][
  \A c \in Objects :
    api[c].exists /\ api[c].fin /\ ~api'[c].fin /\ api[c].uuid # None
      => cloud'[api[c].uuid].st # "alive"]_vars

\* The worker deletes a load balancer only while the API server stores an
\* object that is being deleted, and that records the load balancer or had it
\* created when the save of the UUID failed (lines 914-941): a clean-up that
\* starts from a stale copy, or is repeated after a lost reply, hits nothing
\* else, not even what an earlier object of the same name left behind.
DeletesOnlyForDeletion == [][
  \A l \in LBs :
    Delete /\ Alive(l) /\ cloud'[l].st = "gone" =>
      \E c \in Objects : /\ api[c].exists /\ api[c].deleting /\ api[c].fin
                         /\ api[c].uuid = l \/ cloud[l].uid = api[c].uid]_vars

\* Reconcile and cleanupLoadBalancer write whole objects from a local copy;
\* no such write undoes what somebody else stored meanwhile: as long as an
\* object lives its UUID and zone are fixed once they are set, and a deletion
\* or the other controller's release is not taken back.
NoLostWrite == [][
  \A c \in Objects :
    api[c].exists /\ api'[c].exists /\ api[c].uid = api'[c].uid =>
      /\ api[c].uuid # None => api'[c].uuid = api[c].uuid
      /\ api[c].zone # None => api'[c].zone = api[c].zone
      /\ api[c].deleting => api'[c].deleting
      /\ api'[c].other => api[c].other]_vars

\* The UUID and zone Reconcile records (lines 114-121) are those of a load
\* balancer that was created for this very object.
RecordsItsOwn == [][
  \A c \in Objects :
    SaveUUID /\ api[c].uuid = None /\ api'[c].uuid # None =>
      /\ cloud[api'[c].uuid].uid = api[c].uid
      /\ cloud[api'[c].uuid].zone = api'[c].zone]_vars

\* cleanupLoadBalancer, line 925: "Cleanup load balancers that were created
\* but manifest save failed."  So no load balancer created for an object
\* outlives the object.
NoOrphans ==
  \A l \in LBs :
    Alive(l) /\ cloud[l].uid # None =>
      \E c \in Objects : api[c].exists /\ api[c].uid = cloud[l].uid

\* ensureLoadBalancer, lines 824-832: "refusing to adopt load balancer".  So
\* the controller deletes only load balancers that it manages.
DeletesOnlyManaged ==
  [][\A l \in LBs : Delete /\ Alive(l) /\ cloud'[l].st = "gone" =>
       cloud[l].managed = "true"]_vars

\* An object that is being deleted goes away: clean-up is retried after every
\* error until the finalizer is removed.
DeletionCompletes ==
  \A c \in Objects, u \in UIDs :
    (api[c].uid = u /\ api[c].deleting) ~> (api[c].uid # u)

\* An object that asks for a new load balancer, in a zone that is given or can
\* be guessed, or that names one that can be adopted.
Serviceable(c) ==
  /\ api[c].exists /\ ~api[c].deleting
  /\ IF api[c].uuid = None
     THEN api[c].zone # None \/ \E z \in Zones : servers = {z}
     ELSE LET l == api[c].uuid IN
          /\ Alive(l)
          /\ \/ cloud[l].managed = "true"
             \/ /\ ~api[c].vips /\ cloud[l].standard
                /\ api[c].zone \in {None, cloud[l].zone}

\* Such an object is served, if it is not deleted: its load balancer is
\* recorded with its zone and is active, and the pools pass has been reported.
Served ==
  \A c \in Objects, u \in UIDs :
    (api[c].uid = u /\ Serviceable(c)) ~>
      \/ api[c].uid # u \/ api[c].deleting
      \/ /\ api[c].uuid # None /\ api[c].zone # None
         /\ api[c].status = "active" /\ api[c].report = servers

\* loadbalancer_types.go, lines 15-16: the UUID "is set by the CCM after
\* creating the load balancer, to ensure that we track it".  So once a load
\* balancer is created for an object, the object gets a UUID, or is deleted.
CreatedIsTracked ==
  \A c \in Objects, u \in UIDs :
    (api[c].uid = u /\ \E l \in LBs : CreatedFor(l, c, u)) ~>
      (api[c].uid # u \/ api[c].deleting \/ api[c].uuid # None)
================================================================================
