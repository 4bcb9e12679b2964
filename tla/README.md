# Verification of the cloudscale load balancer controller

TLA+ models of the controller that turns `LoadBalancer` objects of a Kubernetes
cluster into load balancers of a cloudscale project. The models are checked with
TLC on small instances; theorems about the core are proved with TLAPS for every
value of the constants. `PROJECT.json` lists the runs, the source lines behind
every definition, the hazards and the theorems.

## The system

| Part | Source | State it changes | Who calls it | Model |
| --- | --- | --- | --- | --- |
| `Reconcile`, `ensureLoadBalancer`, `guessLoadbalancerZone`, `cleanupLoadBalancer` | `controllers/loadbalancer_controller.go` 70-242, 745-850, 911-976 | the object (finalizer, UUID, zone, status), the cloudscale load balancer | the one worker of the controller | `LBLifecycle` |
| `ensureLoadBalancerPools`, `ensureLoadBalancerListener`, `ensureLoadBalancerHealthMonitor` | same, 374-743 | pools, listeners, health monitors | `Reconcile` | `LBPools` |
| `matchingNodes`, `cloudscaleServersForNodes`, `ensureLoadBalancerPoolMembers` | same, 290-372, 852-909 | pool members | `Reconcile` | planned; in `LBLifecycle` a set of zones |
| `attachFloatingIPs` | same, 256-288 | floating IPs | `Reconcile` | planned |
| Validating webhook | `webhook/v1beta1/loadbalancer_webhook.go` | none: it accepts or refuses writes, reading the cache | the API server, on every create and update except of the status | `verifyChanges` in `LBLifecycle`; floating IPs planned |
| Node update handler | `controllers/node_update_handler.go` | the work queue | informer events of nodes | planned |
| Status collector | `controllers/loadbalancer_status_collector.go` | none | Prometheus scrapes | planned as a property of the status |
| Manager set-up | `main.go` | - | process start | `Restart`, one active worker |
| API types, deep copies | `api/v1beta1` | - | - | the fields the control depends on |

`Reconcile` is the only writer of the cloudscale project. It runs in one worker
(controller-runtime's default), in one active process (`--leader-elect` in
`config/manager/manager.yaml`). It reads objects from an informer cache that
lags behind the API server, writes with optimistic locking, and makes one
remote call after the other; any of them can fail, with or without its effect,
and the process can end between any two. Users and other controllers write the
same objects; other people use the same cloudscale project.

## Modules

### LBLifecycle

One action is one remote call of the worker; the code between two calls is local
and belongs to the action of the first. The variable `w` holds the pending call
and `Reconcile`'s local variables, `api` the stored objects, `watch` and `cache`
the informer, `queue` the work queue, `cloud` the load balancers of the project.

| Action | Code |
| --- | --- |
| `Start` | taking a key, reading the cached object, choosing the first call (70-110) |
| `AddFinalizer`, `RemoveFinalizer` | 104-108, 94-98 |
| `ListCreated`, `Create` | `ensureLoadBalancer` without a UUID (750-808) |
| `GuessZone` | one request for the server of a node in `guessLoadbalancerZone` (946-976); the last one decides |
| `Get`, `Adopt` | `ensureLoadBalancer` with a UUID (810-849) |
| `SaveUUID`, `SaveZone`, `SaveStatus`, `SaveReport` | the four writes of `Reconcile` (114-134, 235-239) |
| `Pools` | the comparison of the UUIDs (139-141) and everything below the load balancer (143-233), as one step |
| `Delete`, `ListManaged` | `cleanupLoadBalancer` (914-941) |
| `CallFails`, and `Lost` inside every writing action | a call that fails without or with its effect |
| `Restart`, `Deliver` | process and informer |
| `UserCreate`, `UserEdit`, `UserDelete`, `OtherReleases` | other writers; `verifyChanges` is the webhook's |
| `CloudSettles`, `CloudChanges`, `ServersChange` | the project by itself and in other hands |

Two loops over nodes are treated differently. `GuessZone` makes one request after
the other, so that servers can come and go in between; every zone has one node,
whose server is found or not. `Pools` makes all its requests in one step: nothing
that `LBLifecycle` is about depends on what changes while it runs, except that the
load balancer exists when it begins.

Every requeue, delayed or not, puts the key back into the queue: there is no
clock. After a `Restart` the informer begins with a list of the stored objects
that is taken to be current, before the worker takes its first key (the manager
waits for the caches); from then on the cache lags as before. The API server, the informer and cloudscale are external and modelled
from what the controller relies on: a resource version per write, removal of an
object with its last finalizer, an informer that may skip versions and never
goes back, tag filters that return exactly the load balancers with that tag.

### LBPools

The pools of one load balancer, with their listeners and health monitors. Both
are reconciled by one scheme, so both are "children" of a pool with a key that
forces deletion and creation (protocol and port; type) and attributes that are
updated one by one. What a spec asks for is given in the terms of the request:
defaults are filled in, enum values renamed (one to one) and durations cut to
seconds or milliseconds. `None` is the zero value of a request, which JSON leaves
out; an empty list of allowed CIDRs is sent and is an ordinary value.
Each single-attribute update of the code relies on zero values being left out.

The actions follow the calls: `ListPools`, `DeletePool`, `MatchPool` (one pool of
the spec: matched with a listed one or created) are `ensureLoadBalancerPools`;
`List`, `Delete`, `Create`, `Update` are the other two functions. `UserEdit` and
`Deliver` change the stored and the cached spec; `CloudChanges` is somebody who
deletes a pool or deletes or changes a child. All pools of a pass are matched
against one list; its order is up to cloudscale, but pools that are equal get the
same match. A deleted pool takes its children with it. If cloudscale kept them
and they went on naming the deleted pool, as in the mock server of the tests,
nothing would change: the code only looks at children of pools that it has
listed, and a UUID is not used twice. If it kept them without a pool, the code
would dereference a nil pointer (lines 560 and 381); nothing in the repository
tells whether that can happen, and it is listed as a hazard.

The two modules meet at the step `Pools` of `LBLifecycle`: a pass of `LBPools`
runs there, for a load balancer that exists and is active, from the same cached
copy.

### MCLBLifecycle, MCLBPools

The instances: symmetry sets, and for the pools the specs that users write.

### LBLifecycleProofs

The theorems about `LBLifecycle`.

## Runs

| Run | Instance | Shows |
| --- | --- | --- |
| `one_object` | one object, a load balancer to adopt, two to create, two zones; one fault, one edit, one outside change | `TypeOK`, `OneLoadBalancerPerObject`, `NoLostWrite`, `FinalizedMeansDeleted` |
| `recreate` | one name and two UIDs, another controller's finalizer; one fault | `CreatesUnderFinalizer`, `FinalizedMeansDeleted`, `RecordsItsOwn` |
| `two_objects` | two names, two UIDs and room for one load balancer, which both objects may name; one fault | `DeletesOnlyForDeletion` |
| `liveness` | one object, two zones, one fault, with fairness | `DeletionCompletes`, `Served` |
| `pools` | seven specs of up to two pools, an adopted load balancer with a pool; two edits, one fault, one outside change | `TypeOK`, `OneChildPerPool`, `NoTwinPools`, `PassIsComplete` |
| `pools_liveness` | the same specs; one edit, one fault, with fairness | `Converges` |
| `orphans`, `refused`, `tracking`, `host_removed`, `same_name` | no faults | what a comment, a message or the documentation says and the code does not do: see below |

Bounds. A lost reply, a conflict or a restart ends the pass, and the next one
starts from nothing but the cached object, so a second fault meets no kind of
state that one fault at another place does not; the theorems hold for any
number. Two load balancers are needed for a wrong second creation, two UIDs for a
name that is used again, two zones for a zone that cannot be guessed or does not
fit, two objects for a load balancer that is named twice. `FinalizedMeansDeleted`
is checked in two runs because different steps threaten it: an edit that sets the
UUID during clean-up (`one_object`) and a name that is used again (`recreate`). In
`two_objects` the load balancer may be recorded by one object or both, or left
behind unrecorded by an object that is gone, when clean-up of the other object,
or of the next one under the same name, must not touch it. For the pools,
two edits allow for a value that changes and changes back while a pass is under
way, and the specs differ in every way the code treats differently: an
attribute, a key, the kind of a pool, its presence and the order.

The system may stop in the runs of `LBLifecycle`: when all UIDs are used up and
the objects are gone there is nothing left to do. Deadlock is not checked there.
In `LBPools` the worker always has a next step, and deadlock is checked.

Fairness. The worker finishes its calls (`WF(Worker)`; clients have timeouts);
the queue serves every key in it (`SF(Start)`, since the worker is busy in
between); the informer delivers (`WF(Deliver)`); cloudscale finishes what it is
doing (`WF(CloudSettles)`); another controller releases its finalizer
(`WF(OtherReleases)`). Nothing is assumed about users and faults beyond their
bounds. In `LBPools`, a pass begins again after each end, as `Reconcile`'s deferred function asks for.

## Where the code differs from what it says

1. `orphans`: clean-up looks for leftovers with the managed tag instead of the
   creation tag (line 926), so an object that is deleted before its load balancer
   is recorded leaves it behind.
2. `refused`: an object that names a load balancer which `ensureLoadBalancer`
   refuses to adopt still deletes it in the end (line 915).
3. `tracking`: if a user sets a zone while the load balancer is being created in
   the guessed one, the webhook refuses the save of the UUID for ever.
4. `host_removed`: a host header that is removed from the spec is never removed
   from the health monitor (line 524).
5. `same_name`: two pools with the same name share an upstream pool from the
   second pass on, and its listener is replaced twice on every pass (line 713).

## Proofs

`LBLifecycleProofs` proves, from `ConstantsAssumption` alone (foreign load
balancers are load balancers; `None` and the tag value `"true"` are no
identifiers; the bounds are natural numbers):

| Theorem | Property |
| --- | --- |
| `TypeCorrect` | `TypeOK` |
| `NoSecondLoadBalancer` | `OneLoadBalancerPerObject` |
| `CreationIsGuarded` | `CreatesUnderFinalizer` |
| `WritesAreSafe` | `NoLostWrite` |
| `FinalizerHolds` | `FinalizedMeansDeleted` |
| `CleanupIsTargeted` | `DeletesOnlyForDeletion` |
| `RecordsAreRight` | `RecordsItsOwn` |

The inductive invariant `IInv` (theorem `Invariance`) adds to the type invariant
and `OneLoadBalancerPerObject`:

- `CopiesOK`: what a copy of an object, in the informer's backlog or in its cache,
  still says truly about the stored object. A copy of the stored resource version
  is the stored object. If a copy has the finalizer and is not being deleted, the
  same object is still stored with the finalizer. If it has the finalizer, is
  being deleted and its load balancer is alive, the stored object is in that
  state too. Without this nothing can be said of a pass that starts from a stale
  copy.
- `WorkerOK`: the same for the worker's copy, and what it may rely on before each
  call. Creation happens with the finalizer set; clean-up deletes the recorded load
  balancer, which is gone when the finalizer is about to be removed.
- `CreationOK`: a worker that is about to create knows that no load balancer of
  this UID and name is alive. The list call establishes it; nobody else creates one.

There is one lemma per action for `IInv`; the action properties then follow from
`IInv` with lemmas about the writes an action makes. `CleanupIsTargeted` rests on
what clean-up does now: its list finds nothing (`orphans`), so that only recorded
load balancers are deleted. The property itself also allows for the leftovers that
the comment at line 925 means: the run `two_objects` also passes with the creation
tag in `Leftover`.

Only model-checked: liveness (it needs fairness and `ENABLED`), and everything
about `LBPools`.

## Not modelled

Event recording, logging and metrics; formatting of names, addresses and CIDRs
and the webhook's checks of their syntax; TLS and flag handling in `main.go`;
generated code and test utilities. Two active controllers at once are excluded
by leader election.

## Plan

1. `LBMembers`: nodes, servers and pool members, with the node update handler and
   the queue. A server error must not remove members; the status must name the
   nodes as they are; every node change must reach the members, also if the
   handler's list fails.
2. `LBFloatingIPs`: two objects, the webhook's check against a stale cache, and
   `attachFloatingIPs` with partial failures. Uniqueness, and whether the
   controller's own updates (the finalizer's removal) can be locked out.
3. Composition of `LBLifecycle` and `LBPools`: two objects that name the same
   load balancer, and deletion under way of a pass.
4. An abstract specification of ownership (an object has none, one or a deleted
   load balancer) that `LBLifecycle` implements, as a run and as a theorem.
5. Conversions of durations and HTTP attributes of health monitors as operators.
6. Proofs: `OneChildPerPool` and `NoTwinPools` with their inductive invariants,
   then `PassIsComplete`; the refinement of item 4.
