-------------------------------- MODULE LBPools --------------------------------
(***************************************************************************)
(* The pools of one load balancer, with the listener and the health        *)
(* monitor of each: lines 143-158 of LoadBalancerReconciler.Reconcile with *)
(* ensureLoadBalancerPools, ensureLoadBalancerListener and                 *)
(* ensureLoadBalancerHealthMonitor.  The worker passes over spec.pools     *)
(* again and again, from a copy of the object that the informer cache gave *)
(* it, while users edit the spec and other people touch the cloudscale     *)
(* project; any call may fail, with or without its effect.                 *)
(*                                                                         *)
(* Listeners and health monitors are reconciled by the same scheme and are *)
(* both "children" of a pool here: a key that cannot be changed (protocol  *)
(* and port; type) and attributes that are updated one by one.  What a     *)
(* spec asks for is given in the terms of the request, that is, after      *)
(* defaults and conversion to cloudscale's words and units; None is the    *)
(* zero value, which JSON leaves out of a request.                         *)
(***************************************************************************)
EXTENDS Naturals, Sequences, FiniteSets, Functions

CONSTANTS
  Specs,      \* the values of spec.pools that users write: sequences of pools
  Adopted,    \* the pools [name, kind] an adopted load balancer comes with
  PoolIDs,    \* cloudscale UUIDs of pools
  ChildIDs,   \* cloudscale UUIDs of listeners and health monitors
  Attrs,      \* Attrs[c]: the attributes of a child, in the order of the code
  HTTPAttrs,  \* the attributes that only some types of health monitors have
  HTTPKeys,   \* those types: http and https
  Values,     \* values of attributes
  Default,    \* Default[a]: what cloudscale assumes for an attribute left out
  None,       \* the zero value; also: no pool
  MaxFaults,  \* bound: failed calls, lost replies and restarts
  MaxEdits,   \* bound: spec edits by users
  MaxCloud    \* bound: changes made behind the controller's back

Children == {"listener", "monitor"}

VARIABLES
  spec,     \* spec.pools as the API server stores it
  seen,     \* spec.pools as the informer cache holds it
  w,        \* the worker: its next remote call and its local variables
  pools,    \* pools[p]: pool p of the load balancer
  child,    \* child[x]: listener or health monitor x
  faults, edits, meddled

vars == <<spec, seen, w, pools, child, faults, edits, meddled>>

workerFrame == <<spec, seen, edits, meddled>>

\* A UUID that nothing has.  One that was in use may be given out again once
\* the worker has forgotten it, when it is as good as new.
NoPool == [name |-> None, kind |-> None]
NoChild == [of |-> None, pool |-> None, key |-> None, attrs |-> <<>>]

\* The worker: the pending call, its copy of spec.pools, the pools that
\* ensureLoadBalancerPools listed and those of them it has to delete, the
\* pools that it has matched (poolMapping.Theirs), the pool and the child at
\* hand, the listed child and its attributes that differ.  Whether somebody
\* else changed the project during the pass is not known to the program.
Idle ==
  [pc |-> "idle", spec |-> <<>>, actual |-> {}, doomed |-> {}, theirs |-> <<>>,
   j |-> 1, c |-> "listener", x |-> None, todo |-> <<>>, disturbed |-> FALSE]

Init ==
  /\ spec \in Specs
  /\ seen = spec
  /\ w = Idle
  /\ \E f \in [Adopted -> PoolIDs] :
       /\ IsInjective(f)
       /\ pools = [p \in PoolIDs |->
            IF p \in Range(f)
            THEN LET a == CHOOSE a \in Adopted : f[a] = p IN
                 [name |-> a.name, kind |-> a.kind]
            ELSE NoPool]
  /\ child = [x \in ChildIDs |-> NoChild]
  /\ faults = 0 /\ edits = 0 /\ meddled = 0

Alive(p) == pools[p] # NoPool

\* The children of one sort that belong to pool p
Attached(c, p) ==
  {x \in ChildIDs : child[x].of = c /\ child[x].pool = p}

--------------------------------------------------------------------------------
(* Going on, and leaving Reconcile *)

Fault == faults < MaxFaults /\ faults' = faults + 1

Goto(v) == w' = v /\ UNCHANGED faults

\* return an error: the key is queued again
Fail == w' = Idle /\ UNCHANGED faults

\* The worker gets an error from a call, whether or not it had its effect, or
\* the process is restarted.
Lost == Fault /\ w' = Idle

\* The next child, or the next pool, or the end of the pass
Advance(v) ==
  CASE v.c = "listener" -> [v EXCEPT !.pc = "list", !.c = "monitor", !.x = None]
    [] v.c = "monitor" /\ v.j < Len(v.spec) ->
         [v EXCEPT !.pc = "list", !.c = "listener", !.j = v.j + 1, !.x = None]
    [] v.c = "monitor" /\ v.j = Len(v.spec) -> [v EXCEPT !.pc = "done", !.x = None]

--------------------------------------------------------------------------------
(* ensureLoadBalancerPools *)

\* Wrong on purpose: the algorithm and the protocol are not compared.
loadBalancerPoolRequestEqual_name(a, b) == a.name = b.name

\* Names are prefixed with the name of the object, and the load balancer is the
\* same on both sides; kind stands for the algorithm and the protocol.
loadBalancerPoolRequestEqual(a, b) == a.name = b.name /\ a.kind = b.kind

\* Wrong on purpose: a pool of the right name is never in the way.
Unwanted_byName(actual) ==
  {a \in actual : \A i \in DOMAIN w.spec : a.name # w.spec[i].name}

Unwanted(actual) ==
  {a \in actual : \A i \in DOMAIN w.spec : ~loadBalancerPoolRequestEqual(a, w.spec[i])}

\* Wrong on purpose: one pool too many.
AfterPools_offByOne(v) ==
  IF v.doomed # {} THEN "deletePool"
  ELSE IF Len(v.theirs) <= Len(v.spec) THEN "matchPool" ELSE "list"

\* The next step of a pass that has listed the pools
AfterPools(v) ==
  IF v.doomed # {} THEN "deletePool"
  ELSE IF Len(v.theirs) < Len(v.spec) THEN "matchPool"
  ELSE IF v.spec = <<>> THEN "done" ELSE "list"

\* The worker starts a pass over the cached spec.
Start ==
  /\ w.pc = "idle"
  /\ Goto([Idle EXCEPT !.pc = "listPools", !.spec = seen])
  /\ UNCHANGED <<pools, child, workerFrame>>

ListPools ==
  LET actual == {[id |-> p, name |-> pools[p].name, kind |-> pools[p].kind] :
                   p \in {q \in PoolIDs : Alive(q)}}
      v == [w EXCEPT !.actual = actual, !.doomed = {a.id : a \in Unwanted(actual)}]
  IN
  /\ w.pc = "listPools"
  /\ Goto([v EXCEPT !.pc = AfterPools(v)])
  /\ UNCHANGED <<pools, child, workerFrame>>

\* A pool takes its listeners and health monitors with it.  The code only looks
\* at children of pools it has listed, and cloudscale does not use a UUID twice,
\* so children that went on naming the deleted pool would be as good as gone.
DeletePool ==
  /\ w.pc = "deletePool"
  /\ \E p \in w.doomed :
       LET v == [w EXCEPT !.doomed = w.doomed \ {p}] IN
       \/ /\ Alive(p)
          /\ pools' = [pools EXCEPT ![p] = NoPool]
          /\ child' = [x \in ChildIDs |-> IF child[x].pool = p THEN NoChild ELSE child[x]]
          /\ Goto([v EXCEPT !.pc = AfterPools(v)]) \/ Lost
       \/ ~Alive(p) /\ Fail /\ UNCHANGED <<pools, child>>
  /\ UNCHANGED workerFrame

\* The pool of the spec that is next in line is matched with the first of the
\* listed pools that equals it, or created.  The order of the list is up to
\* cloudscale, but the pass has one list: equal pools get the same match.
MatchPool ==
  LET our == w.spec[Len(w.theirs) + 1]
      found == {a \in w.actual : loadBalancerPoolRequestEqual(our, a)}
      first == {a \in found : \A k \in DOMAIN w.theirs :
                  loadBalancerPoolRequestEqual(w.spec[k], a) => w.theirs[k] = a.id}
      free == {p \in PoolIDs : ~Alive(p)} \ ({a.id : a \in w.actual} \cup Range(w.theirs))
      With(p) == LET v == [w EXCEPT !.theirs = Append(w.theirs, p)] IN
                 [v EXCEPT !.pc = AfterPools(v)]
  IN
  /\ w.pc = "matchPool"
  /\ \/ \E a \in first : Goto(With(a.id)) /\ UNCHANGED pools
     \/ /\ found = {}
        /\ \E p \in free :
             /\ pools' = [pools EXCEPT ![p] = [name |-> our.name, kind |-> our.kind]]
             /\ Goto(With(p)) \/ Lost
     \/ /\ found = {} /\ free = {}
        /\ Fail /\ UNCHANGED pools
  /\ UNCHANGED <<child, workerFrame>>

--------------------------------------------------------------------------------
(* ensureLoadBalancerListener and ensureLoadBalancerHealthMonitor *)

\* The child that the spec asks for, and the pool it belongs to
Request == w.spec[w.j][w.c]
Pool == w.theirs[w.j]

\* The attributes that are requested and compared
Asked(c, key) == SelectSeq(Attrs[c], LAMBDA a : a \in HTTPAttrs => key \in HTTPKeys)

\* The attributes of a new child: cloudscale fills in what is left out.
Created(c, r) ==
  [a \in Range(Attrs[c]) |->
     IF a \in Range(Asked(c, r.key)) /\ r.attrs[a] # None THEN r.attrs[a] ELSE Default[a]]

\* Wrong on purpose: the last attribute is never compared.
Differing_butLast(c, r, have) ==
  SelectSeq(Asked(c, r.key), LAMBDA a : a # Attrs[c][Len(Attrs[c])] /\ have[a] # r.attrs[a])

\* The attributes to update, in the order of the code
Differing(c, r, have) == SelectSeq(Asked(c, r.key), LAMBDA a : have[a] # r.attrs[a])

\* Wrong on purpose: the child with the old key is left behind.
Replace_leavesOld(x) == [w EXCEPT !.pc = "create"]

\* The key of child x has changed.
Replace(x) == [w EXCEPT !.pc = "delete", !.x = x]

List ==
  LET found == Attached(w.c, Pool)
      x == CHOOSE x \in found : TRUE
      todo == Differing(w.c, Request, child[x].attrs)
  IN
  /\ w.pc = "list"
  /\ Goto(IF found = {} THEN [w EXCEPT !.pc = "create"]
          ELSE IF Cardinality(found) > 1 THEN Idle
          ELSE IF child[x].key # Request.key THEN Replace(x)
          ELSE IF todo # <<>> THEN [w EXCEPT !.pc = "update", !.x = x, !.todo = todo]
          ELSE Advance(w))
  /\ UNCHANGED <<pools, child, workerFrame>>

\* A child whose key has changed is deleted, to be created again.
Delete ==
  /\ w.pc = "delete"
  /\ \/ /\ child[w.x] # NoChild
        /\ child' = [child EXCEPT ![w.x] = NoChild]
        /\ Goto([w EXCEPT !.pc = "create", !.x = None]) \/ Lost
     \/ child[w.x] = NoChild /\ Fail /\ UNCHANGED child
  /\ UNCHANGED <<pools, workerFrame>>

\* The request is refused if the pool is gone, or the project is full.
Create ==
  LET free == {x \in ChildIDs : child[x] = NoChild} IN
  /\ w.pc = "create"
  /\ \/ \E x \in free :
          /\ Alive(Pool)
          /\ child' = [child EXCEPT ![x] =
               [of |-> w.c, pool |-> Pool, key |-> Request.key,
                attrs |-> Created(w.c, Request)]]
          /\ Goto(Advance(w)) \/ Lost
     \/ (free = {} \/ ~Alive(Pool)) /\ Fail /\ UNCHANGED child
  /\ UNCHANGED <<pools, workerFrame>>

\* One attribute at a time; a request with the zero value changes nothing.
Update ==
  LET a == Head(w.todo)
      v == [w EXCEPT !.todo = Tail(w.todo)]
  IN
  /\ w.pc = "update"
  /\ \/ /\ child[w.x] # NoChild
        /\ child' = IF Request.attrs[a] = None THEN child
                    ELSE [child EXCEPT ![w.x].attrs[a] = Request.attrs[a]]
        /\ Goto(IF v.todo # <<>> THEN v ELSE Advance(v)) \/ Lost
     \/ child[w.x] = NoChild /\ Fail /\ UNCHANGED child
  /\ UNCHANGED <<pools, workerFrame>>

\* The rest of Reconcile, and the wait for the next one
Finish ==
  /\ w.pc = "done"
  /\ Goto(Idle)
  /\ UNCHANGED <<pools, child, workerFrame>>

--------------------------------------------------------------------------------
(* Everybody else *)

\* The pending call fails without an effect, or the process is restarted.
CallFails ==
  /\ w.pc \notin {"idle", "done"}
  /\ Lost
  /\ UNCHANGED <<pools, child, workerFrame>>

UserEdit ==
  /\ edits < MaxEdits /\ edits' = edits + 1
  /\ spec' \in Specs \ {spec}
  /\ UNCHANGED <<seen, w, pools, child, faults, meddled>>

Deliver ==
  /\ seen # spec /\ seen' = spec
  /\ UNCHANGED <<spec, w, pools, child, faults, edits, meddled>>

\* Somebody deletes a pool, or deletes or changes a child.
CloudChanges ==
  /\ meddled < MaxCloud /\ meddled' = meddled + 1
  /\ w' = [w EXCEPT !.disturbed = w.pc # "idle"]
  /\ \/ \E p \in PoolIDs :
          /\ Alive(p)
          /\ pools' = [pools EXCEPT ![p] = NoPool]
          /\ child' = [x \in ChildIDs |-> IF child[x].pool = p THEN NoChild ELSE child[x]]
     \/ \E x \in ChildIDs :
          /\ child[x] # NoChild
          /\ \/ child' = [child EXCEPT ![x] = NoChild]
             \/ \E a \in DOMAIN child[x].attrs, v \in Values :
                  child' = [child EXCEPT ![x].attrs[a] = v]
          /\ UNCHANGED pools
  /\ UNCHANGED <<spec, seen, faults, edits>>

--------------------------------------------------------------------------------

Worker ==
  \/ Start \/ ListPools \/ DeletePool \/ MatchPool
  \/ List \/ Delete \/ Create \/ Update \/ Finish

Next == Worker \/ CallFails \/ UserEdit \/ Deliver \/ CloudChanges

Spec == Init /\ [][Next]_vars

\* Reconcile runs again after every result (at the latest after the maximal
\* interval), its calls return, and the informer keeps up.
FairSpec == Spec /\ WF_vars(Worker) /\ WF_vars(Deliver)
--------------------------------------------------------------------------------
(* Properties *)

UniqueNames(s) == \A i, j \in DOMAIN s : s[i].name = s[j].name => i = j

Attributes == UNION {Range(Attrs[c]) : c \in Children}

\* Types: the worker's fields are what its pending call needs, whatever the
\* interleaving of edits, deletions and failed calls that led there.
TypeOK ==
  /\ spec \in Specs /\ seen \in Specs
  /\ w.pc \in {"idle", "listPools", "deletePool", "matchPool", "list", "delete",
               "create", "update", "done"}
  /\ w.spec \in Specs \cup {<<>>}
  /\ w.doomed \subseteq {a.id : a \in w.actual}
  /\ {a.id : a \in w.actual} \subseteq PoolIDs
  /\ w.theirs \in Seq(PoolIDs) /\ Len(w.theirs) <= Len(w.spec)
  /\ w.pc = "deletePool" => w.doomed # {}
  /\ w.pc = "matchPool" => w.doomed = {} /\ Len(w.theirs) < Len(w.spec)
  /\ w.pc \in {"list", "delete", "create", "update"} =>
       Len(w.theirs) = Len(w.spec) /\ w.j \in DOMAIN w.spec
  /\ w.c \in Children
  /\ w.x \in ChildIDs \cup {None} /\ (w.pc \in {"delete", "update"} => w.x # None)
  /\ w.todo \in Seq(Attributes) /\ (w.todo # <<>> <=> w.pc = "update")
  /\ w.disturbed \in BOOLEAN
  /\ \A p \in PoolIDs : Alive(p) =>
       \E a \in Adopted \cup UNION {Range(s) : s \in Specs} :
         pools[p] = [name |-> a.name, kind |-> a.kind]
  /\ \A x \in ChildIDs :
       \/ child[x] = NoChild
       \/ /\ child[x].of \in Children /\ child[x].pool \in PoolIDs
          /\ child[x].attrs \in [Range(Attrs[child[x].of]) -> Values \cup {None}]
  /\ faults \in 0..MaxFaults /\ edits \in 0..MaxEdits /\ meddled \in 0..MaxCloud

\* A pool never gets a second listener or a second health monitor, however
\* calls fail, replies get lost and the key of the child changes: the errors
\* "found multiple load balancer listeners" and "found multiple load balancer
\* health monitors", which no retry gets past, are out of reach.
OneChildPerPool ==
  \A c \in Children, p \in PoolIDs : Alive(p) => Cardinality(Attached(c, p)) <= 1

\* As long as the names within a spec are unique, ensureLoadBalancerPools never
\* leaves two pools of the same name on the load balancer: a pool of a changed
\* kind is deleted before its successor is created, and a pool whose creation
\* went unnoticed is found again.
NoTwinPools ==
  (\A s \in Specs : UniqueNames(s)) =>
    \A p, q \in PoolIDs :
      Alive(p) /\ Alive(q) /\ pools[p].name = pools[q].name => p = q

\* Pool p is what our, a pool of the spec, asks for.  Attributes that the
\* request leaves out are cloudscale's to choose.
Serves(p, our) ==
  /\ pools[p].name = our.name /\ pools[p].kind = our.kind
  /\ \A c \in Children : \E x \in ChildIDs :
       /\ Attached(c, p) = {x} /\ child[x].key = our[c].key
       /\ \A a \in Range(Asked(c, our[c].key)) :
            our[c].attrs[a] # None => child[x].attrs[a] = our[c].attrs[a]

Implements(s) ==
  /\ \A p \in PoolIDs : Alive(p) =>
       \E i \in DOMAIN s : pools[p].name = s[i].name /\ pools[p].kind = s[i].kind
  /\ \A i \in DOMAIN s : \E p \in PoolIDs : Serves(p, s[i])

\* A pass that reaches its end has made the load balancer what the pass's copy
\* of the spec asks for, whatever earlier passes left half done, unless somebody
\* else changed the project during the pass.
PassIsComplete ==
  w.pc = "done" /\ ~w.disturbed /\ UniqueNames(w.spec) => Implements(w.spec)

\* Once edits, faults and outside changes cease, the load balancer becomes what
\* the spec asks for and stays that way: repeated passes disturb nothing.
Converges == <>[](UniqueNames(spec) => Implements(spec))

\* "Reconcile compares the LoadBalancer object with the upstream LoadBalancer
\* object and updates the upstream LoadBalancer object if necessary"
\* (controllers/loadbalancer_controller.go:69): at last the two agree in every
\* attribute that is compared.
UpstreamAgrees ==
  <>[](\A i \in DOMAIN spec : \E p \in PoolIDs :
         /\ Serves(p, spec[i])
         /\ \A c \in Children, x \in ChildIDs : x \in Attached(c, p) =>
              Differing(c, spec[i][c], child[x].attrs) = <<>>)
================================================================================
