--------------------------- MODULE LBLifecycleProofs ---------------------------
(***************************************************************************)
(* Proofs about LBLifecycle.  The properties follow from one inductive     *)
(* invariant about the copies of an object that are under way: in the      *)
(* informer's backlog, in its cache and in the worker's hands.             *)
(***************************************************************************)
EXTENDS LBLifecycle, TLAPS

\* Copy v of an object whose stored version is a, with the load balancers K:
\*  - it is no newer than a, and equal to a if it has the same version;
\*  - if it has the finalizer and is not being deleted, then the object is
\*    still stored, with the finalizer;
\*  - if it is being deleted and its load balancer is alive, then the stored
\*    object is in that state too.
CopyOK(a, K, v) ==
  /\ v.rv <= a.rv
  /\ v.rv = a.rv => v = a
  /\ v.exists => v.uid # None
  /\ v.uuid # None => K[v.uuid].st # "unborn"
  /\ v.exists /\ v.fin /\ ~v.deleting => a.exists /\ a.fin /\ a.uid = v.uid
  /\ v.exists /\ v.fin /\ v.deleting /\ v.uuid # None /\ K[v.uuid].st = "alive"
       => a.exists /\ a.fin /\ a.deleting /\ a.uuid = v.uuid

CopiesOK ==
  \A c \in Objects :
    /\ CopyOK(api[c], cloud, api[c])
    /\ CopyOK(api[c], cloud, cache[c])
    /\ \A v \in watch[c] : CopyOK(api[c], cloud, v) /\ v.rv > cache[c].rv

Creating == {"listCreated", "guessZone", "create", "saveUUID"}
Tracking == {"get", "adopt", "saveZone", "saveStatus", "pools", "saveReport"}
Cleaning == {"delete", "listManaged", "removeFinalizer"}

\* What the worker's copy of the object is worth before each call.
WorkerOK ==
  /\ w.pc # "idle" => /\ w.key \in Objects
                      /\ w.lb.exists
                      /\ CopyOK(api[w.key], cloud, w.lb)
  /\ w.pc = "addFinalizer" => ~w.lb.deleting
  /\ w.pc \in Creating \cup Tracking => ~w.lb.deleting /\ w.lb.fin
  /\ w.pc \in Tracking => w.lb.uuid # None
  /\ w.pc \in Cleaning => w.lb.deleting /\ w.lb.fin /\ w.lb.rv <= cache[w.key].rv
  /\ w.pc = "delete" => w.lb.uuid # None /\ w.doomed = {w.lb.uuid}
  /\ w.pc \in {"listManaged", "removeFinalizer"} /\ w.lb.uuid # None
       => ~Alive(w.lb.uuid)
  /\ w.pc # "deleteListed"

\* What it knows about the load balancer that it creates or has created.
CreationOK ==
  /\ w.pc \in {"guessZone", "create"} =>
       \A l \in LBs : ~CreatedFor(l, w.key, w.lb.uid)
  /\ w.pc = "saveUUID" =>
       /\ w.ens.id \in LBs
       /\ cloud[w.ens.id].st # "unborn"
       /\ cloud[w.ens.id].uid = w.lb.uid
       /\ cloud[w.ens.id].zone = w.ens.zone

IInv == TypeOK /\ CopiesOK /\ WorkerOK /\ CreationOK /\ OneLoadBalancerPerObject

--------------------------------------------------------------------------------
(* Versions and copies: facts about values *)

LEMMA AbsentType == \A n \in Nat : Absent(n) \in Version
BY DEF Absent, Version

LEMMA IdleType == Idle \in Work
BY AbsentType DEF Idle, Work, NoReply, Reply

\* The version the API server stores is one newer, and it is the one written
\* unless the object disappears.
LEMMA StoredVersion ==
  ASSUME NEW v \in Version
  PROVE  /\ Stored(v) \in Version
         /\ Stored(v).rv = v.rv + 1
         /\ v.deleting /\ ~v.fin /\ ~v.other => Stored(v) = Absent(v.rv + 1)
         /\ v.fin \/ ~v.deleting => Stored(v) = [v EXCEPT !.rv = v.rv + 1]
         /\ \/ Stored(v) = Absent(v.rv + 1)
            \/ Stored(v) = [v EXCEPT !.rv = v.rv + 1]
BY AbsentType DEF Stored, Version, Absent

\* What a write must keep of an object that has the finalizer.
Keeps(a, b) ==
  /\ b.rv = a.rv + 1
  /\ a.exists /\ a.fin =>
       /\ b.exists /\ b.fin /\ b.uid = a.uid
       /\ a.deleting => b.deleting
       /\ a.uuid # None => b.uuid = a.uuid

\* A version that may be stored: it has a UID, and its UUID is no invention.
Storable(b, K) ==
  /\ b \in Version
  /\ b.exists => b.uid # None
  /\ b.uuid # None => K[b.uuid].st # "unborn"

\* The two, read off the version that is written.
LEMMA StoredKeeps ==
  ASSUME NEW a \in Version, NEW v \in Version, v.rv = a.rv,
         a.exists /\ a.fin =>
           /\ v.exists /\ v.fin /\ v.uid = a.uid
           /\ a.deleting => v.deleting
           /\ a.uuid # None => v.uuid = a.uuid
  PROVE  Keeps(a, Stored(v))
<1>1. CASE v.fin
  <2>1. Stored(v) = [v EXCEPT !.rv = v.rv + 1]
    BY <1>1, StoredVersion
  <2>. QED
    BY <1>1, <2>1 DEF Keeps, Version
<1>2. CASE ~v.fin
  BY <1>2, StoredVersion DEF Keeps
<1>. QED
  BY <1>1, <1>2

LEMMA StoredStorable ==
  ASSUME NEW v \in Version, NEW K,
         v.exists => v.uid # None,
         v.uuid # None => K[v.uuid].st # "unborn"
  PROVE  Storable(Stored(v), K)
<1>1. CASE Stored(v) = Absent(v.rv + 1)
  <2>1. ~Stored(v).exists /\ Stored(v).uuid = None
    BY <1>1 DEF Absent
  <2>. QED
    BY <2>1, StoredVersion DEF Storable
<1>2. CASE Stored(v) = [v EXCEPT !.rv = v.rv + 1]
  <2>1. /\ Stored(v).exists = v.exists /\ Stored(v).uid = v.uid
        /\ Stored(v).uuid = v.uuid
    BY <1>2 DEF Version
  <2>. QED
    BY <2>1, StoredVersion DEF Storable
<1>. QED
  BY <1>1, <1>2, StoredVersion

LEMMA CopySelf ==
  ASSUME NEW b, NEW K, Storable(b, K)
  PROVE  CopyOK(b, K, b)
BY DEF Storable, CopyOK, Version

LEMMA CopyWrite ==
  ASSUME NEW a \in Version, NEW b \in Version, NEW v \in Version, NEW K,
         CopyOK(a, K, v), Keeps(a, b)
  PROVE  CopyOK(b, K, v)
BY DEF CopyOK, Keeps, Version

\* Any write is fine once the load balancer of a deleted object is gone.
LEMMA CopyEnd ==
  ASSUME NEW a \in Version, NEW b, NEW K, CopyOK(a, K, a), a.deleting,
         a.uuid # None => K[a.uuid].st # "alive", b.rv = a.rv + 1
  PROVE  CopyOK(b, K, a)
<1>1. a.rv \in Nat /\ a.rv <= b.rv /\ a.rv # b.rv
  BY DEF Version
<1>2. (a.exists => a.uid # None) /\ (a.uuid # None => K[a.uuid].st # "unborn")
  BY DEF CopyOK
<1>. QED
  BY <1>1, <1>2 DEF CopyOK

\* Load balancers are never born twice, and the dead stay dead.
Ages(K, L) ==
  \A l \in LBs : K[l].st # "unborn" =>
    /\ L[l].st # "unborn"
    /\ L[l].st = "alive" => K[l].st = "alive"

LEMMA CopyAges ==
  ASSUME NEW a \in Version, NEW v \in Version, NEW K, NEW L,
         CopyOK(a, K, v), Ages(K, L)
  PROVE  CopyOK(a, L, v)
BY DEF CopyOK, Ages, Version

--------------------------------------------------------------------------------
(* Steps that write an object, and steps that change a load balancer *)

LEMMA PutType ==
  ASSUME TypeOK, NEW c \in Objects, NEW v \in Version, Put(c, v)
  PROVE  /\ api' \in [Objects -> Version]
         /\ watch' \in [Objects -> SUBSET Version]
         /\ api'[c] = Stored(v)
<1>1. Stored(v) \in Version
  BY StoredVersion
<1>. QED
  BY <1>1 DEF TypeOK, Put

\* A write that keeps what Keeps demands does not invalidate any copy.
LEMMA PutCopies ==
  ASSUME TypeOK, CopiesOK, NEW c \in Objects, NEW v \in Version, Put(c, v),
         UNCHANGED <<cache, cloud>>,
         Keeps(api[c], Stored(v)), Storable(Stored(v), cloud)
  PROVE  /\ CopiesOK'
         /\ \A d \in Objects, x \in Version :
              CopyOK(api[d], cloud, x) => CopyOK(api'[d], cloud', x)
<1>1. /\ Stored(v) \in Version
      /\ api' = [api EXCEPT ![c] = Stored(v)]
      /\ watch' = [watch EXCEPT ![c] = watch[c] \cup {Stored(v)}]
  BY StoredVersion DEF Put
<1>2. \A d \in Objects, x \in Version :
        CopyOK(api[d], cloud, x) => CopyOK(api'[d], cloud', x)
  BY <1>1, CopyWrite DEF TypeOK
<1>3. CopyOK(Stored(v), cloud, Stored(v))
  BY CopySelf
<1>4. Stored(v).rv > cache[c].rv
  BY <1>1 DEF Keeps, CopiesOK, CopyOK, TypeOK, Version
<1>5. ASSUME NEW d \in Objects
      PROVE  /\ CopyOK(api'[d], cloud', api'[d])
             /\ CopyOK(api'[d], cloud', cache'[d])
             /\ \A x \in watch'[d] : CopyOK(api'[d], cloud', x) /\ x.rv > cache'[d].rv
  <2>1. CASE d = c
    BY <1>1, <1>2, <1>3, <1>4, <2>1 DEF CopiesOK, TypeOK
  <2>2. CASE d # c
    BY <1>1, <1>2, <2>2 DEF CopiesOK, TypeOK
  <2>. QED
    BY <2>1, <2>2
<1>. QED
  BY <1>2, <1>5 DEF CopiesOK

\* What every step but Create keeps of the load balancers.
Benign(K, L) ==
  \A l \in LBs :
    /\ L[l].uid = K[l].uid /\ L[l].zone = K[l].zone
    /\ L[l].name \in {K[l].name, None}
    /\ K[l].st # "unborn" => L[l].st # "unborn"
    /\ L[l].st = "alive" => K[l].st = "alive"

LEMMA CloudCopies ==
  ASSUME TypeOK, CopiesOK, Ages(cloud, cloud'), UNCHANGED <<api, watch, cache>>
  PROVE  /\ CopiesOK'
         /\ \A d \in Objects, x \in Version :
              CopyOK(api[d], cloud, x) => CopyOK(api'[d], cloud', x)
<1>1. \A d \in Objects, x \in Version :
        CopyOK(api[d], cloud, x) => CopyOK(api'[d], cloud', x)
  BY CopyAges DEF TypeOK
<1>. QED
  BY <1>1 DEF CopiesOK, TypeOK

LEMMA BenignAges ==
  ASSUME NEW K, NEW L, Benign(K, L)
  PROVE  Ages(K, L)
BY DEF Benign, Ages

LEMMA BenignOne ==
  ASSUME OneLoadBalancerPerObject, Benign(cloud, cloud')
  PROVE  OneLoadBalancerPerObject'
BY DEF OneLoadBalancerPerObject, Benign, Alive

\* What the worker knows survives a step that is not its own.
LEMMA CreationSurvives ==
  ASSUME CreationOK, WorkerOK, Benign(cloud, cloud'), w' = w
  PROVE  CreationOK'
BY ConstantsAssumption DEF CreationOK, WorkerOK, Benign, CreatedFor, Alive

LEMMA WorkerSurvives ==
  ASSUME TypeOK, WorkerOK, Benign(cloud, cloud'), w' = w,
         \A c \in Objects : cache'[c].rv >= cache[c].rv,
         cache' \in [Objects -> Version],
         \A d \in Objects, x \in Version :
           CopyOK(api[d], cloud, x) => CopyOK(api'[d], cloud', x)
  PROVE  WorkerOK'
<1>1. w.lb \in Version /\ w.key \in Objects \cup {None} /\ cache \in [Objects -> Version]
  BY DEF TypeOK, Work
<1>2. w.pc # "idle" => CopyOK(api'[w.key], cloud', w.lb)
  BY <1>1 DEF WorkerOK
<1>3. w.pc \in Cleaning => w.lb.rv <= cache'[w.key].rv
  <2>1. ASSUME w.pc \in Cleaning PROVE w.key \in Objects /\ w.lb.rv <= cache[w.key].rv
    BY <2>1 DEF WorkerOK, Cleaning
  <2>. QED
    BY <2>1, <1>1 DEF Version
<1>4. w.pc \in {"listManaged", "removeFinalizer"} /\ w.lb.uuid # None
        => cloud'[w.lb.uuid].st # "alive"
  BY <1>1 DEF WorkerOK, Benign, Alive, Version
<1>. QED
  BY <1>2, <1>3, <1>4 DEF WorkerOK, Alive

--------------------------------------------------------------------------------
(* Steps of users, of the informer, of the project, and restarts *)

LEMMA InitIInv == Init => IInv
<1>. SUFFICES ASSUME Init PROVE IInv
  OBVIOUS
<1>1. Absent(0) \in Version /\ Idle \in Work /\ 0 \in Nat
  BY AbsentType, IdleType
<1>2. cloud \in [LBs -> CloudLB] /\ \A l \in LBs : cloud[l].uid = None
  <2>. PICK z \in [Foreign -> Zones], s \in [Foreign -> BOOLEAN] :
         cloud = [l \in LBs |->
                   IF l \in Foreign
                   THEN [Unborn EXCEPT !.st = "alive", !.zone = z[l],
                                       !.standard = s[l], !.status = "active"]
                   ELSE Unborn]
    BY DEF Init
  <2>. QED
    BY DEF Unborn, CloudLB, Statuses
<1>3. TypeOK
  BY <1>1, <1>2 DEF Init, TypeOK
<1>4. CopiesOK
  <2>1. \A c \in Objects : api[c] = Absent(0) /\ cache[c] = Absent(0) /\ watch[c] = {}
    BY DEF Init
  <2>2. CopyOK(Absent(0), cloud, Absent(0))
    BY <1>1, CopySelf DEF Storable, Absent
  <2>. QED
    BY <2>1, <2>2 DEF CopiesOK
<1>5. WorkerOK /\ CreationOK
  BY DEF Init, WorkerOK, CreationOK, Idle, Creating, Tracking, Cleaning
<1>6. OneLoadBalancerPerObject
  BY <1>2 DEF OneLoadBalancerPerObject
<1>. QED
  BY <1>3, <1>4, <1>5, <1>6 DEF IInv

LEMMA BenignRefl == Benign(cloud, cloud)
BY DEF Benign

\* A write by anybody but the worker.
LEMMA OthersWrite ==
  ASSUME IInv, NEW c \in Objects, NEW v \in Version, Put(c, v),
         UNCHANGED <<cache, w, cloud>>,
         Keeps(api[c], Stored(v)), Storable(Stored(v), cloud)
  PROVE  CopiesOK' /\ WorkerOK' /\ CreationOK' /\ OneLoadBalancerPerObject'
<1>1. /\ CopiesOK'
      /\ \A d \in Objects, x \in Version :
           CopyOK(api[d], cloud, x) => CopyOK(api'[d], cloud', x)
  BY PutCopies DEF IInv
<1>2. Benign(cloud, cloud')
  BY BenignRefl
<1>3. \A d \in Objects : cache'[d].rv >= cache[d].rv
  BY DEF IInv, TypeOK, Version
<1>. QED
  BY <1>1, <1>2, <1>3, WorkerSurvives, CreationSurvives, BenignOne DEF IInv, TypeOK

LEMMA UsersStep ==
  ASSUME IInv, NEW c \in Objects, Users(c)
  PROVE  IInv'
<1>. TypeOK /\ CopiesOK /\ api[c] \in Version
  BY DEF IInv, TypeOK
<1>0. CopyOK(api[c], cloud, api[c])
  BY DEF CopiesOK
<1>1. CASE UserCreate(c)
  <2>. PICK u \in UIDs \ issued, l \in Choices, z \in Zones \cup {None},
            vips \in BOOLEAN, other \in OtherFinalizer :
         /\ Put(c, [rv |-> api[c].rv, exists |-> TRUE, uid |-> u,
                    deleting |-> FALSE, fin |-> FALSE, other |-> other,
                    uuid |-> l, zone |-> z, vips |-> vips,
                    status |-> None, report |-> {}])
         /\ issued' = issued \cup {u}
    BY <1>1 DEF UserCreate
  <2>. DEFINE v == [rv |-> api[c].rv, exists |-> TRUE, uid |-> u,
                    deleting |-> FALSE, fin |-> FALSE, other |-> other,
                    uuid |-> l, zone |-> z, vips |-> vips,
                    status |-> None, report |-> {}]
  <2>1. v \in Version
    BY ConstantsAssumption DEF Version, Choices
  <2>2. Stored(v) = [v EXCEPT !.rv = api[c].rv + 1]
    BY <2>1, StoredVersion
  <2>3. Keeps(api[c], Stored(v))
    BY <1>1, <2>1, <2>2 DEF Keeps, UserCreate
  <2>4. Storable(Stored(v), cloud)
    BY <2>1, <2>2, StoredVersion, ConstantsAssumption DEF Storable, Choices, Alive
  <2>5. UNCHANGED <<edits, userFrame>>
    BY <1>1 DEF UserCreate
  <2>6. TypeOK'
    BY <2>1, <2>5, PutType DEF TypeOK, userFrame
  <2>. QED
    BY <2>1, <2>3, <2>4, <2>5, <2>6, OthersWrite DEF IInv, userFrame
<1>2. CASE UserEdit(c)
  <2>. PICK l \in Choices, z \in Zones \cup {None} :
         /\ verifyChanges(api[c], [api[c] EXCEPT !.uuid = l, !.zone = z])
         /\ Put(c, [api[c] EXCEPT !.uuid = l, !.zone = z])
    BY <1>2 DEF UserEdit
  <2>. DEFINE v == [api[c] EXCEPT !.uuid = l, !.zone = z]
  <2>1. v \in Version
    BY DEF Version, Choices
  <2>a. /\ v.rv = api[c].rv /\ v.exists = api[c].exists /\ v.fin = api[c].fin
        /\ v.uid = api[c].uid /\ v.deleting = api[c].deleting /\ v.uuid = l
        /\ api[c].uuid # None => l = api[c].uuid
    BY DEF Version, verifyChanges
  <2>2. Keeps(api[c], Stored(v))
    BY <2>1, <2>a, StoredKeeps
  <2>3. Storable(Stored(v), cloud)
    BY <1>0, <2>1, <2>a, StoredStorable DEF Choices, Alive, CopyOK
  <2>4. UNCHANGED <<issued, userFrame>> /\ edits' = edits + 1
    BY <1>2 DEF UserEdit
  <2>5. TypeOK'
    BY <2>1, <2>4, PutType DEF TypeOK, userFrame
  <2>. QED
    BY <2>1, <2>2, <2>3, <2>4, <2>5, OthersWrite DEF IInv, userFrame
<1>3. CASE UserDelete(c)
  <2>. DEFINE v == [api[c] EXCEPT !.deleting = TRUE]
  <2>1. v \in Version
    BY DEF Version
  <2>a. /\ v.rv = api[c].rv /\ v.exists = api[c].exists /\ v.fin = api[c].fin
        /\ v.uid = api[c].uid /\ v.uuid = api[c].uuid
        /\ api[c].deleting => v.deleting
    BY DEF Version
  <2>2. Keeps(api[c], Stored(v))
    BY <2>1, <2>a, StoredKeeps
  <2>3. Storable(Stored(v), cloud)
    BY <1>0, <2>1, <2>a, StoredStorable DEF CopyOK
  <2>4. UNCHANGED <<issued, edits, userFrame>> /\ Put(c, v)
    BY <1>3 DEF UserDelete
  <2>5. TypeOK'
    BY <2>1, <2>4, PutType DEF TypeOK, userFrame
  <2>. QED
    BY <2>1, <2>2, <2>3, <2>4, <2>5, OthersWrite DEF IInv, userFrame
<1>4. CASE OtherReleases(c)
  <2>. DEFINE v == [api[c] EXCEPT !.other = FALSE]
  <2>1. v \in Version
    BY DEF Version
  <2>a. /\ v.rv = api[c].rv /\ v.exists = api[c].exists /\ v.fin = api[c].fin
        /\ v.uid = api[c].uid /\ v.uuid = api[c].uuid
        /\ api[c].deleting => v.deleting
    BY DEF Version
  <2>2. Keeps(api[c], Stored(v))
    BY <2>1, <2>a, StoredKeeps
  <2>3. Storable(Stored(v), cloud)
    BY <1>0, <2>1, <2>a, StoredStorable DEF CopyOK
  <2>4. UNCHANGED <<issued, edits, userFrame>> /\ Put(c, v)
    BY <1>4 DEF OtherReleases
  <2>5. TypeOK'
    BY <2>1, <2>4, PutType DEF TypeOK, userFrame
  <2>. QED
    BY <2>1, <2>2, <2>3, <2>4, <2>5, OthersWrite DEF IInv, userFrame
<1>. QED
  BY <1>1, <1>2, <1>3, <1>4 DEF Users

\* The informer: a copy from the backlog becomes the cached one.
LEMMA DeliverStep ==
  ASSUME IInv, NEW c \in Objects, Deliver(c)
  PROVE  IInv'
<1>. TypeOK /\ CopiesOK
  BY DEF IInv
<1>1. PICK v \in watch[c] :
        /\ cache' = [cache EXCEPT ![c] = v]
        /\ watch' = [watch EXCEPT ![c] = {x \in watch[c] : x.rv > v.rv}]
        /\ queue' = queue \cup {c}
  BY DEF Deliver
<1>2. UNCHANGED <<api, issued, w, cloud, servers, faults, edits, meddled>>
  BY DEF Deliver
<1>3. v \in Version /\ v.rv > cache[c].rv /\ CopyOK(api[c], cloud, v)
  BY DEF TypeOK, CopiesOK
<1>4. TypeOK'
  BY <1>1, <1>2, <1>3 DEF TypeOK
<1>5. CopiesOK'
  <2>. SUFFICES ASSUME NEW d \in Objects
                PROVE  /\ CopyOK(api[d], cloud, api[d])
                       /\ CopyOK(api[d], cloud, cache'[d])
                       /\ \A x \in watch'[d] : /\ CopyOK(api[d], cloud, x)
                                               /\ x.rv > cache'[d].rv
    BY <1>2 DEF CopiesOK
  <2>1. CASE d = c
    BY <1>1, <1>3, <2>1 DEF TypeOK, CopiesOK
  <2>2. CASE d # c
    BY <1>1, <2>2 DEF TypeOK, CopiesOK
  <2>. QED
    BY <2>1, <2>2
<1>6. \A d \in Objects : cache'[d].rv >= cache[d].rv
  BY <1>1, <1>3 DEF TypeOK, Version
<1>7. Benign(cloud, cloud')
  BY <1>2, BenignRefl
<1>8. \A d \in Objects, x \in Version :
        CopyOK(api[d], cloud, x) => CopyOK(api'[d], cloud', x)
  BY <1>2
<1>9. WorkerOK'
  BY <1>2, <1>4, <1>6, <1>7, <1>8, WorkerSurvives DEF IInv, TypeOK
<1>. QED
  BY <1>2, <1>4, <1>5, <1>7, <1>9, CreationSurvives, BenignOne DEF IInv

\* A step of the cloudscale project.
LEMMA CloudStep ==
  ASSUME IInv, TypeOK', Benign(cloud, cloud'), UNCHANGED <<api, watch, cache, w>>
  PROVE  IInv'
<1>1. /\ CopiesOK'
      /\ \A d \in Objects, x \in Version :
           CopyOK(api[d], cloud, x) => CopyOK(api'[d], cloud', x)
  BY BenignAges, CloudCopies DEF IInv
<1>2. \A d \in Objects : cache'[d].rv >= cache[d].rv
  BY DEF IInv, TypeOK, Version
<1>3. WorkerOK'
  BY <1>1, <1>2, WorkerSurvives DEF IInv, TypeOK
<1>. QED
  BY <1>1, <1>3, CreationSurvives, BenignOne DEF IInv

\* What changes of one load balancer when it is settled, meddled with, tagged
\* or deleted.
LEMMA OneChanges ==
  ASSUME TypeOK, NEW l \in LBs, NEW x \in CloudLB, Alive(l),
         cloud' = [cloud EXCEPT ![l] = x],
         x.uid = cloud[l].uid, x.zone = cloud[l].zone,
         x.name \in {cloud[l].name, None}, x.st # "unborn"
  PROVE  cloud' \in [LBs -> CloudLB] /\ Benign(cloud, cloud')
BY DEF TypeOK, Alive, Benign

LEMMA ProjectStep ==
  ASSUME IInv, Project
  PROVE  IInv'
<1>. TypeOK
  BY DEF IInv
<1>1. ASSUME NEW l \in LBs, CloudSettles(l)
      PROVE  IInv'
  <2>1. cloud[l] \in CloudLB /\ Alive(l)
    BY <1>1 DEF TypeOK, CloudSettles
  <2>. DEFINE x == [cloud[l] EXCEPT !.status = "active"]
  <2>2. cloud' = [cloud EXCEPT ![l] = x]
    BY <1>1 DEF CloudSettles
  <2>3. /\ x \in CloudLB /\ x.uid = cloud[l].uid /\ x.zone = cloud[l].zone
        /\ x.name = cloud[l].name /\ x.st # "unborn"
    BY <2>1 DEF CloudLB, Statuses, Alive
  <2>4. cloud' \in [LBs -> CloudLB] /\ Benign(cloud, cloud')
    BY <2>1, <2>2, <2>3, OneChanges
  <2>. QED
    BY <1>1, <2>4, CloudStep DEF CloudSettles, cloudFrame, TypeOK
<1>2. ASSUME NEW l \in LBs, CloudChanges(l)
      PROVE  IInv'
  <2>1. cloud[l] \in CloudLB /\ Alive(l)
    BY <1>2 DEF TypeOK, CloudChanges
  <2>2. PICK x \in {[cloud[l] EXCEPT !.status = "changing"],
                    [cloud[l] EXCEPT !.name = None],
                    [cloud[l] EXCEPT !.st = "gone"]} :
          cloud' = [cloud EXCEPT ![l] = x]
    BY <1>2 DEF CloudChanges
  <2>3. /\ x \in CloudLB /\ x.uid = cloud[l].uid /\ x.zone = cloud[l].zone
        /\ x.name \in {cloud[l].name, None} /\ x.st # "unborn"
    BY <2>1, <2>2 DEF CloudLB, Statuses, Alive
  <2>4. cloud' \in [LBs -> CloudLB] /\ Benign(cloud, cloud')
    BY <2>1, <2>2, <2>3, OneChanges
  <2>. QED
    BY <1>2, <2>4, CloudStep DEF CloudChanges, cloudFrame, TypeOK
<1>3. CASE ServersChange
  <2>1. TypeOK' /\ cloud' = cloud /\ UNCHANGED <<api, watch, cache, w>>
    BY <1>3 DEF ServersChange, cloudFrame, TypeOK
  <2>. QED
    BY <2>1, BenignRefl, CloudStep
<1>. QED
  BY <1>1, <1>2, <1>3 DEF Project

LEMMA RestartStep ==
  ASSUME IInv, Restart
  PROVE  IInv'
<1>. TypeOK /\ CopiesOK
  BY DEF IInv
<1>1. /\ w' = Idle /\ cache' = api /\ watch' = [c \in Objects |-> {}]
      /\ queue' = {c \in Objects : api[c].exists}
      /\ UNCHANGED <<api, issued, cloud, servers, edits, meddled>>
      /\ faults' = faults + 1
  BY DEF Restart, Fault
<1>2. TypeOK'
  BY <1>1, IdleType DEF TypeOK
<1>3. CopiesOK'
  BY <1>1 DEF CopiesOK
<1>4. WorkerOK' /\ CreationOK'
  BY <1>1 DEF WorkerOK, CreationOK, Idle, Creating, Tracking, Cleaning
<1>5. OneLoadBalancerPerObject'
  BY <1>1, BenignRefl, BenignOne DEF IInv
<1>. QED
  BY <1>2, <1>3, <1>4, <1>5 DEF IInv

--------------------------------------------------------------------------------
(* Steps of the worker that write no object *)

\* Leaving Reconcile: there is nothing left to know.
LEMMA Leaving ==
  ASSUME IInv, w.pc # "idle", Requeue
  PROVE  /\ w' \in Work /\ queue' \subseteq Objects
         /\ WorkerOK' /\ CreationOK'
<1>1. w' = Idle /\ queue' = queue \cup {w.key} /\ w.key \in Objects
  BY DEF Requeue, IInv, WorkerOK
<1>2. w' \in Work /\ queue' \subseteq Objects
  BY <1>1, IdleType DEF IInv, TypeOK
<1>3. WorkerOK' /\ CreationOK'
  BY <1>1 DEF WorkerOK, CreationOK, Idle, Creating, Tracking, Cleaning
<1>. QED
  BY <1>2, <1>3

LEMMA FailStep ==
  ASSUME IInv, w.pc # "idle", Requeue, faults' \in Nat,
         UNCHANGED <<api, watch, cloud, workerFrame>>
  PROVE  IInv'
<1>1. /\ w' \in Work /\ queue' \subseteq Objects
      /\ WorkerOK' /\ CreationOK'
  BY Leaving
<1>2. TypeOK'
  BY <1>1 DEF IInv, TypeOK, workerFrame
<1>3. CopiesOK' /\ OneLoadBalancerPerObject'
  BY BenignRefl, BenignOne DEF IInv, CopiesOK, workerFrame
<1>. QED
  BY <1>1, <1>2, <1>3 DEF IInv

\* Going on with the same copy of the object.
LEMMA GoingOn ==
  ASSUME IInv, w.pc # "idle", NEW x \in Work, Goto(x),
         x.key = w.key, x.lb = w.lb,
         UNCHANGED <<api, watch, cloud, workerFrame>>
  PROVE  /\ w' = x /\ TypeOK' /\ CopiesOK' /\ OneLoadBalancerPerObject'
         /\ w'.key \in Objects /\ w'.lb.exists /\ CopyOK(api'[w'.key], cloud', w'.lb)
<1>1. /\ w' = x
      /\ UNCHANGED <<queue, faults, api, watch, cloud, issued, cache, servers, edits, meddled>>
  BY DEF Goto, workerFrame
<1>2. TypeOK'
  BY <1>1 DEF IInv, TypeOK
<1>3. CopiesOK' /\ OneLoadBalancerPerObject'
  BY <1>1, BenignRefl, BenignOne DEF IInv, CopiesOK
<1>4. w'.key \in Objects /\ w'.lb.exists /\ CopyOK(api'[w'.key], cloud', w'.lb)
  BY <1>1 DEF IInv, WorkerOK
<1>. QED
  BY <1>1, <1>2, <1>3, <1>4

LEMMA ListCreatedStep ==
  ASSUME IInv, ListCreated
  PROVE  IInv'
<1>0. /\ w \in Work /\ w.pc = "listCreated" /\ w.lb \in Version
      /\ ~w.lb.deleting /\ w.lb.fin
      /\ UNCHANGED <<api, watch, cloud, workerFrame>>
      /\ cloud \in [LBs -> CloudLB]
  BY DEF IInv, TypeOK, Work, WorkerOK, ListCreated, Creating
<1>1. ASSUME NEW l \in LBs, CreatedFor(l, w.key, w.lb.uid),
             Goto([w EXCEPT !.pc = "saveUUID", !.ens = ReplyOf(l)])
      PROVE  IInv'
  <2>. DEFINE x == [w EXCEPT !.pc = "saveUUID", !.ens = ReplyOf(l)]
  <2>1. x \in Work
    BY <1>0 DEF Work, Calls, Reply, ReplyOf, CloudLB
  <2>2. /\ x.key = w.key /\ x.lb = w.lb /\ x.pc = "saveUUID"
        /\ x.ens.id = l /\ x.ens.zone = cloud[l].zone
    BY <1>0 DEF Work, ReplyOf
  <2>3. /\ w' = x /\ TypeOK' /\ CopiesOK' /\ OneLoadBalancerPerObject'
        /\ w'.key \in Objects /\ w'.lb.exists /\ CopyOK(api'[w'.key], cloud', w'.lb)
    BY <1>0, <1>1, <2>1, <2>2, GoingOn
  <2>4. WorkerOK'
    BY <1>0, <2>2, <2>3 DEF WorkerOK, Creating, Tracking, Cleaning
  <2>5. CreationOK'
    BY <1>0, <1>1, <2>2, <2>3 DEF CreationOK, CreatedFor, Alive
  <2>. QED
    BY <2>3, <2>4, <2>5 DEF IInv
<1>2. ASSUME \A l \in LBs : ~CreatedFor(l, w.key, w.lb.uid),
             Goto([w EXCEPT !.pc = IF w.lb.zone = None THEN "guessZone" ELSE "create",
                            !.zone = w.lb.zone, !.todo = Zones])
      PROVE  IInv'
  <2>. DEFINE x == [w EXCEPT !.pc = IF w.lb.zone = None THEN "guessZone" ELSE "create",
                             !.zone = w.lb.zone, !.todo = Zones]
  <2>1. x \in Work
    BY <1>0 DEF Work, Calls, Version
  <2>2. x.key = w.key /\ x.lb = w.lb /\ x.pc \in {"guessZone", "create"}
    BY <1>0 DEF Work
  <2>3. /\ w' = x /\ TypeOK' /\ CopiesOK' /\ OneLoadBalancerPerObject'
        /\ w'.key \in Objects /\ w'.lb.exists /\ CopyOK(api'[w'.key], cloud', w'.lb)
    BY <1>0, <1>2, <2>1, <2>2, GoingOn
  <2>4. WorkerOK'
    BY <1>0, <2>2, <2>3 DEF WorkerOK, Creating, Tracking, Cleaning
  <2>5. CreationOK'
    BY <1>0, <1>2, <2>2, <2>3 DEF CreationOK, CreatedFor, Alive
  <2>. QED
    BY <2>3, <2>4, <2>5 DEF IInv
<1>. QED
  BY <1>1, <1>2 DEF ListCreated

LEMMA GuessZoneStep ==
  ASSUME IInv, GuessZone
  PROVE  IInv'
<1>0. /\ w \in Work /\ w.pc = "guessZone" /\ ~w.lb.deleting /\ w.lb.fin
      /\ UNCHANGED <<api, watch, cloud, workerFrame>>
      /\ servers \subseteq Zones
  BY DEF IInv, TypeOK, WorkerOK, GuessZone, Creating
<1>1. ASSUME NEW x \in Work, Goto(x), x.key = w.key, x.lb = w.lb,
             x.pc \in {"guessZone", "create"}
      PROVE  IInv'
  <2>3. /\ w' = x /\ TypeOK' /\ CopiesOK' /\ OneLoadBalancerPerObject'
        /\ w'.key \in Objects /\ w'.lb.exists /\ CopyOK(api'[w'.key], cloud', w'.lb)
    BY <1>0, <1>1, GoingOn
  <2>4. WorkerOK'
    BY <1>0, <1>1, <2>3 DEF WorkerOK, Creating, Tracking, Cleaning
  <2>5. CreationOK'
    BY <1>0, <1>1, <2>3 DEF IInv, CreationOK, CreatedFor, Alive
  <2>. QED
    BY <2>3, <2>4, <2>5 DEF IInv
<1>2. ASSUME NEW z \in Zones, Goto([w EXCEPT !.pc = "create", !.zone = z])
      PROVE  IInv'
  <2>. DEFINE x == [w EXCEPT !.pc = "create", !.zone = z]
  <2>1. x \in Work /\ x.key = w.key /\ x.lb = w.lb /\ x.pc = "create"
    BY <1>0 DEF Work, Calls
  <2>. QED
    BY <1>1, <1>2, <2>1
<1>3. ASSUME NEW n \in w.todo,
             Goto([w EXCEPT !.todo = w.todo \ {n},
                            !.view = w.view \cup ({n} \cap servers)])
      PROVE  IInv'
  <2>. DEFINE rest == w.todo \ {n}
              seen == w.view \cup ({n} \cap servers)
              x == [w EXCEPT !.todo = rest, !.view = seen]
  <2>1. rest \in SUBSET Zones /\ seen \in SUBSET Zones
    BY <1>0 DEF Work
  <2>. HIDE DEF rest, seen
  <2>2. x \in Work /\ x.key = w.key /\ x.lb = w.lb /\ x.pc = w.pc
    BY <1>0, <2>1 DEF Work
  <2>. QED
    BY <1>0, <1>1, <1>3, <2>2 DEF rest, seen
<1>4. CASE Fail
  BY <1>0, <1>4, FailStep DEF Fail, IInv, TypeOK
<1>. QED
  BY <1>2, <1>3, <1>4 DEF GuessZone

\* Going on with an object whose load balancer is recorded.
LEMMA TrackingOn ==
  ASSUME IInv, w.pc \in Tracking, NEW x \in Work, Goto(x),
         x.key = w.key, x.lb = w.lb, x.pc \in Tracking \cup {"done"},
         UNCHANGED <<api, watch, cloud, workerFrame>>
  PROVE  IInv'
<1>1. ~w.lb.deleting /\ w.lb.fin /\ w.lb.uuid # None /\ w.pc # "idle"
  BY DEF IInv, WorkerOK, Tracking
<1>2. /\ w' = x /\ TypeOK' /\ CopiesOK' /\ OneLoadBalancerPerObject'
      /\ w'.key \in Objects /\ w'.lb.exists /\ CopyOK(api'[w'.key], cloud', w'.lb)
  BY <1>1, GoingOn
<1>3. WorkerOK' /\ CreationOK'
  BY <1>1, <1>2 DEF WorkerOK, CreationOK, Creating, Tracking, Cleaning
<1>. QED
  BY <1>2, <1>3 DEF IInv

LEMMA AfterEnsureCall ==
  \A v, r : AfterEnsure(v, r) \in {"saveZone", "saveStatus", "pools", "done"}
BY DEF AfterEnsure

LEMMA GetStep ==
  ASSUME IInv, Get
  PROVE  IInv'
<1>0. /\ w \in Work /\ w.pc = "get" /\ w.lb \in Version /\ w.lb.uuid \in LBs
      /\ UNCHANGED <<api, watch, cloud, workerFrame>>
      /\ cloud \in [LBs -> CloudLB]
  BY DEF IInv, TypeOK, Work, WorkerOK, Get, Tracking, Version
<1>. DEFINE l == w.lb.uuid
            p == IF cloud[l].managed = "true" THEN AfterEnsure(w.lb, ReplyOf(l)) ELSE "adopt"
            x == [w EXCEPT !.ens = ReplyOf(l), !.pc = p]
<1>1. CASE Goto(x)
  <2>1. p \in {"saveZone", "saveStatus", "pools", "done", "adopt"}
    BY AfterEnsureCall
  <2>2. ReplyOf(l) \in Reply
    BY <1>0 DEF Reply, ReplyOf, CloudLB
  <2>. HIDE DEF p
  <2>3. x \in Work /\ x.key = w.key /\ x.lb = w.lb /\ x.pc = p
    BY <1>0, <2>1, <2>2 DEF Work, Calls
  <2>. QED
    BY <1>0, <1>1, <2>1, <2>3, TrackingOn DEF Tracking
<1>2. CASE Fail
  BY <1>0, <1>2, FailStep DEF Fail, IInv, TypeOK
<1>. QED
  BY <1>1, <1>2 DEF Get

LEMMA PoolsStep ==
  ASSUME IInv, Pools
  PROVE  IInv'
<1>0. /\ w \in Work /\ w.pc = "pools" /\ servers \subseteq Zones
      /\ UNCHANGED <<api, watch, cloud, workerFrame>>
  BY DEF IInv, TypeOK, Pools
<1>. DEFINE p == IF w.lb.report = servers THEN "done" ELSE "saveReport"
            x == [w EXCEPT !.pc = p, !.view = servers]
<1>1. CASE Goto(x)
  <2>1. p \in {"done", "saveReport"}
    OBVIOUS
  <2>. HIDE DEF p
  <2>2. x \in Work /\ x.key = w.key /\ x.lb = w.lb /\ x.pc = p
    BY <1>0, <2>1 DEF Work, Calls
  <2>. QED
    BY <1>0, <1>1, <2>1, <2>2, TrackingOn DEF Tracking
<1>2. CASE Fail
  BY <1>0, <1>2, FailStep DEF Fail, IInv, TypeOK
<1>. QED
  BY <1>1, <1>2 DEF Pools

LEMMA FinishStep ==
  ASSUME IInv, Finish
  PROVE  IInv'
BY FailStep DEF Finish, Done, IInv, TypeOK

LEMMA CallFailsStep ==
  ASSUME IInv, CallFails
  PROVE  IInv'
BY FailStep DEF CallFails, Lost, Fault, IInv, TypeOK

\* The managed tag is "true" or missing, never a UID: clean-up finds nothing.
LEMMA ListManagedStep ==
  ASSUME IInv, ListManaged
  PROVE  IInv'
<1>0. /\ w \in Work /\ w.pc = "listManaged" /\ w.lb \in Version
      /\ w.lb.exists /\ w.lb.uid # None
      /\ w.lb.deleting /\ w.lb.fin /\ w.lb.rv <= cache[w.key].rv
      /\ w.lb.uuid # None => ~Alive(w.lb.uuid)
      /\ UNCHANGED <<api, watch, cloud, workerFrame>>
      /\ cloud \in [LBs -> CloudLB]
  BY DEF IInv, TypeOK, Work, WorkerOK, CopyOK, ListManaged, Cleaning
<1>1. w.lb.uid \in UIDs
  BY <1>0 DEF Version
<1>2. {l \in LBs : Leftover(l)} = {}
  BY <1>0, <1>1, ConstantsAssumption DEF Leftover, CloudLB
<1>. DEFINE x == [w EXCEPT !.pc = "removeFinalizer", !.doomed = {}]
<1>3. Goto(x)
  BY <1>2 DEF ListManaged
<1>4. x \in Work /\ x.key = w.key /\ x.lb = w.lb /\ x.pc = "removeFinalizer"
  BY <1>0 DEF Work, Calls
<1>5. /\ w' = x /\ TypeOK' /\ CopiesOK' /\ OneLoadBalancerPerObject'
      /\ w'.key \in Objects /\ w'.lb.exists /\ CopyOK(api'[w'.key], cloud', w'.lb)
  BY <1>0, <1>3, <1>4, GoingOn
<1>6. WorkerOK' /\ CreationOK'
  BY <1>0, <1>4, <1>5
  DEF WorkerOK, CreationOK, Creating, Tracking, Cleaning, Alive, workerFrame
<1>. QED
  BY <1>5, <1>6 DEF IInv

\* The worker takes the cached copy.
LEMMA StartStep ==
  ASSUME IInv, NEW c \in Objects, Start(c)
  PROVE  IInv'
<1>. DEFINE v == cache[c]
            p == FirstCall(v)
            x == [Idle EXCEPT !.pc = p, !.key = c, !.lb = v,
                              !.doomed = IF p = "delete" THEN {v.uuid} ELSE {}]
<1>0. /\ v \in Version /\ CopyOK(api[c], cloud, v)
      /\ queue' \subseteq Objects
      /\ w' = IF v.exists THEN x ELSE Idle
      /\ UNCHANGED <<api, watch, cloud, faults, issued, cache, servers, edits, meddled>>
  BY DEF IInv, TypeOK, CopiesOK, Start, workerFrame
<1>1. /\ p \in Calls
      /\ p = "addFinalizer" => ~v.deleting
      /\ p \in Creating \cup Tracking => ~v.deleting /\ v.fin
      /\ p \in Tracking => v.uuid # None
      /\ p \in Cleaning => v.deleting /\ v.fin
      /\ p = "delete" => v.uuid # None
      /\ p = "listManaged" => v.uuid = None
      /\ p \notin {"removeFinalizer", "deleteListed", "guessZone", "create", "saveUUID"}
  <2>1. v.deleting \in BOOLEAN /\ v.fin \in BOOLEAN
    BY <1>0 DEF Version
  <2>. QED
    BY <2>1 DEF FirstCall, CleanupCall, EnsureCall, Calls, Creating, Tracking, Cleaning
<1>. HIDE DEF p
<1>2. x \in Work /\ x.pc = p /\ x.key = c /\ x.lb = v /\ (p = "delete" => x.doomed = {v.uuid})
  <2>0. p = "delete" => v.uuid \in LBs
    BY <1>0, <1>1 DEF Version
  <2>1. PICK d \in SUBSET LBs : /\ d = IF p = "delete" THEN {v.uuid} ELSE {}
                                /\ p = "delete" => d = {v.uuid}
    <3>1. (IF p = "delete" THEN {v.uuid} ELSE {}) \in SUBSET LBs
      BY <2>0
    <3>. QED
      BY <3>1, Zenon
  <2>2. x = [Idle EXCEPT !.pc = p, !.key = c, !.lb = v, !.doomed = d]
    BY <2>1
  <2>. HIDE DEF x, v
  <2>3. x \in Work
    BY ZenonT(60), <1>0, <1>1, <2>2, IdleType DEF Work
  <2>4. x.pc = p /\ x.key = c /\ x.lb = v /\ x.doomed = d
    BY ZenonT(60), <2>2 DEF Idle
  <2>. QED
    BY <2>1, <2>3, <2>4
<1>. HIDE DEF x
<1>3. w' \in Work
  BY <1>0, <1>2, IdleType
<1>4. TypeOK'
  BY <1>0, <1>3 DEF IInv, TypeOK
<1>5. CopiesOK' /\ OneLoadBalancerPerObject'
  BY <1>0, BenignRefl, BenignOne DEF IInv, CopiesOK
<1>6. CASE v.exists
  <2>1. w' = x
    BY <1>0, <1>6
  <2>2. /\ w'.pc = p /\ w'.key = c /\ w'.lb = v /\ (p = "delete" => w'.doomed = {v.uuid})
        /\ api' = api /\ cloud' = cloud /\ cache' = cache /\ v.rv <= v.rv
    <3>1. v.rv \in Nat
      BY <1>0 DEF Version
    <3>. HIDE DEF v
    <3>. QED
      BY <1>0, <1>2, <2>1, <3>1
  <2>3. CopyOK(api'[w'.key], cloud', w'.lb) /\ w'.lb.rv <= cache'[w'.key].rv
    BY <1>0, <2>2
  <2>. HIDE DEF v
  <2>4. WorkerOK'
    BY <1>1, <1>6, <2>2, <2>3 DEF WorkerOK, Cleaning
  <2>5. CreationOK'
    BY <1>1, <2>2 DEF CreationOK
  <2>. QED
    BY <1>4, <1>5, <2>4, <2>5 DEF IInv
<1>7. CASE ~v.exists
  <2>1. WorkerOK' /\ CreationOK'
    BY <1>0, <1>7 DEF WorkerOK, CreationOK, Idle, Creating, Tracking, Cleaning
  <2>. QED
    BY <1>4, <1>5, <2>1 DEF IInv
<1>. QED
  BY <1>6, <1>7

--------------------------------------------------------------------------------
(* Steps of the worker that change a load balancer *)

\* What is left to show of a step that ages the load balancers.
LEMMA AgeingStep ==
  ASSUME IInv, w.pc # "idle", UNCHANGED <<api, watch, workerFrame>>,
         cloud' \in [LBs -> CloudLB], Ages(cloud, cloud'),
         OneLoadBalancerPerObject',
         \/ Lost
         \/ \E x \in Work : Goto(x) /\ x.key = w.key /\ x.lb = w.lb
         \/ Fail
  PROVE  /\ TypeOK' /\ CopiesOK'
         /\ CopyOK(api'[w.key], cloud', w.lb)
         /\ Lost \/ Fail => IInv'
<1>1. /\ CopiesOK'
      /\ \A d \in Objects, y \in Version :
           CopyOK(api[d], cloud, y) => CopyOK(api'[d], cloud', y)
  BY CloudCopies DEF IInv, workerFrame
<1>2. CopyOK(api'[w.key], cloud', w.lb)
  BY <1>1 DEF IInv, WorkerOK, TypeOK, Work
<1>3. w' \in Work /\ queue' \subseteq Objects /\ faults' \in Nat
  BY Leaving DEF Lost, Fault, Fail, Goto, IInv, TypeOK
<1>4. TypeOK'
  BY <1>3 DEF IInv, TypeOK, workerFrame
<1>5. Lost \/ Fail => IInv'
  BY <1>1, <1>4, Leaving DEF Lost, Fail, IInv
<1>. QED
  BY <1>1, <1>2, <1>4, <1>5

LEMMA AdoptStep ==
  ASSUME IInv, Adopt
  PROVE  IInv'
<1>. DEFINE l == w.lb.uuid
            x == [w EXCEPT !.pc = AfterEnsure(w.lb, w.ens)]
            y == [cloud[l] EXCEPT !.managed = "true", !.adopted = TRUE]
<1>0. /\ TypeOK /\ w \in Work /\ w.pc = "adopt" /\ w.lb \in Version /\ l \in LBs
      /\ ~w.lb.deleting /\ w.lb.fin /\ w.lb.uuid # None
      /\ w.key \in Objects /\ w.lb.exists
      /\ UNCHANGED <<api, watch, workerFrame>>
      /\ cloud \in [LBs -> CloudLB]
  BY DEF IInv, TypeOK, Work, WorkerOK, Adopt, Tracking, Version
<1>1. CASE Alive(l) /\ (Goto(x) \/ Lost) /\ cloud' = [cloud EXCEPT ![l] = y]
  <2>1. /\ y \in CloudLB /\ y.uid = cloud[l].uid /\ y.zone = cloud[l].zone
        /\ y.name = cloud[l].name /\ y.st # "unborn"
    <3>1. cloud[l] \in CloudLB /\ cloud[l].st = "alive"
      BY <1>0, <1>1 DEF Alive
    <3>. QED
      BY ZenonT(60), <3>1 DEF CloudLB
  <2>2. cloud' \in [LBs -> CloudLB] /\ Benign(cloud, cloud')
    BY <1>0, <1>1, <2>1, OneChanges
  <2>3. OneLoadBalancerPerObject' /\ Ages(cloud, cloud')
    BY <2>2, BenignOne, BenignAges DEF IInv
  <2>4. AfterEnsure(w.lb, w.ens) \in {"saveZone", "saveStatus", "pools", "done"}
    BY AfterEnsureCall
  <2>5. x \in Work /\ x.key = w.key /\ x.lb = w.lb /\ x.pc = AfterEnsure(w.lb, w.ens)
    BY <1>0, <2>4 DEF Work, Calls
  <2>. HIDE DEF x
  <2>6. /\ TypeOK' /\ CopiesOK' /\ CopyOK(api'[w.key], cloud', w.lb)
        /\ Lost => IInv'
    BY <1>0, <1>1, <2>2, <2>3, <2>5, AgeingStep
  <2>7. CASE Goto(x)
    <3>1. WorkerOK' /\ CreationOK'
      BY <1>0, <2>4, <2>5, <2>6, <2>7
      DEF Goto, WorkerOK, CreationOK, Creating, Tracking, Cleaning
    <3>. QED
      BY <2>3, <2>6, <3>1 DEF IInv
  <2>. QED
    BY <1>1, <2>6, <2>7
<1>2. CASE Fail /\ UNCHANGED cloud
  BY <1>0, <1>2, FailStep DEF Fail, TypeOK
<1>. QED
  BY <1>0, <1>1, <1>2 DEF Adopt

\* Only an object without a load balancer gets a new one.
LEMMA CreateStep ==
  ASSUME IInv, Create
  PROVE  IInv'
<1>0. /\ TypeOK /\ w \in Work /\ w.pc = "create" /\ w.lb \in Version
      /\ ~w.lb.deleting /\ w.lb.fin /\ w.key \in Objects /\ w.lb.exists
      /\ UNCHANGED <<api, watch, workerFrame>>
      /\ cloud \in [LBs -> CloudLB]
      /\ \A l \in LBs : ~CreatedFor(l, w.key, w.lb.uid)
  BY DEF IInv, TypeOK, Work, WorkerOK, CreationOK, Create, Creating
<1>1. ASSUME NEW l \in LBs, cloud[l].st = "unborn",
             cloud' = [cloud EXCEPT ![l] =
               [st |-> "alive", name |-> w.key, uid |-> w.lb.uid,
                managed |-> "true", adopted |-> FALSE, standard |-> TRUE,
                zone |-> w.zone, status |-> "changing"]],
             \/ Goto([w EXCEPT !.pc = "saveUUID",
                  !.ens = [id |-> l, zone |-> w.zone, status |-> "changing"]])
             \/ Lost
      PROVE  IInv'
  <2>. DEFINE y == [st |-> "alive", name |-> w.key, uid |-> w.lb.uid,
                    managed |-> "true", adopted |-> FALSE, standard |-> TRUE,
                    zone |-> w.zone, status |-> "changing"]
              x == [w EXCEPT !.pc = "saveUUID",
                      !.ens = [id |-> l, zone |-> w.zone, status |-> "changing"]]
  <2>1. y \in CloudLB
    BY <1>0 DEF CloudLB, Work, Version, Statuses
  <2>2. cloud' \in [LBs -> CloudLB] /\ Ages(cloud, cloud')
    BY <1>0, <1>1, <2>1 DEF Ages
  <2>3. OneLoadBalancerPerObject'
    <3>1. /\ \A m \in LBs : m # l => cloud'[m] = cloud[m]
          /\ cloud'[l].uid = w.lb.uid /\ cloud'[l].name = w.key
      BY <1>0, <1>1
    <3>2. ASSUME NEW m \in LBs, NEW n \in LBs, m # n,
                 cloud'[m].st = "alive", cloud'[n].st = "alive",
                 cloud'[m].uid # None, cloud'[m].uid = cloud'[n].uid,
                 cloud'[m].name # None, cloud'[m].name = cloud'[n].name
          PROVE  FALSE
      <4>1. CASE m # l /\ n # l
        <5>1. cloud'[m] = cloud[m] /\ cloud'[n] = cloud[n]
          BY <3>1, <4>1
        <5>. QED
          BY <3>2, <5>1 DEF IInv, OneLoadBalancerPerObject, Alive
      <4>2. CASE m = l
        <5>1. cloud[n].st = "alive" /\ cloud[n].uid = w.lb.uid /\ cloud[n].name = w.key
          BY <3>1, <3>2, <4>2
        <5>. QED
          BY <1>0, <5>1 DEF CreatedFor, Alive
      <4>3. CASE n = l
        <5>1. cloud[m].st = "alive" /\ cloud[m].uid = w.lb.uid /\ cloud[m].name = w.key
          BY <3>1, <3>2, <4>3
        <5>. QED
          BY <1>0, <5>1 DEF CreatedFor, Alive
      <4>. QED
        BY <4>1, <4>2, <4>3
    <3>. QED
      BY <3>2 DEF OneLoadBalancerPerObject, Alive
  <2>4. /\ x \in Work /\ x.key = w.key /\ x.lb = w.lb /\ x.pc = "saveUUID"
        /\ x.ens.id = l /\ x.ens.zone = w.zone
    BY <1>0 DEF Work, Calls, Reply, Statuses
  <2>. HIDE DEF x
  <2>5. /\ TypeOK' /\ CopiesOK' /\ CopyOK(api'[w.key], cloud', w.lb)
        /\ Lost => IInv'
    BY <1>0, <1>1, <2>2, <2>3, <2>4, AgeingStep DEF x
  <2>6. CASE Goto(x)
    <3>1. WorkerOK'
      BY <1>0, <2>4, <2>5, <2>6 DEF Goto, WorkerOK, Creating, Tracking, Cleaning
    <3>2. CreationOK'
      BY <1>0, <1>1, <2>4, <2>6 DEF Goto, CreationOK
    <3>. QED
      BY <2>3, <2>5, <3>1, <3>2 DEF IInv
  <2>. QED
    BY <1>1, <2>5, <2>6 DEF x
<1>2. CASE Fail /\ UNCHANGED cloud
  BY <1>0, <1>2, FailStep DEF Fail, TypeOK
<1>. QED
  BY <1>1, <1>2 DEF Create

LEMMA DeleteStep ==
  ASSUME IInv, Delete
  PROVE  IInv'
<1>. DEFINE l == w.lb.uuid
            y == [cloud[l] EXCEPT !.st = "gone"]
<1>0. /\ TypeOK /\ w \in Work /\ w.pc = "delete" /\ w.lb \in Version
      /\ w.lb.uuid # None /\ w.doomed = {l} /\ l \in LBs
      /\ w.lb.deleting /\ w.lb.fin /\ w.lb.rv <= cache[w.key].rv
      /\ w.key \in Objects /\ w.lb.exists
      /\ UNCHANGED <<api, watch, workerFrame>>
      /\ cloud \in [LBs -> CloudLB]
  BY DEF IInv, TypeOK, Work, WorkerOK, Delete, Cleaning, Version
<1>1. CASE /\ Alive(l) /\ cloud' = [cloud EXCEPT ![l] = y]
           /\ \/ Goto([w EXCEPT !.pc = "listManaged", !.doomed = w.doomed \ {l}])
              \/ Lost
  <2>. DEFINE x == [w EXCEPT !.pc = "listManaged", !.doomed = w.doomed \ {l}]
  <2>1. /\ y \in CloudLB /\ y.uid = cloud[l].uid /\ y.zone = cloud[l].zone
        /\ y.name = cloud[l].name /\ y.st = "gone"
    BY <1>0, <1>1 DEF CloudLB
  <2>2. cloud' \in [LBs -> CloudLB] /\ Benign(cloud, cloud')
    BY <1>0, <1>1, <2>1, OneChanges
  <2>3. OneLoadBalancerPerObject' /\ Ages(cloud, cloud') /\ cloud'[l].st # "alive"
    BY <1>0, <1>1, <2>1, <2>2, BenignOne, BenignAges DEF IInv
  <2>4. x \in Work /\ x.key = w.key /\ x.lb = w.lb /\ x.pc = "listManaged"
    BY <1>0 DEF Work, Calls
  <2>. HIDE DEF x
  <2>5. /\ TypeOK' /\ CopiesOK' /\ CopyOK(api'[w.key], cloud', w.lb)
        /\ Lost => IInv'
    BY <1>0, <1>1, <2>2, <2>3, <2>4, AgeingStep DEF x
  <2>6. CASE Goto(x)
    <3>1. WorkerOK' /\ CreationOK'
      BY <1>0, <2>3, <2>4, <2>5, <2>6
      DEF Goto, WorkerOK, CreationOK, Creating, Tracking, Cleaning, Alive, workerFrame
    <3>. QED
      BY <2>3, <2>5, <3>1 DEF IInv
  <2>. QED
    BY <1>1, <2>5, <2>6 DEF x
<1>2. CASE ~Alive(l) /\ Goto([w EXCEPT !.pc = "removeFinalizer"]) /\ UNCHANGED cloud
  <2>. DEFINE x == [w EXCEPT !.pc = "removeFinalizer"]
  <2>1. x \in Work /\ x.key = w.key /\ x.lb = w.lb /\ x.pc = "removeFinalizer"
    BY <1>0 DEF Work, Calls
  <2>2. /\ w' = x /\ TypeOK' /\ CopiesOK' /\ OneLoadBalancerPerObject'
        /\ w'.key \in Objects /\ w'.lb.exists /\ CopyOK(api'[w'.key], cloud', w'.lb)
    BY <1>0, <1>2, <2>1, GoingOn
  <2>3. WorkerOK' /\ CreationOK'
    BY <1>0, <1>2, <2>1, <2>2
    DEF WorkerOK, CreationOK, Creating, Tracking, Cleaning, Alive, workerFrame
  <2>. QED
    BY <2>2, <2>3 DEF IInv
<1>. QED
  BY <1>0, <1>1, <1>2 DEF Delete, AfterDelete

--------------------------------------------------------------------------------
(* Steps of the worker that write an object *)

\* The optimistic lock makes the worker's copy the stored version.
LEMMA FreshCopy ==
  ASSUME IInv, w.pc # "idle", Fresh
  PROVE  w.lb = api[w.key]
BY DEF IInv, WorkerOK, CopyOK, Fresh

\* A write that keeps what Keeps demands.
LEMMA WorkerWrites ==
  ASSUME IInv, w.pc # "idle", Fresh, NEW v \in Version, Put(w.key, v),
         UNCHANGED <<cloud, workerFrame>>,
         Keeps(w.lb, Stored(v)), Storable(Stored(v), cloud)
  PROVE  /\ CopiesOK' /\ OneLoadBalancerPerObject'
         /\ api' \in [Objects -> Version] /\ watch' \in [Objects -> SUBSET Version]
         /\ CopyOK(api'[w.key], cloud', Stored(v))
         /\ w' \in Work /\ queue' \subseteq Objects /\ faults' \in Nat => TypeOK'
         /\ Requeue /\ faults' \in Nat => IInv'
<1>1. w.key \in Objects /\ w.lb = api[w.key] /\ UNCHANGED <<cache, cloud>>
  BY FreshCopy DEF IInv, WorkerOK, workerFrame
<1>2. CopiesOK'
  BY <1>1, PutCopies DEF IInv
<1>3. OneLoadBalancerPerObject'
  BY <1>1, BenignRefl, BenignOne DEF IInv
<1>4. /\ api' \in [Objects -> Version] /\ watch' \in [Objects -> SUBSET Version]
      /\ api'[w.key] = Stored(v)
  BY <1>1, PutType DEF IInv
<1>5. CopyOK(api'[w.key], cloud', Stored(v))
  BY <1>1, <1>2, <1>4 DEF CopiesOK
<1>6. w' \in Work /\ queue' \subseteq Objects /\ faults' \in Nat => TypeOK'
  BY <1>1, <1>4 DEF IInv, TypeOK, workerFrame
<1>7. Requeue /\ faults' \in Nat => IInv'
  BY <1>2, <1>3, <1>6, Leaving DEF IInv
<1>. QED
  BY <1>2, <1>3, <1>4, <1>5, <1>6, <1>7

\* A write that changes nothing but spec.uuid, spec.zone and the status.
LEMMA HarmlessWrite ==
  ASSUME IInv, w.pc # "idle", NEW v \in Version,
         v.rv = w.lb.rv, v.exists = w.lb.exists, v.uid = w.lb.uid,
         v.deleting = w.lb.deleting, w.lb.fin => v.fin,
         w.lb.uuid # None => v.uuid = w.lb.uuid,
         v.uuid # None => cloud[v.uuid].st # "unborn"
  PROVE  Keeps(w.lb, Stored(v)) /\ Storable(Stored(v), cloud)
<1>1. w.lb \in Version /\ (w.lb.exists => w.lb.uid # None)
  BY DEF IInv, TypeOK, Work, WorkerOK, CopyOK
<1>2. Keeps(w.lb, Stored(v))
  BY <1>1, StoredKeeps
<1>3. Storable(Stored(v), cloud)
  BY <1>1, StoredStorable
<1>. QED
  BY <1>2, <1>3

\* A save with which Reconcile ends.
LEMMA SaveAndLeave ==
  ASSUME IInv, w.pc # "idle", NEW v \in Version,
         Keeps(w.lb, Stored(v)), Storable(Stored(v), cloud),
         UNCHANGED <<cloud, workerFrame>>,
         \/ Fresh /\ Put(w.key, v) /\ (Again \/ Done \/ Lost)
         \/ Fail /\ UNCHANGED <<api, watch>>
  PROVE  IInv'
<1>1. CASE Fresh /\ Put(w.key, v) /\ (Again \/ Done \/ Lost)
  <2>1. Requeue /\ faults' \in Nat
    BY <1>1 DEF Again, Done, Lost, Fault, IInv, TypeOK
  <2>. QED
    BY <1>1, <2>1, WorkerWrites
<1>2. CASE Fail /\ UNCHANGED <<api, watch>>
  BY <1>2, FailStep DEF Fail, IInv, TypeOK
<1>. QED
  BY <1>1, <1>2

LEMMA SaveUUIDStep ==
  ASSUME IInv, SaveUUID
  PROVE  IInv'
<1>. DEFINE v == [w.lb EXCEPT !.uuid = w.ens.id, !.zone = w.ens.zone]
<1>0. /\ w \in Work /\ w.pc = "saveUUID" /\ w.lb \in Version /\ w.ens \in Reply
      /\ w.ens.id \in LBs /\ cloud[w.ens.id].st # "unborn"
      /\ UNCHANGED <<cloud, workerFrame>>
  BY DEF IInv, TypeOK, Work, CreationOK, SaveUUID
<1>1. v \in Version
  BY <1>0 DEF Version, Reply
<1>2. /\ v.rv = w.lb.rv /\ v.exists = w.lb.exists /\ v.uid = w.lb.uid
      /\ v.deleting = w.lb.deleting /\ v.fin = w.lb.fin /\ v.uuid = w.ens.id
  BY <1>0 DEF Version
<1>3. \/ Fresh /\ verifyChanges(api[w.key], v) /\ Put(w.key, v) /\ (Again \/ Lost)
      \/ Fail /\ UNCHANGED <<api, watch>>
  BY DEF SaveUUID, WriteAndLeave, UpdateAccepted
<1>. HIDE DEF v
<1>4. CASE Fail /\ UNCHANGED <<api, watch>>
  BY <1>0, <1>4, FailStep DEF Fail, IInv, TypeOK
<1>5. CASE Fresh /\ verifyChanges(api[w.key], v) /\ Put(w.key, v) /\ (Again \/ Lost)
  <2>1. w.lb.uuid # None => v.uuid = w.lb.uuid
    BY <1>0, <1>5, FreshCopy DEF verifyChanges
  <2>2. Keeps(w.lb, Stored(v)) /\ Storable(Stored(v), cloud)
    BY <1>0, <1>1, <1>2, <2>1, HarmlessWrite
  <2>. QED
    BY <1>0, <1>1, <1>5, <2>2, SaveAndLeave
<1>. QED
  BY <1>3, <1>4, <1>5

\* The recorded load balancer of the worker's copy has existed.
LEMMA RecordedBorn ==
  ASSUME IInv, w.pc # "idle", w.lb.uuid # None
  PROVE  cloud[w.lb.uuid].st # "unborn"
BY DEF IInv, WorkerOK, CopyOK

LEMMA SaveZoneStep ==
  ASSUME IInv, SaveZone
  PROVE  IInv'
<1>. DEFINE v == [w.lb EXCEPT !.zone = w.ens.zone]
<1>0. /\ w \in Work /\ w.pc = "saveZone" /\ w.lb \in Version /\ w.ens \in Reply
      /\ UNCHANGED <<cloud, workerFrame>>
  BY DEF IInv, TypeOK, Work, SaveZone
<1>1. v \in Version
  BY <1>0 DEF Version, Reply
<1>2. /\ v.rv = w.lb.rv /\ v.exists = w.lb.exists /\ v.uid = w.lb.uid
      /\ v.deleting = w.lb.deleting /\ v.fin = w.lb.fin /\ v.uuid = w.lb.uuid
  BY <1>0 DEF Version
<1>3. \/ Fresh /\ Put(w.key, v) /\ (Again \/ Lost)
      \/ Fail /\ UNCHANGED <<api, watch>>
  BY DEF SaveZone, WriteAndLeave, UpdateAccepted
<1>. HIDE DEF v
<1>4. Keeps(w.lb, Stored(v)) /\ Storable(Stored(v), cloud)
  BY <1>0, <1>1, <1>2, RecordedBorn, HarmlessWrite
<1>. QED
  BY <1>0, <1>1, <1>3, <1>4, SaveAndLeave

LEMMA SaveReportStep ==
  ASSUME IInv, SaveReport
  PROVE  IInv'
<1>. DEFINE v == [w.lb EXCEPT !.report = w.view]
<1>0. /\ w \in Work /\ w.pc = "saveReport" /\ w.lb \in Version /\ w.view \subseteq Zones
      /\ UNCHANGED <<cloud, workerFrame>>
  BY DEF IInv, TypeOK, Work, SaveReport
<1>1. v \in Version
  BY <1>0 DEF Version
<1>2. /\ v.rv = w.lb.rv /\ v.exists = w.lb.exists /\ v.uid = w.lb.uid
      /\ v.deleting = w.lb.deleting /\ v.fin = w.lb.fin /\ v.uuid = w.lb.uuid
  BY <1>0 DEF Version
<1>3. \/ Fresh /\ Put(w.key, v) /\ (Done \/ Lost)
      \/ Fail /\ UNCHANGED <<api, watch>>
  BY DEF SaveReport, WriteAndLeave
<1>. HIDE DEF v
<1>4. Keeps(w.lb, Stored(v)) /\ Storable(Stored(v), cloud)
  BY <1>0, <1>1, <1>2, RecordedBorn, HarmlessWrite
<1>. QED
  BY <1>0, <1>1, <1>3, <1>4, SaveAndLeave

\* A save after which Reconcile goes on with the version the server returned.
LEMMA SaveAndGoto ==
  ASSUME IInv, w.pc # "idle", NEW v \in Version, NEW p \in Calls,
         v.exists, v.fin \/ ~v.deleting,
         Keeps(w.lb, Stored(v)), Storable(Stored(v), cloud),
         Fresh, Put(w.key, v), UNCHANGED <<cloud, workerFrame>>,
         Goto([w EXCEPT !.pc = p, !.lb = Stored(v)])
  PROVE  /\ TypeOK' /\ CopiesOK' /\ OneLoadBalancerPerObject'
         /\ w'.pc = p /\ w'.key = w.key /\ w.key \in Objects /\ w'.lb.exists
         /\ CopyOK(api'[w'.key], cloud', w'.lb)
         /\ w'.lb.deleting = v.deleting /\ w'.lb.fin = v.fin /\ w'.lb.uuid = v.uuid
<1>. DEFINE x == [w EXCEPT !.pc = p, !.lb = Stored(v)]
<1>1. /\ w \in Work /\ w.key \in Objects
      /\ Stored(v) \in Version /\ Stored(v) = [v EXCEPT !.rv = v.rv + 1]
  BY StoredVersion DEF IInv, TypeOK, WorkerOK
<1>2. x \in Work /\ x.pc = p /\ x.key = w.key /\ x.lb = Stored(v)
  BY <1>1 DEF Work
<1>. HIDE DEF x
<1>3. w' = x /\ UNCHANGED <<queue, faults>>
  BY DEF Goto, x
<1>4. /\ Stored(v).exists /\ Stored(v).deleting = v.deleting
      /\ Stored(v).fin = v.fin /\ Stored(v).uuid = v.uuid
  BY <1>1 DEF Version
<1>5. queue' \subseteq Objects /\ faults' \in Nat
  BY <1>3 DEF IInv, TypeOK
<1>6. /\ CopiesOK' /\ OneLoadBalancerPerObject' /\ TypeOK'
      /\ CopyOK(api'[w.key], cloud', Stored(v))
  BY <1>2, <1>3, <1>5, WorkerWrites
<1>. QED
  BY <1>1, <1>2, <1>3, <1>4, <1>6

LEMMA SaveStatusStep ==
  ASSUME IInv, SaveStatus
  PROVE  IInv'
<1>. DEFINE v == [w.lb EXCEPT !.status = w.ens.status]
            p == IF w.ens.status = "changing" THEN "done" ELSE "pools"
<1>0. /\ w \in Work /\ w.pc = "saveStatus" /\ w.lb \in Version /\ w.ens \in Reply
      /\ w.lb.exists /\ ~w.lb.deleting /\ w.lb.fin /\ w.lb.uuid # None
      /\ UNCHANGED <<cloud, workerFrame>>
  BY DEF IInv, TypeOK, Work, WorkerOK, SaveStatus, Tracking
<1>1. v \in Version
  BY <1>0 DEF Version, Reply
<1>2. /\ v.rv = w.lb.rv /\ v.exists = w.lb.exists /\ v.uid = w.lb.uid
      /\ v.deleting = w.lb.deleting /\ v.fin = w.lb.fin /\ v.uuid = w.lb.uuid
  BY <1>0 DEF Version
<1>3. \/ Fresh /\ Put(w.key, v) /\ Goto([w EXCEPT !.pc = p, !.lb = Stored(v)])
      \/ Fresh /\ Put(w.key, v) /\ Lost
      \/ Fail /\ UNCHANGED <<api, watch>>
  BY DEF SaveStatus, WriteAndGoto
<1>4. p \in {"done", "pools"} /\ p \in Calls
  BY DEF Calls
<1>. HIDE DEF v, p
<1>5. Keeps(w.lb, Stored(v)) /\ Storable(Stored(v), cloud)
  BY <1>0, <1>1, <1>2, RecordedBorn, HarmlessWrite
<1>6. CASE Fresh /\ Put(w.key, v) /\ Goto([w EXCEPT !.pc = p, !.lb = Stored(v)])
  <2>1. /\ TypeOK' /\ CopiesOK' /\ OneLoadBalancerPerObject'
        /\ w'.pc = p /\ w'.key = w.key /\ w.key \in Objects /\ w'.lb.exists
        /\ CopyOK(api'[w'.key], cloud', w'.lb)
        /\ w'.lb.deleting = v.deleting /\ w'.lb.fin = v.fin /\ w'.lb.uuid = v.uuid
    BY <1>0, <1>1, <1>2, <1>4, <1>5, <1>6, SaveAndGoto
  <2>2. WorkerOK' /\ CreationOK'
    BY <1>0, <1>2, <1>4, <2>1 DEF WorkerOK, CreationOK, Creating, Tracking, Cleaning
  <2>. QED
    BY <2>1, <2>2 DEF IInv
<1>7. CASE \/ Fresh /\ Put(w.key, v) /\ Lost
           \/ Fail /\ UNCHANGED <<api, watch>>
  BY <1>0, <1>1, <1>5, <1>7, SaveAndLeave
<1>. QED
  BY <1>3, <1>6, <1>7

LEMMA AddFinalizerStep ==
  ASSUME IInv, AddFinalizer
  PROVE  IInv'
<1>. DEFINE v == [w.lb EXCEPT !.fin = TRUE]
            p == EnsureCall(v)
<1>0. /\ w \in Work /\ w.pc = "addFinalizer" /\ w.lb \in Version
      /\ w.lb.exists /\ ~w.lb.deleting
      /\ UNCHANGED <<cloud, workerFrame>>
  BY DEF IInv, TypeOK, Work, WorkerOK, AddFinalizer
<1>1. v \in Version
  BY <1>0 DEF Version
<1>2. /\ v.rv = w.lb.rv /\ v.exists = w.lb.exists /\ v.uid = w.lb.uid
      /\ v.deleting = w.lb.deleting /\ v.fin /\ v.uuid = w.lb.uuid
  BY <1>0 DEF Version
<1>3. \/ Fresh /\ Put(w.key, v) /\ Goto([w EXCEPT !.pc = p, !.lb = Stored(v)])
      \/ Fresh /\ Put(w.key, v) /\ Lost
      \/ Fail /\ UNCHANGED <<api, watch>>
  BY DEF AddFinalizer, WriteAndGoto, UpdateAccepted
<1>4. /\ p \in Calls /\ p \in {"listCreated", "get"}
      /\ p = "get" => v.uuid # None
  BY DEF EnsureCall, Calls
<1>. HIDE DEF v, p
<1>5. Keeps(w.lb, Stored(v)) /\ Storable(Stored(v), cloud)
  BY <1>0, <1>1, <1>2, RecordedBorn, HarmlessWrite
<1>6. CASE Fresh /\ Put(w.key, v) /\ Goto([w EXCEPT !.pc = p, !.lb = Stored(v)])
  <2>1. /\ TypeOK' /\ CopiesOK' /\ OneLoadBalancerPerObject'
        /\ w'.pc = p /\ w'.key = w.key /\ w.key \in Objects /\ w'.lb.exists
        /\ CopyOK(api'[w'.key], cloud', w'.lb)
        /\ w'.lb.deleting = v.deleting /\ w'.lb.fin = v.fin /\ w'.lb.uuid = v.uuid
    BY <1>0, <1>1, <1>2, <1>4, <1>5, <1>6, SaveAndGoto
  <2>2. WorkerOK' /\ CreationOK'
    BY <1>0, <1>2, <1>4, <2>1 DEF WorkerOK, CreationOK, Creating, Tracking, Cleaning
  <2>. QED
    BY <2>1, <2>2 DEF IInv
<1>7. CASE \/ Fresh /\ Put(w.key, v) /\ Lost
           \/ Fail /\ UNCHANGED <<api, watch>>
  BY <1>0, <1>1, <1>5, <1>7, SaveAndLeave
<1>. QED
  BY <1>3, <1>6, <1>7

\* The one write that takes the finalizer away.  The worker's copy came from
\* the cache, so a write that is accepted finds the informer up to date: no
\* older copy is under way that could still vouch for the object.
LEMMA RemoveFinalizerStep ==
  ASSUME IInv, RemoveFinalizer
  PROVE  IInv'
<1>. DEFINE c == w.key
            v == [w.lb EXCEPT !.fin = FALSE]
<1>0. /\ w \in Work /\ w.pc = "removeFinalizer" /\ w.lb \in Version /\ c \in Objects
      /\ w.lb.exists /\ w.lb.deleting /\ w.lb.fin /\ w.lb.rv <= cache[c].rv
      /\ w.lb.uuid # None => ~Alive(w.lb.uuid)
      /\ TypeOK /\ CopiesOK
      /\ UNCHANGED <<cloud, workerFrame>>
  BY DEF IInv, TypeOK, Work, WorkerOK, RemoveFinalizer, Cleaning
<1>1. \/ Fresh /\ Put(c, v) /\ (Done \/ Lost)
      \/ Fail /\ UNCHANGED <<api, watch>>
  BY DEF RemoveFinalizer, WriteAndLeave, UpdateAccepted
<1>2. CASE Fail /\ UNCHANGED <<api, watch>>
  BY <1>0, <1>2, FailStep DEF Fail, TypeOK
<1>3. CASE Fresh /\ Put(c, v) /\ (Done \/ Lost)
  <2>1. v \in Version /\ v.rv = w.lb.rv /\ v.exists = w.lb.exists /\ v.uid = w.lb.uid
        /\ v.uuid = w.lb.uuid
    BY <1>0 DEF Version
  <2>2. w.lb = api[c]
    BY <1>0, <1>3, FreshCopy
  <2>3. cache[c] = api[c] /\ watch[c] = {}
    <3>1. /\ cache[c] \in Version /\ watch[c] \subseteq Version
          /\ CopyOK(api[c], cloud, cache[c])
          /\ \A x \in watch[c] : CopyOK(api[c], cloud, x) /\ x.rv > cache[c].rv
      BY <1>0 DEF CopiesOK, TypeOK
    <3>2. api[c].rv \in Nat /\ cache[c].rv \in Nat /\ \A x \in watch[c] : x.rv \in Nat
      BY <1>0, <2>2, <3>1 DEF Version
    <3>3. api[c].rv <= cache[c].rv
      BY <1>0, <2>2
    <3>4. cache[c].rv <= api[c].rv /\ (cache[c].rv = api[c].rv => cache[c] = api[c])
      BY <3>1 DEF CopyOK
    <3>5. cache[c] = api[c]
      BY <3>2, <3>3, <3>4
    <3>6. ASSUME NEW x \in watch[c] PROVE FALSE
      <4>1. x.rv <= api[c].rv
        BY <3>1 DEF CopyOK
      <4>2. x.rv > cache[c].rv /\ x.rv \in Nat
        BY <3>1, <3>2
      <4>. QED
        BY <3>2, <3>3, <4>1, <4>2
    <3>. QED
      BY <3>5, <3>6
  <2>4. /\ Stored(v) \in Version /\ Stored(v).rv = api[c].rv + 1
        /\ api' = [api EXCEPT ![c] = Stored(v)]
        /\ watch' = [watch EXCEPT ![c] = watch[c] \cup {Stored(v)}]
    BY <1>3, <2>1, <2>2, StoredVersion DEF Put
  <2>5. Storable(Stored(v), cloud)
    <3>1. /\ w.lb.exists => w.lb.uid # None
          /\ w.lb.uuid # None => cloud[w.lb.uuid].st # "unborn"
      BY <1>0, RecordedBorn DEF IInv, WorkerOK, CopyOK
    <3>. HIDE DEF v
    <3>. QED
      BY <2>1, <3>1, StoredStorable
  <2>. HIDE DEF v
  <2>6. CopyOK(Stored(v), cloud, Stored(v))
    BY <2>5, CopySelf
  <2>7. CopyOK(Stored(v), cloud, api[c])
    <3>1. /\ api[c] \in Version /\ CopyOK(api[c], cloud, api[c])
          /\ api[c].deleting /\ (api[c].uuid # None => cloud[api[c].uuid].st # "alive")
      BY <1>0, <2>2 DEF CopiesOK, Alive
    <3>. QED
      BY <2>4, <3>1, CopyEnd
  <2>8. cache' = cache /\ cloud' = cloud
    BY <1>0 DEF workerFrame
  <2>9. CopiesOK'
    <3>. SUFFICES ASSUME NEW d \in Objects
                  PROVE  /\ CopyOK(api'[d], cloud, api'[d])
                         /\ CopyOK(api'[d], cloud, cache[d])
                         /\ \A x \in watch'[d] : /\ CopyOK(api'[d], cloud, x)
                                                 /\ x.rv > cache[d].rv
      BY <2>8 DEF CopiesOK
    <3>1. CASE d = c
      <4>1. api'[d] = Stored(v) /\ cache[d] = api[c] /\ watch'[d] = {Stored(v)}
        BY <1>0, <2>3, <2>4, <3>1 DEF TypeOK
      <4>2. Stored(v).rv > api[c].rv
        <5>1. api[c].rv \in Nat
          BY <1>0 DEF TypeOK, Version
        <5>. QED
          BY <2>4, <5>1
      <4>. QED
        BY <2>6, <2>7, <4>1, <4>2
    <3>2. CASE d # c
      BY <1>0, <2>4, <3>2 DEF CopiesOK, TypeOK
    <3>. QED
      BY <3>1, <3>2
  <2>10. Requeue /\ faults' \in Nat
    BY <1>0, <1>3 DEF Done, Lost, Fault, TypeOK
  <2>11. w' \in Work /\ queue' \subseteq Objects /\ WorkerOK' /\ CreationOK'
    BY <1>0, <2>10, Leaving
  <2>12. TypeOK'
    BY <1>0, <2>4, <2>10, <2>11 DEF TypeOK, workerFrame
  <2>13. OneLoadBalancerPerObject'
    BY <2>8, BenignRefl, BenignOne DEF IInv
  <2>. QED
    BY <2>9, <2>11, <2>12, <2>13 DEF IInv
<1>. QED
  BY <1>1, <1>2, <1>3

--------------------------------------------------------------------------------
(* The invariants *)

LEMMA NextIInv == IInv /\ [Next]_vars => IInv'
<1>. SUFFICES ASSUME IInv, [Next]_vars PROVE IInv'
  OBVIOUS
<1>1. ASSUME NEW c \in Objects, Start(c) \/ Deliver(c) \/ Users(c)
      PROVE  IInv'
  BY <1>1, StartStep, DeliverStep, UsersStep
<1>2. CASE Worker
  BY <1>2, AddFinalizerStep, ListCreatedStep, GuessZoneStep, CreateStep, GetStep,
     AdoptStep, SaveUUIDStep, SaveZoneStep, SaveStatusStep, PoolsStep, SaveReportStep,
     FinishStep, DeleteStep, ListManagedStep, RemoveFinalizerStep
  DEF Worker
<1>3. CASE CallFails \/ Restart \/ Project
  BY <1>3, CallFailsStep, RestartStep, ProjectStep
<1>4. CASE UNCHANGED vars
  <2>1. TypeOK' /\ CopiesOK'
    BY <1>4 DEF vars, IInv, TypeOK, CopiesOK
  <2>2. WorkerOK' /\ CreationOK' /\ OneLoadBalancerPerObject'
    BY <1>4 DEF vars, IInv, WorkerOK, CreationOK, CreatedFor, Alive, OneLoadBalancerPerObject
  <2>. QED
    BY <2>1, <2>2 DEF IInv
<1>. QED
  BY <1>1, <1>2, <1>3, <1>4 DEF Next

\* The inductive invariant holds in every reachable state.
THEOREM Invariance == Spec => []IInv
BY InitIInv, NextIInv, PTL DEF Spec

\* Every variable stays in its type, whatever the number of objects, load
\* balancers and zones and however many faults, edits and changes happen.
THEOREM TypeCorrect == Spec => []TypeOK
<1>1. IInv => TypeOK
  BY DEF IInv
<1>. QED
  BY <1>1, Invariance, PTL

\* The look-up before the create (lines 751-761) is enough: lost replies,
\* failed saves and restarts never give an object a second load balancer.
THEOREM NoSecondLoadBalancer == Spec => []OneLoadBalancerPerObject
<1>1. IInv => OneLoadBalancerPerObject
  BY DEF IInv
<1>. QED
  BY <1>1, Invariance, PTL

\* Between the look-up and the save of the UUID (lines 104-121) the API server
\* stores the very object Reconcile works for, with the finalizer.
THEOREM CreationIsGuarded == Spec => []CreatesUnderFinalizer
<1>1. IInv => CreatesUnderFinalizer
  BY DEF IInv, CreatesUnderFinalizer, WorkerOK, CopyOK, Creating
<1>. QED
  BY <1>1, Invariance, PTL

--------------------------------------------------------------------------------
(* What a step may do *)

\* A write of v over the stored version a: the webhook's rules and the
\* finalizer's.
Legal(a, v) ==
  a.exists =>
    /\ a.uuid # None => v.uuid = a.uuid
    /\ a.zone # None => v.zone = a.zone
    /\ a.deleting => v.deleting
    /\ v.other => a.other
    /\ a.fin /\ ~v.fin /\ a.uuid # None => cloud[a.uuid].st # "alive"

\* A step writes nothing or one object, legally, and then changes no load
\* balancer.
Writes ==
  \/ api' = api
  \/ /\ cloud' = cloud
     /\ \E c \in Objects, v \in Version :
          api' = [api EXCEPT ![c] = Stored(v)] /\ Legal(api[c], v)

LEMMA WorkerUpdate ==
  ASSUME IInv, w.pc # "idle", Fresh, NEW v \in Version, Put(w.key, v),
         Legal(w.lb, v), cloud' = cloud
  PROVE  Writes
<1>1. w.key \in Objects /\ w.lb = api[w.key]
  BY FreshCopy DEF IInv, WorkerOK
<1>. QED
  BY <1>1 DEF Writes, Put

LEMMA UsersWrite ==
  ASSUME IInv, NEW c \in Objects, Users(c)
  PROVE  Writes
<1>0. api[c] \in Version
  BY DEF IInv, TypeOK
<1>1. CASE UserCreate(c)
  <2>1. PICK u \in UIDs \ issued, l \in Choices, z \in Zones \cup {None},
             vips \in BOOLEAN, other \in OtherFinalizer :
          Put(c, [rv |-> api[c].rv, exists |-> TRUE, uid |-> u,
                  deleting |-> FALSE, fin |-> FALSE, other |-> other,
                  uuid |-> l, zone |-> z, vips |-> vips,
                  status |-> None, report |-> {}])
    BY <1>1 DEF UserCreate
  <2>. DEFINE v == [rv |-> api[c].rv, exists |-> TRUE, uid |-> u,
                    deleting |-> FALSE, fin |-> FALSE, other |-> other,
                    uuid |-> l, zone |-> z, vips |-> vips,
                    status |-> None, report |-> {}]
  <2>2. v \in Version
    BY <1>0, ConstantsAssumption DEF Version, Choices
  <2>3. Legal(api[c], v) /\ cloud' = cloud
    BY <1>1 DEF Legal, UserCreate, userFrame
  <2>. QED
    BY <2>1, <2>2, <2>3 DEF Writes, Put
<1>2. CASE UserEdit(c)
  <2>1. PICK l \in Choices, z \in Zones \cup {None} :
          /\ verifyChanges(api[c], [api[c] EXCEPT !.uuid = l, !.zone = z])
          /\ Put(c, [api[c] EXCEPT !.uuid = l, !.zone = z])
    BY <1>2 DEF UserEdit
  <2>. DEFINE v == [api[c] EXCEPT !.uuid = l, !.zone = z]
  <2>2. v \in Version
    BY <1>0 DEF Version, Choices
  <2>3. v.deleting = api[c].deleting /\ v.other = api[c].other /\ v.fin = api[c].fin
    BY <1>0 DEF Version
  <2>4. Legal(api[c], v) /\ cloud' = cloud
    BY <1>2, <2>1, <2>3 DEF Legal, verifyChanges, UserEdit, userFrame
  <2>. QED
    BY <2>1, <2>2, <2>4 DEF Writes, Put
<1>3. CASE UserDelete(c) \/ OtherReleases(c)
  <2>1. PICK v \in {[api[c] EXCEPT !.deleting = TRUE], [api[c] EXCEPT !.other = FALSE]} :
          Put(c, v) /\ cloud' = cloud
    BY <1>3 DEF UserDelete, OtherReleases, userFrame
  <2>2. v \in Version
    BY <1>0, <2>1 DEF Version
  <2>3. /\ v.uuid = api[c].uuid /\ v.zone = api[c].zone /\ v.fin = api[c].fin
        /\ api[c].deleting => v.deleting
        /\ v.other => api[c].other
    BY <1>0, <2>1 DEF Version
  <2>4. Legal(api[c], v)
    BY <2>3 DEF Legal
  <2>. QED
    BY <2>1, <2>2, <2>4 DEF Writes, Put
<1>. QED
  BY <1>1, <1>2, <1>3 DEF Users

LEMMA SavesWrite ==
  ASSUME IInv, AddFinalizer \/ SaveUUID \/ SaveZone \/ SaveStatus \/ SaveReport \/ RemoveFinalizer
  PROVE  Writes
<1>0. w \in Work /\ w.lb \in Version /\ w.ens \in Reply /\ w.view \subseteq Zones
  BY DEF IInv, TypeOK, Work
<1>1. CASE AddFinalizer
  <2>. DEFINE v == [w.lb EXCEPT !.fin = TRUE]
  <2>1. UNCHANGED <<api, watch>> \/ (Fresh /\ Put(w.key, v))
    BY <1>1 DEF AddFinalizer, WriteAndGoto, UpdateAccepted
  <2>0. cloud' = cloud /\ w.pc # "idle"
    BY <1>1 DEF AddFinalizer
  <2>2. v \in Version /\ Legal(w.lb, v)
    BY <1>0 DEF Version, Legal
  <2>. QED
    BY <2>0, <2>1, <2>2, WorkerUpdate DEF Writes
<1>2. CASE SaveUUID
  <2>. DEFINE v == [w.lb EXCEPT !.uuid = w.ens.id, !.zone = w.ens.zone]
  <2>1. UNCHANGED <<api, watch>> \/ (Fresh /\ verifyChanges(api[w.key], v) /\ Put(w.key, v))
    BY <1>2 DEF SaveUUID, WriteAndLeave, UpdateAccepted
  <2>0. cloud' = cloud /\ w.pc # "idle"
    BY <1>2 DEF SaveUUID
  <2>2. v \in Version /\ v.deleting = w.lb.deleting /\ v.other = w.lb.other /\ v.fin = w.lb.fin
    BY <1>0 DEF Version, Reply
  <2>3. Fresh /\ verifyChanges(api[w.key], v) => Legal(w.lb, v)
    BY <2>0, <2>2, FreshCopy DEF Legal, verifyChanges
  <2>. HIDE DEF v
  <2>. QED
    BY <2>0, <2>1, <2>2, <2>3, WorkerUpdate DEF Writes
<1>3. CASE SaveZone
  <2>. DEFINE v == [w.lb EXCEPT !.zone = w.ens.zone]
  <2>1. UNCHANGED <<api, watch>> \/ (Fresh /\ verifyChanges(api[w.key], v) /\ Put(w.key, v))
    BY <1>3 DEF SaveZone, WriteAndLeave, UpdateAccepted
  <2>0. cloud' = cloud /\ w.pc # "idle"
    BY <1>3 DEF SaveZone
  <2>2. v \in Version /\ v.deleting = w.lb.deleting /\ v.other = w.lb.other /\ v.fin = w.lb.fin
    BY <1>0 DEF Version, Reply
  <2>3. Fresh /\ verifyChanges(api[w.key], v) => Legal(w.lb, v)
    BY <2>0, <2>2, FreshCopy DEF Legal, verifyChanges
  <2>. HIDE DEF v
  <2>. QED
    BY <2>0, <2>1, <2>2, <2>3, WorkerUpdate DEF Writes
<1>4. CASE SaveStatus
  <2>. DEFINE v == [w.lb EXCEPT !.status = w.ens.status]
  <2>1. UNCHANGED <<api, watch>> \/ (Fresh /\ Put(w.key, v))
    BY <1>4 DEF SaveStatus, WriteAndGoto
  <2>0. cloud' = cloud /\ w.pc # "idle"
    BY <1>4 DEF SaveStatus
  <2>2. v \in Version /\ Legal(w.lb, v)
    BY <1>0 DEF Version, Reply, Legal
  <2>. QED
    BY <2>0, <2>1, <2>2, WorkerUpdate DEF Writes
<1>5. CASE SaveReport
  <2>. DEFINE v == [w.lb EXCEPT !.report = w.view]
  <2>1. UNCHANGED <<api, watch>> \/ (Fresh /\ Put(w.key, v))
    BY <1>5 DEF SaveReport, WriteAndLeave
  <2>0. cloud' = cloud /\ w.pc # "idle"
    BY <1>5 DEF SaveReport
  <2>2. v \in Version /\ Legal(w.lb, v)
    BY <1>0 DEF Version, Legal
  <2>. QED
    BY <2>0, <2>1, <2>2, WorkerUpdate DEF Writes
<1>6. CASE RemoveFinalizer
  <2>. DEFINE v == [w.lb EXCEPT !.fin = FALSE]
  <2>1. UNCHANGED <<api, watch>> \/ (Fresh /\ Put(w.key, v))
    BY <1>6 DEF RemoveFinalizer, WriteAndLeave, UpdateAccepted
  <2>0. cloud' = cloud /\ w.pc # "idle"
    BY <1>6 DEF RemoveFinalizer
  <2>2. w.lb.uuid # None => cloud[w.lb.uuid].st # "alive"
    BY <1>6 DEF IInv, WorkerOK, RemoveFinalizer, Alive
  <2>3. v \in Version /\ Legal(w.lb, v)
    BY <1>0, <2>2 DEF Version, Legal
  <2>. QED
    BY <2>0, <2>1, <2>3, WorkerUpdate DEF Writes
<1>. QED
  BY <1>1, <1>2, <1>3, <1>4, <1>5, <1>6

LEMMA StepWrites ==
  ASSUME IInv, [Next]_vars
  PROVE  Writes
<1>1. ASSUME NEW c \in Objects, Start(c) \/ Deliver(c) \/ Users(c)
      PROVE  Writes
  BY <1>1, UsersWrite DEF Start, Deliver, Writes
<1>2. CASE Worker
  BY <1>2, SavesWrite
  DEF Worker, Writes, ListCreated, GuessZone, Create, Get, Adopt, Pools, Finish,
      Delete, ListManaged
<1>3. CASE CallFails \/ Restart \/ Project
  BY <1>3 DEF Writes, CallFails, Restart, Project, CloudSettles, CloudChanges,
              ServersChange, cloudFrame
<1>4. CASE UNCHANGED vars
  BY <1>4 DEF Writes, vars
<1>. QED
  BY <1>1, <1>2, <1>3, <1>4 DEF Next

\* The webhook's rules and the optimistic lock together: the UUID, the zone, a
\* deletion and another controller's release are never written over.
THEOREM WritesAreSafe == Spec => NoLostWrite
<1>1. IInv /\ [Next]_vars =>
        [\A c \in Objects :
           api[c].exists /\ api'[c].exists /\ api[c].uid = api'[c].uid =>
             /\ api[c].uuid # None => api'[c].uuid = api[c].uuid
             /\ api[c].zone # None => api'[c].zone = api[c].zone
             /\ api[c].deleting => api'[c].deleting
             /\ api'[c].other => api[c].other]_vars
  <2>. SUFFICES ASSUME IInv, [Next]_vars, NEW c \in Objects, api[c].exists, api'[c].exists
                PROVE  /\ api[c].uuid # None => api'[c].uuid = api[c].uuid
                       /\ api[c].zone # None => api'[c].zone = api[c].zone
                       /\ api[c].deleting => api'[c].deleting
                       /\ api'[c].other => api[c].other
    OBVIOUS
  <2>1. CASE api'[c] = api[c]
    BY <2>1
  <2>2. CASE api'[c] # api[c]
    <3>1. PICK v \in Version : api'[c] = Stored(v) /\ Legal(api[c], v)
      BY <2>2, StepWrites DEF Writes, IInv, TypeOK
    <3>2. Stored(v) = [v EXCEPT !.rv = v.rv + 1]
      BY <3>1, StoredVersion DEF Absent
    <3>3. /\ api'[c].uuid = v.uuid /\ api'[c].zone = v.zone
          /\ api'[c].deleting = v.deleting /\ api'[c].other = v.other
      BY <3>1, <3>2 DEF Version
    <3>. QED
      BY <3>1, <3>3 DEF Legal
  <2>. QED
    BY <2>1, <2>2
<1>. QED
  BY <1>1, Invariance, PTL DEF Spec, NoLostWrite

\* An object never loses the finalizer while the load balancer it records is
\* alive.
THEOREM FinalizerHolds == Spec => FinalizedMeansDeleted
<1>1. IInv /\ [Next]_vars =>
        [\A c \in Objects :
           api[c].exists /\ api[c].fin /\ ~api'[c].fin /\ api[c].uuid # None
             => cloud'[api[c].uuid].st # "alive"]_vars
  <2>. SUFFICES ASSUME IInv, [Next]_vars, NEW c \in Objects,
                       api[c].exists, api[c].fin, ~api'[c].fin, api[c].uuid # None
                PROVE  cloud'[api[c].uuid].st # "alive"
    OBVIOUS
  <2>1. PICK v \in Version : api'[c] = Stored(v) /\ Legal(api[c], v) /\ cloud' = cloud
    BY StepWrites DEF Writes, IInv, TypeOK
  <2>2. ~v.fin
    <3>1. v.fin => Stored(v).fin
      BY StoredVersion DEF Version
    <3>. QED
      BY <2>1, <3>1
  <2>. QED
    BY <2>1, <2>2 DEF Legal
<1>. QED
  BY <1>1, Invariance, PTL DEF Spec, FinalizedMeansDeleted

\* cleanupLoadBalancer deletes nothing but the load balancer of an object that
\* is being deleted at that moment, however stale the copy it works on.
THEOREM CleanupIsTargeted == Spec => DeletesOnlyForDeletion
<1>1. IInv /\ [Next]_vars =>
        [\A l \in LBs :
           Delete /\ Alive(l) /\ cloud'[l].st = "gone" =>
             \E c \in Objects :
               /\ api[c].exists /\ api[c].deleting /\ api[c].fin
               /\ api[c].uuid = l \/ cloud[l].uid = api[c].uid]_vars
  <2>. SUFFICES ASSUME IInv, NEW l \in LBs, Delete, Alive(l), cloud'[l].st = "gone"
                PROVE  \E c \in Objects : /\ api[c].exists /\ api[c].deleting /\ api[c].fin
                                          /\ api[c].uuid = l
    OBVIOUS
  <2>1. /\ w.pc = "delete" /\ w.doomed = {w.lb.uuid} /\ w.lb.uuid # None
        /\ w.key \in Objects /\ w.lb.exists /\ w.lb.deleting /\ w.lb.fin
        /\ CopyOK(api[w.key], cloud, w.lb)
    BY DEF IInv, WorkerOK, Delete, Cleaning
  <2>2. l = w.lb.uuid
    <3>1. PICK m \in w.doomed : cloud' = [cloud EXCEPT ![m].st = "gone"] \/ cloud' = cloud
      BY DEF Delete
    <3>2. cloud \in [LBs -> CloudLB]
      BY DEF IInv, TypeOK
    <3>. QED
      BY <2>1, <3>1, <3>2 DEF Alive
  <2>. QED
    BY <2>1, <2>2 DEF CopyOK, Alive
<1>. QED
  BY <1>1, Invariance, PTL DEF Spec, DeletesOnlyForDeletion

\* What Reconcile records in an object was created for that object.
THEOREM RecordsAreRight == Spec => RecordsItsOwn
<1>1. IInv /\ [Next]_vars =>
        [\A c \in Objects :
           SaveUUID /\ api[c].uuid = None /\ api'[c].uuid # None =>
             /\ cloud[api'[c].uuid].uid = api[c].uid
             /\ cloud[api'[c].uuid].zone = api'[c].zone]_vars
  <2>. SUFFICES ASSUME IInv, NEW c \in Objects, SaveUUID,
                       api[c].uuid = None, api'[c].uuid # None
                PROVE  /\ cloud[api'[c].uuid].uid = api[c].uid
                       /\ cloud[api'[c].uuid].zone = api'[c].zone
    OBVIOUS
  <2>. DEFINE v == [w.lb EXCEPT !.uuid = w.ens.id, !.zone = w.ens.zone]
  <2>0. /\ w.pc = "saveUUID" /\ w \in Work /\ w.lb \in Version /\ w.ens \in Reply
        /\ w.lb.fin /\ w.key \in Objects /\ api \in [Objects -> Version]
        /\ cloud[w.ens.id].uid = w.lb.uid /\ cloud[w.ens.id].zone = w.ens.zone
    BY DEF IInv, TypeOK, Work, WorkerOK, CreationOK, SaveUUID, Creating
  <2>1. UNCHANGED <<api, watch>> \/ (Fresh /\ Put(w.key, v))
    BY DEF SaveUUID, WriteAndLeave, UpdateAccepted
  <2>2. v \in Version /\ v.uuid = w.ens.id /\ v.zone = w.ens.zone /\ v.fin
    BY <2>0 DEF Version, Reply
  <2>3. Stored(v) = [v EXCEPT !.rv = v.rv + 1]
    BY <2>2, StoredVersion
  <2>4. Stored(v).uuid = w.ens.id /\ Stored(v).zone = w.ens.zone
    BY ZenonT(60), <2>2, <2>3 DEF Version
  <2>. HIDE DEF v
  <2>5. Fresh /\ api' = [api EXCEPT ![w.key] = Stored(v)]
    BY <2>1 DEF Put
  <2>6. c = w.key /\ api'[c] = Stored(v) /\ w.lb = api[w.key]
    BY <2>0, <2>5, FreshCopy
  <2>. QED
    BY <2>0, <2>4, <2>6
<1>. QED
  BY <1>1, Invariance, PTL DEF Spec, RecordsItsOwn
================================================================================
