------------------------- MODULE PolicyClientProofs -------------------------
(***************************************************************************)
(* Proofs about TraceGuardClient and SignedPolicyCache for every policy,    *)
(* scope, lifetime and clock lag, and for bundles, requests and answers     *)
(* that are late, repeated or lost: what the cache allows the authority     *)
(* allows, a superseded policy is used for a bundle's lifetime at most, and *)
(* every offline decision is accounted for.                                 *)
(***************************************************************************)
EXTENDS PolicyClient, FiniteSetTheorems, WellFoundedInduction, TLAPS

-----------------------------------------------------------------------------
(* The inductive invariant *)

\* A bundle that is not of the current epoch has been older than its end.
Dated(b) == b.epoch = epoch \/ (b.epoch < epoch /\ superseded[b.epoch] <= b.age)

EpochInv ==
    /\ inForce # {} => epoch > 0
    /\ \A e \in 1..MaxEpoch : e >= epoch => superseded[e] = 0
    /\ \A b \in signed \cup bundle : Dated(b)

\* A process reports the head of its queue, and what was decided is not owed.
CallInv ==
    /\ answer # "none" => call # Idle
    /\ call # Idle /\ call.method = "reconcile" => queue # << >> /\ call.key = Head(queue)
    /\ answer = "decided" => call.key \notin owed

\* install() replaces the bundle.
OneBundle == bundle = {} \/ \E b \in Bundles : bundle = {b}

ClientInv == ClientTypeOK /\ OneBundle /\ EpochInv /\ CallInv /\ OfflineIsAccounted

-----------------------------------------------------------------------------
(* Selection of a rule *)

\* A set of natural numbers has a least element.
LEMMA LeastNatural ==
    ASSUME NEW T \in SUBSET Nat, T # {}
    PROVE  \E x \in T : \A y \in T : x <= y
<1>1. PICK x \in T : \A y \in T : ~(<<y, x>> \in OpToRel(<, Nat))
  BY NatLessThanWellFounded, WFMin
<1>2. \A y \in T : ~(y < x)
  BY <1>1 DEF OpToRel
<1> QED BY <1>2

\* The order of the keys that max() compares.
LEMMA BelowIs ==
    ASSUME NEW r \in Rule, NEW q \in Rule
    PROVE  /\ Precedence[r.decision] \in Nat /\ r.priority \in Nat /\ r.id \in Nat
           /\ Below(r, q) <=>
                 \/ Precedence[r.decision] < Precedence[q.decision]
                 \/ /\ Precedence[r.decision] = Precedence[q.decision]
                    /\ \/ r.priority < q.priority
                       \/ r.priority = q.priority /\ r.id < q.id
<1> DEFINE a == Precedence[r.decision]
           b == Precedence[q.decision]
<1>1. /\ a \in Nat /\ b \in Nat /\ r.priority \in Nat /\ q.priority \in Nat /\ r.id \in Nat /\ q.id \in Nat
  BY DEF Rule, Decisions, Precedence
<1>2. Below(r, q) <=>
        \E i \in 1..3 : /\ <<a, r.priority, r.id>>[i] < <<b, q.priority, q.id>>[i]
                        /\ \A j \in 1..(i - 1) : <<a, r.priority, r.id>>[j] = <<b, q.priority, q.id>>[j]
  BY DEF Below
<1> HIDE DEF a, b
<1>3. (\E i \in 1..3 : /\ <<a, r.priority, r.id>>[i] < <<b, q.priority, q.id>>[i]
                       /\ \A j \in 1..(i - 1) : <<a, r.priority, r.id>>[j] = <<b, q.priority, q.id>>[j])
      <=> (a < b \/ (a = b /\ (r.priority < q.priority \/ (r.priority = q.priority /\ r.id < q.id))))
  <2> DEFINE P(i) == /\ <<a, r.priority, r.id>>[i] < <<b, q.priority, q.id>>[i]
                     /\ \A j \in 1..(i - 1) : <<a, r.priority, r.id>>[j] = <<b, q.priority, q.id>>[j]
  <2>1. P(1) <=> a < b
    BY <1>1
  <2>2. P(2) <=> a = b /\ r.priority < q.priority
    BY <1>1
  <2>3. P(3) <=> a = b /\ r.priority = q.priority /\ r.id < q.id
    BY <1>1
  <2>4. 1..3 = {1, 2, 3}
    OBVIOUS
  <2> QED BY <2>1, <2>2, <2>3, <2>4
<1> QED BY <1>1, <1>2, <1>3 DEF a, b

\* The order is strict.
LEMMA BelowStrict ==
    ASSUME NEW r \in Rule
    PROVE  ~Below(r, r)
BY BelowIs

LEMMA BelowTransitive ==
    ASSUME NEW r \in Rule, NEW q \in Rule, NEW s \in Rule, Below(r, q), Below(q, s)
    PROVE  Below(r, s)
<1> DEFINE D(z) == Precedence[z.decision]
<1>1. \A z \in {r, q, s} : D(z) \in Nat /\ z.priority \in Nat /\ z.id \in Nat
  BY BelowIs
<1>2. \A y, z \in {r, q, s} : Below(y, z) <=>
         (D(y) < D(z) \/ (D(y) = D(z) /\ (y.priority < z.priority \/ (y.priority = z.priority /\ y.id < z.id))))
  BY BelowIs
<1> HIDE DEF D
<1> QED BY <1>1, <1>2

\* Of a finite, nonempty set of rules max() returns one that none is above.
LEMMA MaximumExists ==
    ASSUME NEW S, IsFiniteSet(S), S # {}, S \subseteq Rule
    PROVE  \E r \in S : \A q \in S : ~Below(r, q)
<1> DEFINE Topped(T) == \E r \in T : \A q \in T : ~Below(r, q)
           Bad == {T \in SUBSET S : T # {} /\ ~Topped(T)}
           Sizes == {n \in Nat : \E T \in Bad : Cardinality(T) = n}
<1> SUFFICES ASSUME ~Topped(S) PROVE FALSE
  OBVIOUS
<1>1. \A T \in SUBSET S : IsFiniteSet(T) /\ Cardinality(T) \in Nat
  BY FS_Subset, FS_CardinalityType
<1>2. Sizes # {} /\ Sizes \in SUBSET Nat
  BY <1>1
<1>3. PICK n \in Sizes : \A m \in Sizes : n <= m
  BY <1>2, LeastNatural
<1>4. PICK T \in Bad : Cardinality(T) = n
  BY <1>3
<1>5. /\ T \in SUBSET S /\ T # {} /\ ~Topped(T) /\ T \subseteq Rule /\ IsFiniteSet(T) /\ n \in Nat
      /\ Cardinality(T) = n
  BY <1>1, <1>3, <1>4
<1>6. \A U \in SUBSET S : U # {} /\ ~Topped(U) => n <= Cardinality(U)
  BY <1>1, <1>3
<1> HIDE DEF Topped, Bad, Sizes
<1>7. PICK t : t \in T
  BY <1>5
<1> DEFINE U == T \ {t}
<1>8. U \in SUBSET S /\ Cardinality(U) = n - 1
  BY <1>5, <1>7, FS_RemoveElement
<1>9. U = {} \/ Topped(U)
  BY <1>5, <1>6, <1>8
<1>10. U # {}
  <2>1. SUFFICES ASSUME U = {} PROVE FALSE
    OBVIOUS
  <2>2. T = {t} /\ t \in Rule
    BY <1>5, <1>7, <2>1
  <2>3. Topped(T)
    BY <2>2, BelowStrict DEF Topped
  <2> QED BY <1>5, <2>3
<1>11. PICK m \in U : \A q \in U : ~Below(m, q)
  BY <1>9, <1>10 DEF Topped
<1>12. CASE Below(m, t)
  <2>1. ASSUME NEW q \in T, Below(t, q) PROVE FALSE
    <3>1. q \in Rule /\ t \in Rule /\ m \in Rule
      BY <1>5, <1>7, <1>11
    <3>2. Below(m, q)
      BY <1>12, <2>1, <3>1, BelowTransitive
    <3>3. q # t
      BY <2>1, <3>1, BelowStrict
    <3> QED BY <1>11, <3>2, <3>3
  <2>2. Topped(T)
    BY <1>7, <2>1 DEF Topped
  <2> QED BY <1>5, <2>2
<1>13. CASE ~Below(m, t)
  <2>1. Topped(T)
    BY <1>11, <1>13 DEF Topped
  <2> QED BY <1>5, <2>1
<1> QED BY <1>12, <1>13

\* When a rule of the scoped bundle allows an action, every rule that matches
\* allows it, so leaving rules out changed nothing.
LEMMA ScopedSelection ==
    ASSUME NEW c \in Contents, NEW x \in Actions,
           NEW r \in select_rule(InScope(RulesOf[c]), x), r.decision = "ALLOW"
    PROVE  Table[c][x] = "ALLOW" /\ x \in Scope
<1> DEFINE M == {q \in RulesOf[c] : x \in q.matches}
<1>1. RulesOf[c] \subseteq Rule /\ IsFiniteSet(RulesOf[c]) /\ Evaluated(c, x) = {Table[c][x]}
  BY ClientConstants
<1>2. /\ r \in RulesOf[c] /\ x \in r.matches /\ r.operation \in AllowedOperations
      /\ \A q \in InScope(RulesOf[c]) : x \in q.matches => ~Below(r, q)
  BY DEF select_rule, InScope
<1>3. x \in Scope
  BY <1>2, ClientConstants
<1>4. ASSUME NEW q \in M PROVE q.decision = "ALLOW"
  <2>1. q \in Rule /\ r \in Rule /\ q.decision \in Decisions
    BY <1>1, <1>2 DEF Rule
  <2>2. CASE q \in InScope(RulesOf[c])
    <3>1. ~(Precedence[r.decision] < Precedence[q.decision])
      BY <1>2, <2>1, <2>2, BelowIs
    <3> QED BY <2>1, <3>1 DEF Precedence, Decisions
  <2>3. CASE q \notin InScope(RulesOf[c])
    BY <2>3 DEF InScope
  <2> QED BY <2>2, <2>3
<1>5. PICK w \in M : \A q \in M : ~Below(w, q)
  <2>1. M \in SUBSET RulesOf[c] /\ M # {} /\ M \subseteq Rule
    BY <1>1, <1>2
  <2>2. IsFiniteSet(M)
    BY <1>1, <2>1, FS_Subset
  <2> HIDE DEF M
  <2> QED BY <2>1, <2>2, MaximumExists
<1>6. w \in select_rule(RulesOf[c], x) /\ \A q \in select_rule(RulesOf[c], x) : q \in M
  BY <1>5 DEF select_rule
<1>7. Evaluated(c, x) = {"ALLOW"}
  BY <1>4, <1>6 DEF Evaluated
<1> QED BY <1>1, <1>3, <1>7

-----------------------------------------------------------------------------
(* Steps.  The invariant has two parts with variables of their own: the      *)
(* authority with its bundles, and the call with the queue.                  *)

BundleInv ==
    /\ inForce \subseteq Contents /\ epoch \in 0..MaxEpoch /\ barred \in BOOLEAN /\ durable \in BOOLEAN
    /\ signed \subseteq Bundles /\ bundle \subseteq Bundles
    /\ superseded \in [1..MaxEpoch -> 0..Window]
    /\ OneBundle /\ EpochInv

QueueInv ==
    /\ queue \in Seq(Keys) /\ Len(queue) <= QueueLimit
    /\ call = Idle \/ call \in [method: Methods, key: Keys]
    /\ answer \in {"none", "decided"}
    /\ abandoned \subseteq Keys /\ owed \subseteq Keys
    /\ CallInv /\ OfflineIsAccounted

bundleVars == <<inForce, epoch, barred, durable, signed, bundle, superseded>>
queueVars == <<queue, call, answer, abandoned, owed>>

LEMMA WindowType == Window \in Nat /\ Window > 0
BY ClientConstants DEF Window

LEMMA ClientParts == ClientInv <=> BundleInv /\ QueueInv
<1>1. OneBundle => Cardinality(bundle) <= 1
  <2>1. CASE bundle = {}
    BY <2>1, FS_EmptySet
  <2>2. ASSUME NEW b \in Bundles, bundle = {b} PROVE Cardinality(bundle) <= 1
    BY <2>2, FS_Singleton
  <2> QED BY <2>1, <2>2 DEF OneBundle
<1> QED BY <1>1 DEF ClientInv, BundleInv, QueueInv, ClientTypeOK

LEMMA BundlesStutter == BundleInv /\ UNCHANGED bundleVars => BundleInv'
BY DEF BundleInv, bundleVars, OneBundle, EpochInv, Dated

LEMMA QueueStutters == QueueInv /\ UNCHANGED queueVars => QueueInv'
BY DEF QueueInv, queueVars, CallInv, OfflineIsAccounted

\* A bundle is signed in the epoch that is in force, which is not the initial one.
LEMMA SignedKeeps == BundleInv /\ signed_bundle => BundleInv'
<1> SUFFICES ASSUME BundleInv, signed_bundle PROVE BundleInv'
  OBVIOUS
<1> USE DEF BundleInv
<1>1. PICK c \in inForce : signed' = signed \cup {[content |-> c, epoch |-> epoch, age |-> 0]}
  BY DEF signed_bundle
<1>2. UNCHANGED <<inForce, epoch, barred, durable, bundle, superseded>>
  BY DEF signed_bundle, authorityVars
<1>3. epoch \in 1..MaxEpoch /\ c \in Contents /\ 0 \in 0..Window
  BY <1>1, WindowType, ClientConstants DEF EpochInv
<1>4. [content |-> c, epoch |-> epoch, age |-> 0] \in Bundles
  BY <1>3 DEF Bundles
<1>5. signed' \subseteq Bundles
  BY <1>1, <1>4
<1>6. EpochInv'
  BY <1>1, <1>2 DEF EpochInv, Dated
<1> QED BY <1>2, <1>5, <1>6 DEF OneBundle

LEMMA InstallKeeps ==
    ASSUME BundleInv, NEW b \in signed, install(b)
    PROVE  BundleInv'
<1> USE DEF BundleInv
<1>1. bundle' = {b} /\ UNCHANGED <<inForce, epoch, barred, durable, signed, superseded>> /\ b \in Bundles
  BY DEF install, authorityVars
<1>2. EpochInv'
  BY <1>1 DEF EpochInv, Dated
<1> QED BY <1>1, <1>2 DEF OneBundle

\* The epoch that an administrator ends has just been superseded.
LEMMA AdministrationKeeps == BundleInv /\ Administration => BundleInv'
<1> SUFFICES ASSUME BundleInv, Administration PROVE BundleInv'
  OBVIOUS
<1> USE DEF BundleInv
<1>1. PICK content \in {inForce} \cup {{c} : c \in Contents}, refused \in BOOLEAN : Change(content, refused)
  BY DEF Administration
<1>2. /\ epoch < MaxEpoch /\ epoch' = epoch + 1 /\ inForce' \subseteq Contents /\ barred' \in BOOLEAN
      /\ UNCHANGED <<signed, bundle, superseded, durable>>
  BY <1>1 DEF Administration, Change
<1>3. epoch \in Nat /\ MaxEpoch \in Nat
  BY ClientConstants
<1>4. epoch' \in 0..MaxEpoch
  BY <1>2, <1>3
<1>5. ASSUME NEW b \in signed \cup bundle PROVE Dated(b)'
  <2>1. b.epoch \in 1..MaxEpoch /\ b.age \in 0..Window
    BY DEF Bundles
  <2>2. Dated(b)
    BY DEF EpochInv
  <2>3. b.epoch = epoch => superseded[b.epoch] = 0
    BY <2>1, <1>3 DEF EpochInv
  <2> QED BY <1>2, <1>3, <2>1, <2>2, <2>3, WindowType DEF Dated
<1>6. \A e \in 1..MaxEpoch : e >= epoch' => superseded'[e] = 0
  BY <1>2, <1>3 DEF EpochInv
<1>7. EpochInv'
  BY <1>2, <1>3, <1>5, <1>6 DEF EpochInv
<1> QED BY <1>2, <1>4, <1>7 DEF OneBundle

LEMMA OlderIs ==
    ASSUME NEW b \in Bundles
    PROVE  /\ Older(b) \in Bundles /\ Older(b).epoch = b.epoch
           /\ Older(b).age = IF b.age < Window THEN b.age + 1 ELSE b.age
<1>1. b.age \in 0..Window /\ Window \in Nat
  BY WindowType DEF Bundles
<1> QED BY <1>1 DEF Older, Bundles

\* Bundles and the epochs they belong to age together.
LEMMA TimeKeeps == BundleInv /\ Time => BundleInv'
<1> SUFFICES ASSUME BundleInv, Time PROVE BundleInv'
  OBVIOUS
<1> USE DEF BundleInv
<1>1. UNCHANGED <<inForce, epoch, barred, durable>>
  BY DEF Time, Pass
<1>2. \A b \in signed' \cup bundle' : \E o \in signed \cup bundle : b = Older(o)
  BY DEF Time
<1>3. superseded' = [e \in 1..MaxEpoch |->
         IF e < epoch /\ superseded[e] < Window THEN superseded[e] + 1 ELSE superseded[e]]
  BY DEF Time
<1>4. Window \in Nat /\ epoch \in Nat /\ MaxEpoch \in Nat
  BY WindowType, ClientConstants
<1>5. superseded' \in [1..MaxEpoch -> 0..Window]
  BY <1>3, <1>4
<1>6. signed' \subseteq Bundles /\ bundle' \subseteq Bundles
  BY <1>2, OlderIs
<1>7. OneBundle'
  <2>1. bundle' = {Older(b) : b \in bundle}
    BY DEF Time
  <2> QED BY <2>1, <1>6 DEF OneBundle
<1>8. \A e \in 1..MaxEpoch : e >= epoch' => superseded'[e] = 0
  BY <1>1, <1>3, <1>4 DEF EpochInv
<1>9. ASSUME NEW b \in signed' \cup bundle' PROVE Dated(b)'
  <2>1. PICK o \in signed \cup bundle : b = Older(o)
    BY <1>2
  <2>2. o \in Bundles /\ Dated(o) /\ o.epoch \in 1..MaxEpoch /\ o.age \in 0..Window
    BY DEF EpochInv, Bundles
  <2>3. b.epoch = o.epoch /\ b.age = IF o.age < Window THEN o.age + 1 ELSE o.age
    BY <2>1, <2>2, OlderIs
  <2>4. superseded[o.epoch] \in 0..Window
    BY <2>2
  <2>5. superseded'[o.epoch] = IF o.epoch < epoch /\ superseded[o.epoch] < Window
                               THEN superseded[o.epoch] + 1 ELSE superseded[o.epoch]
    BY <1>3, <2>2
  <2> QED BY <1>1, <1>4, <2>2, <2>3, <2>4, <2>5 DEF Dated
<1>10. EpochInv'
  BY <1>1, <1>8, <1>9 DEF EpochInv
<1> QED BY <1>1, <1>5, <1>6, <1>7, <1>10

LEMMA RestartKeepsBundles == BundleInv /\ Restart => BundleInv'
BY DEF BundleInv, Restart, authorityVars, OneBundle, EpochInv, Dated

-----------------------------------------------------------------------------
(* The queue and the call *)

LEMMA IdleIs == Idle.method = "none" /\ Idle \notin [method: Methods, key: Keys]
BY DEF Idle, Methods

LEMMA CallType ==
    ASSUME QueueInv, call # Idle
    PROVE  call.method \in Methods /\ call.key \in Keys
BY DEF QueueInv

LEMMA SendType ==
    ASSUME NEW m \in Methods, NEW k \in Keys, Send(m, k)
    PROVE  /\ call' \in [method: Methods, key: Keys] /\ call' # Idle
           /\ call'.method = m /\ call'.key = k /\ answer' = "none"
BY IdleIs DEF Send

\* A call that ends leaves nothing to say about it.
LEMMA ReturnKeeps ==
    ASSUME QueueInv, Return, abandoned' \subseteq Keys, owed' \subseteq Keys,
           queue' \in Seq(Keys), Len(queue') <= QueueLimit, OfflineIsAccounted'
    PROVE  QueueInv'
BY IdleIs DEF QueueInv, Return, CallInv

LEMMA AbandonType ==
    ASSUME QueueInv, Abandon
    PROVE  abandoned' \subseteq Keys
BY CallType DEF Abandon, QueueInv

LEMMA EvaluateKeeps ==
    ASSUME QueueInv, NEW k \in Keys, evaluate(k)
    PROVE  QueueInv'
<1>1. /\ call' \in [method: Methods, key: Keys] /\ call' # Idle
      /\ call'.method = "evaluate" /\ call'.key = k /\ answer' = "none"
  BY SendType DEF evaluate, Methods
<1>2. UNCHANGED <<queue, abandoned, owed>>
  BY DEF evaluate
<1> QED BY <1>1, <1>2 DEF QueueInv, CallInv, OfflineIsAccounted

LEMMA ReconcileKeeps == QueueInv /\ reconcile => QueueInv'
<1> SUFFICES ASSUME QueueInv, reconcile PROVE QueueInv'
  OBVIOUS
<1>1. Head(queue) \in Keys /\ queue # << >> /\ UNCHANGED <<queue, abandoned, owed>>
  BY DEF reconcile, QueueInv
<1>2. /\ call' \in [method: Methods, key: Keys] /\ call' # Idle
      /\ call'.method = "reconcile" /\ call'.key = Head(queue) /\ answer' = "none"
  BY <1>1, SendType DEF reconcile, Methods
<1> QED BY <1>1, <1>2 DEF QueueInv, CallInv, OfflineIsAccounted

LEMMA TailIs ==
    ASSUME NEW q \in Seq(Keys), q # << >>
    PROVE  /\ Tail(q) \in Seq(Keys) /\ Len(Tail(q)) = Len(q) - 1
           /\ Tail(q) # << >> => Head(Tail(q)) \in Keys
           /\ \A i \in DOMAIN q : q[i] = Head(q) \/ (\E j \in DOMAIN Tail(q) : Tail(q)[j] = q[i])
<1>1. Tail(q) \in Seq(Keys) /\ Len(Tail(q)) = Len(q) - 1 /\ Len(q) \in Nat /\ Head(q) = q[1]
  OBVIOUS
<1>2. ASSUME NEW i \in DOMAIN q, i # 1 PROVE i - 1 \in DOMAIN Tail(q) /\ Tail(q)[i - 1] = q[i]
  BY <1>1, <1>2
<1>3. Tail(q) # << >> => Head(Tail(q)) \in Keys
  BY <1>1
<1> QED BY <1>1, <1>2, <1>3

\* The head that leaves the queue has been decided, and is no longer owed.
LEMMA AnsweredKeeps == QueueInv /\ Answered => QueueInv'
<1> SUFFICES ASSUME QueueInv, Answered PROVE QueueInv'
  OBVIOUS
<1>1. UNCHANGED <<abandoned, owed>> /\ answer # "none" /\ call # Idle
  BY DEF Answered, QueueInv, CallInv
<1>2. CASE call.method = "reconcile"
  <2>1. answer = "decided" /\ queue # << >> /\ call.key = Head(queue) /\ Head(queue) \notin owed
    BY <1>1, <1>2 DEF QueueInv, CallInv
  <2>2. queue' = Tail(queue) /\ queue \in Seq(Keys) /\ Len(queue) <= QueueLimit
    BY <1>2 DEF Answered, QueueInv
  <2>3. queue' \in Seq(Keys) /\ Len(queue') <= QueueLimit
    BY <2>1, <2>2, TailIs, ClientConstants
  <2>4. OfflineIsAccounted'
    <3> SUFFICES ASSUME NEW k \in owed PROVE \E j \in DOMAIN Tail(queue) : Tail(queue)[j] = k
      BY <1>1, <2>2 DEF OfflineIsAccounted
    <3>1. PICK i \in DOMAIN queue : queue[i] = k
      BY DEF QueueInv, OfflineIsAccounted
    <3> QED BY <2>1, <2>2, <3>1, TailIs
  <2>5. CASE Tail(queue) = << >>
    <3>1. Return
      BY <1>2, <2>5 DEF Answered
    <3> QED BY <1>1, <2>3, <2>4, <3>1, ReturnKeeps DEF QueueInv
  <2>6. CASE Tail(queue) # << >>
    <3>1. Head(Tail(queue)) \in Keys
      BY <2>1, <2>2, <2>6, TailIs
    <3>2. Send("reconcile", Head(Tail(queue)))
      BY <1>2, <2>6 DEF Answered
    <3>3. /\ call' \in [method: Methods, key: Keys] /\ call' # Idle
          /\ call'.key = Head(queue') /\ answer' = "none"
      BY <2>2, <3>1, <3>2, SendType DEF Methods
    <3> QED BY <1>1, <2>2, <2>3, <2>4, <2>6, <3>3 DEF QueueInv, CallInv
  <2> QED BY <2>5, <2>6
<1>3. CASE call.method # "reconcile"
  <2>1. Return /\ UNCHANGED queue
    BY <1>3 DEF Answered
  <2>2. OfflineIsAccounted'
    BY <1>1, <2>1 DEF QueueInv, OfflineIsAccounted
  <2> QED BY <1>1, <2>1, <2>2, ReturnKeeps DEF QueueInv
<1> QED BY <1>2, <1>3

\* An offline decision is recorded before it is used.
LEMMA FallbackKeeps ==
    ASSUME QueueInv, NEW k \in Keys, Fallback(k)
    PROVE  /\ queue' \in Seq(Keys) /\ Len(queue') <= QueueLimit /\ owed' \subseteq Keys
           /\ OfflineIsAccounted'
<1>1. CASE CacheAllows(k) /\ Len(queue) < QueueLimit
  <2>1. queue' = Append(queue, k) /\ owed' = owed \cup {k} /\ queue \in Seq(Keys) /\ Len(queue) \in Nat
    BY <1>1 DEF Fallback, QueueInv
  <2>2. queue' \in Seq(Keys) /\ Len(queue') = Len(queue) + 1 /\ queue'[Len(queue) + 1] = k
        /\ Len(queue) + 1 \in DOMAIN queue'
        /\ \A i \in DOMAIN queue : i \in DOMAIN queue' /\ queue'[i] = queue[i]
    BY <2>1
  <2>3. OfflineIsAccounted'
    BY <2>1, <2>2 DEF QueueInv, OfflineIsAccounted
  <2> QED BY <1>1, <2>1, <2>2, <2>3, ClientConstants DEF QueueInv
<1>2. CASE ~(CacheAllows(k) /\ Len(queue) < QueueLimit)
  BY <1>2 DEF Fallback, QueueInv, OfflineIsAccounted
<1> QED BY <1>1, <1>2

LEMMA TransportFailsKeeps == QueueInv /\ TransportFails => QueueInv'
<1> SUFFICES ASSUME QueueInv, TransportFails PROVE QueueInv'
  OBVIOUS
<1>1. abandoned' \subseteq Keys /\ Return /\ call.key \in Keys
  BY AbandonType, CallType DEF TransportFails
<1>2. CASE call.method = "evaluate"
  BY <1>1, <1>2, FallbackKeeps, ReturnKeeps DEF TransportFails
<1>3. CASE call.method # "evaluate"
  <2>1. UNCHANGED <<queue, owed>>
    BY <1>3 DEF TransportFails
  <2>2. OfflineIsAccounted'
    BY <2>1 DEF QueueInv, OfflineIsAccounted
  <2> QED BY <1>1, <2>1, <2>2, ReturnKeeps DEF QueueInv
<1> QED BY <1>2, <1>3

LEMMA UnacceptableKeeps == QueueInv /\ Unacceptable => QueueInv'
<1> SUFFICES ASSUME QueueInv, Unacceptable PROVE QueueInv'
  OBVIOUS
<1>1. UNCHANGED <<queue, owed, abandoned>> /\ Return
  BY DEF Unacceptable
<1>2. OfflineIsAccounted'
  BY <1>1 DEF QueueInv, OfflineIsAccounted
<1> QED BY <1>1, <1>2, ReturnKeeps DEF QueueInv

LEMMA RestartKeeps == QueueInv /\ Restart => QueueInv'
<1> SUFFICES ASSUME QueueInv, Restart PROVE QueueInv'
  OBVIOUS
<1>1. queue' = << >> /\ owed' = {} /\ abandoned' \subseteq Keys /\ Return
  BY AbandonType DEF Restart
<1>2. OfflineIsAccounted' /\ queue' \in Seq(Keys) /\ Len(queue') <= QueueLimit
  BY <1>1, ClientConstants DEF OfflineIsAccounted
<1> QED BY <1>1, <1>2, ReturnKeeps

\* What the authority has handled is in its audit chain.
LEMMA HandleCallKeeps == QueueInv /\ HandleCall => QueueInv'
<1> SUFFICES ASSUME QueueInv, HandleCall PROVE QueueInv'
  OBVIOUS
<1>1. /\ UNCHANGED <<queue, call, abandoned>> /\ call # Idle
      /\ answer' = "decided" /\ owed' = owed \ {call.key}
  BY DEF HandleCall, Handle
<1> QED BY <1>1 DEF QueueInv, CallInv, OfflineIsAccounted

LEMMA HandleAbandonedKeeps ==
    ASSUME QueueInv, NEW k \in Keys, HandleAbandoned(k)
    PROVE  QueueInv'
<1>1. /\ UNCHANGED <<queue, call, answer>>
      /\ abandoned' \subseteq abandoned /\ owed' \subseteq owed
  BY DEF HandleAbandoned, Handle
<1> QED BY <1>1 DEF QueueInv, CallInv, OfflineIsAccounted

-----------------------------------------------------------------------------
(* The theorems *)

\* The client and the authority change their own part of the state: a step
\* that is about bundles leaves the queue alone, and the other way round.
LEMMA StepKeeps == ClientInv /\ [ClientNext]_vars => ClientInv'
<1> SUFFICES ASSUME BundleInv, QueueInv, [ClientNext]_vars PROVE BundleInv' /\ QueueInv'
  <2>1. ClientInv' <=> BundleInv' /\ QueueInv'
    BY ClientParts, PTL
  <2> QED BY <2>1, ClientParts
<1>1. CASE signed_bundle
  BY <1>1, SignedKeeps, QueueStutters DEF signed_bundle, queueVars
<1>2. ASSUME NEW b \in signed, install(b) PROVE BundleInv' /\ QueueInv'
  BY <1>2, InstallKeeps, QueueStutters DEF install, queueVars
<1>3. ASSUME NEW k \in Keys, evaluate(k) PROVE BundleInv' /\ QueueInv'
  BY <1>3, EvaluateKeeps, BundlesStutter DEF evaluate, bundleVars, authorityVars
<1>4. ASSUME NEW k \in Keys, HandleAbandoned(k) PROVE BundleInv' /\ QueueInv'
  <2>1. UNCHANGED bundleVars
    BY <1>4 DEF HandleAbandoned, Handle, Evaluate, bundleVars, authorityVars
  <2> QED BY <1>4, <2>1, HandleAbandonedKeeps, BundlesStutter
<1>5. CASE reconcile
  BY <1>5, ReconcileKeeps, BundlesStutter DEF reconcile, bundleVars, authorityVars
<1>6. CASE Answered
  BY <1>6, AnsweredKeeps, BundlesStutter DEF Answered, bundleVars, authorityVars
<1>7. CASE TransportFails
  BY <1>7, TransportFailsKeeps, BundlesStutter DEF TransportFails, bundleVars, authorityVars
<1>8. CASE Unacceptable
  BY <1>8, UnacceptableKeeps, BundlesStutter DEF Unacceptable, bundleVars, authorityVars
<1>9. CASE Restart
  BY <1>9, RestartKeeps, RestartKeepsBundles
<1>10. CASE HandleCall
  <2>1. UNCHANGED bundleVars
    BY <1>10 DEF HandleCall, Handle, Evaluate, bundleVars, authorityVars
  <2> QED BY <1>10, <2>1, HandleCallKeeps, BundlesStutter
<1>11. CASE Administration
  BY <1>11, AdministrationKeeps, QueueStutters DEF Administration, queueVars
<1>12. CASE Time
  BY <1>12, TimeKeeps, QueueStutters DEF Time, queueVars
<1>13. CASE UNCHANGED vars
  <2>1. UNCHANGED bundleVars /\ UNCHANGED queueVars
    BY <1>13 DEF vars, clientVars, authorityVars, bundleVars, queueVars
  <2> QED BY <2>1, BundlesStutter, QueueStutters
<1> QED BY <1>1, <1>2, <1>3, <1>4, <1>5, <1>6, <1>7, <1>8, <1>9, <1>10, <1>11, <1>12, <1>13
        DEF ClientNext

LEMMA InitKeeps == ClientInit => ClientInv
<1> SUFFICES ASSUME ClientInit PROVE BundleInv /\ QueueInv
  BY ClientParts
<1>1. BundleInv
  <2>1. MaxEpoch \in Nat /\ Window \in Nat
    BY WindowType, ClientConstants
  <2>2. inForce = {} /\ epoch = 0 /\ signed = {} /\ bundle = {}
    BY DEF ClientInit, AuthorityInit
  <2>3. superseded = [e \in 1..MaxEpoch |-> 0] /\ superseded \in [1..MaxEpoch -> 0..Window]
    BY <2>1 DEF ClientInit
  <2>4. epoch \in 0..MaxEpoch
    BY <2>1, <2>2
  <2>5. barred \in BOOLEAN /\ durable \in BOOLEAN
    BY Zenon DEF ClientInit, AuthorityInit
  <2>6. OneBundle /\ EpochInv
    BY <2>2, <2>3 DEF OneBundle, EpochInv
  <2> QED BY <2>2, <2>3, <2>4, <2>5, <2>6 DEF BundleInv
<1>2. QueueInv
  BY IdleIs, ClientConstants DEF ClientInit, QueueInv, CallInv, OfflineIsAccounted
<1> QED BY <1>1, <1>2

\* ClientInv is an invariant of TraceGuardClient and the authority it talks to.
THEOREM ClientInvariant == ClientSpec => []ClientInv
BY InitKeeps, StepKeeps, PTL DEF ClientSpec

\* The client keeps at most one bundle, its queue never passes its limit, and
\* every field has its type.
THEOREM ClientTypes == ClientSpec => []ClientTypeOK
<1>1. ClientInv => ClientTypeOK
  BY DEF ClientInv
<1> QED BY <1>1, ClientInvariant, PTL

\* For every policy, scope and set of bundles that arrive late or again: what
\* SignedPolicyCache.evaluate allows, the authority allows under the policy of
\* the installed bundle, to an action within the credential's scope.
THEOREM CacheNeverPermitsMore == ClientSpec => []CacheAgreesWithAuthority
<1>1. ClientInv => CacheAgreesWithAuthority
  <2> SUFFICES ASSUME ClientInv, NEW b \in bundle, NEW k \in Keys, CacheAllows(k)
               PROVE  Table[b.content][ActionOf[k]] = "ALLOW" /\ ActionOf[k] \in Scope
    BY DEF CacheAgreesWithAuthority
  <2>1. PICK d \in bundle : \E r \in select_rule(InScope(RulesOf[d.content]), ActionOf[k]) :
                               r.decision = "ALLOW"
    BY DEF CacheAllows
  <2>2. d = b
    BY DEF ClientInv, OneBundle
  <2>3. PICK r \in select_rule(InScope(RulesOf[b.content]), ActionOf[k]) : r.decision = "ALLOW"
    BY <2>1, <2>2
  <2>4. b.content \in Contents /\ ActionOf[k] \in Actions
    BY ClientConstants DEF ClientInv, ClientTypeOK, Bundles
  <2>5. PICK c \in Contents, x \in Actions : c = b.content /\ x = ActionOf[k]
    BY <2>4
  <2>6. r \in select_rule(InScope(RulesOf[c]), x)
    BY <2>3, <2>5
  <2> QED BY <2>3, <2>5, <2>6, ScopedSelection
<1> QED BY <1>1, ClientInvariant, PTL

\* For every lifetime and clock lag: the bundle a client still uses is of the
\* current epoch, or of one that ended less than Window ago.
THEOREM StalePolicyExpires == ClientSpec => []StalePolicyIsBounded
<1>1. ClientInv => StalePolicyIsBounded
  <2> SUFFICES ASSUME ClientInv, NEW b \in bundle, Current(b), b.epoch # epoch
               PROVE  superseded[b.epoch] < Window
    BY DEF StalePolicyIsBounded
  <2>1. superseded[b.epoch] <= b.age /\ b.age < Window
    BY DEF ClientInv, EpochInv, Dated, Current
  <2>2. b.age \in Nat /\ Window \in Nat /\ superseded[b.epoch] \in Nat
    BY WindowType DEF ClientInv, ClientTypeOK, Bundles
  <2> QED BY <2>1, <2>2
<1> QED BY <1>1, ClientInvariant, PTL

\* For every queue limit and every way calls fail, are repeated and are handled
\* after all: an offline decision the authority has not heard of is queued.
THEOREM NoDecisionForgotten == ClientSpec => []OfflineIsAccounted
<1>1. ClientInv => OfflineIsAccounted
  BY DEF ClientInv
<1> QED BY <1>1, ClientInvariant, PTL
=============================================================================
