------------------------- MODULE ControlPlaneProofs -------------------------
(***************************************************************************)
(* ControlInv is inductive.  Its heart is that an epoch names a state of    *)
(* the authority: whatever changes the policy in force also advances the    *)
(* epoch, so a receipt or grant of the current epoch was decided by the     *)
(* policy in force.                                                         *)
(***************************************************************************)
EXTENDS ControlPlane, TLAPS

DraftOf(g) == policies[g.policy].draft[g.action]

OwnReview(n, r) ==
    /\ reviews[r] # None /\ reviews[r].grant = n
    /\ reviews[r].resolution = "ALLOW" /\ reviews[r].action = issued[n].action
    /\ reviews[r].agent = issued[n].agent

GrantSound(n) ==
    LET g == issued[n]
        task == tasks[TaskOfAction[g.action]]
    IN /\ g.epoch <= epoch
       /\ policies[g.policy] # None
       /\ g.epoch = epoch => g.policy \in Active
       /\ DraftOf(g) \in {"ALLOW", "ESCALATE"}
       /\ DraftOf(g) = "ESCALATE" => \E r \in ReviewIds : OwnReview(n, r)
       /\ task # None /\ task.agent = g.agent /\ task.domain

GrantsSound == \A n \in Nonces : issued[n] # None => GrantSound(n)

ReceiptsSound ==
    \A ak \in Actors \X Keys : receipts[ak] # None =>
        LET rec == receipts[ak]
        IN /\ rec.epoch <= epoch
           /\ rec.epoch = epoch => rec.decision \in Decide(rec.action)
           /\ rec.decision = "ESCALATE" => rec.review \in ReviewIds

ReviewsSound ==
    \A r \in ReviewIds : reviews[r] # None =>
        /\ reviews[r].resolution = "ALLOW" =>
              reviews[r].status = "resolved" /\ reviews[r].by # SubjectOf[reviews[r].agent]
        /\ reviews[r].grant # None => reviews[r].status = "resolved"

ControlInv ==
    /\ ControlTypeOK /\ OneActivePolicy /\ GrantsSound /\ ReceiptsSound /\ ReviewsSound

-----------------------------------------------------------------------------
\* The initial state satisfies the invariant.
LEMMA ControlInitial == ControlInit => ControlInv
<1> SUFFICES ASSUME ControlInit PROVE ControlInv
    OBVIOUS
<1> USE DEF ControlInit
<1>1. ControlTypeOK
  <2>1. tasks \in [Tasks -> Task \cup {None}]
    <3>1. \A t \in DOMAIN LegacyAgent :
             [status |-> "registered", agent |-> LegacyAgent[t], domain |-> FALSE] \in Task
      BY ControlConstants DEF Task
    <3> QED BY <3>1
  <2>2. audit \in 0..MaxEntries /\ now \in 0..MaxTime /\ epoch \in Nat
    BY ControlConstants
  <2>3. suspended \in BOOLEAN /\ revoked \subseteq Credentials
    OBVIOUS
  <2> QED BY <2>1, <2>2, <2>3 DEF ControlTypeOK
<1>2. OneActivePolicy
  BY DEF OneActivePolicy, Active, None
<1>3. GrantsSound
  BY DEF GrantsSound
<1>4. ReceiptsSound
  BY DEF ReceiptsSound
<1>5. ReviewsSound
  BY DEF ReviewsSound
<1> QED BY <1>1, <1>2, <1>3, <1>4, <1>5 DEF ControlInv

\* A policy id without status "none" holds a policy, and so for every table.
LEMMA EntryCases ==
  ASSUME ControlTypeOK
  PROVE  /\ \A p \in PolicyIds : policies[p].status # "none" => policies[p] \in Policy
         /\ \A p \in PolicyIds : policies[p] # None => policies[p] \in Policy
         /\ \A n \in Nonces : issued[n] # None => issued[n] \in Grant
         /\ \A r \in ReviewIds : reviews[r] # None => reviews[r] \in Review
         /\ \A ak \in Actors \X Keys : receipts[ak] # None => receipts[ak] \in Receipt
         /\ \A t \in Tasks : tasks[t] # None => tasks[t] \in Task
  BY DEF ControlTypeOK, None

\* While policies and epoch stay, what they decide stays.
LEMMA SamePolicies ==
  ASSUME UNCHANGED <<policies, epoch>>
  PROVE  /\ Active' = Active
         /\ \A x : Decide(x)' = Decide(x)
         /\ \A g : DraftOf(g)' = DraftOf(g)
  BY DEF Active, Decide, DraftOf

-----------------------------------------------------------------------------
(* Steps that only bump the epoch, or only touch time and tasks. *)

\* revoke_credential and suspend_tenant.
LEMMA BumpStep ==
  ASSUME ControlInv, epoch' = epoch + 1, audit' \in 0..MaxEntries,
         suspended' \in BOOLEAN, revoked' \subseteq Credentials,
         UNCHANGED <<policies, receipts, reviews, tasks, issued, now>>
  PROVE  ControlInv'
<1> USE DEF ControlInv
<1>0. epoch \in Nat
  BY DEF ControlTypeOK
<1>1. ControlTypeOK'
  BY DEF ControlTypeOK
<1>2. OneActivePolicy'
  BY DEF OneActivePolicy, Active
<1>3. GrantsSound'
  <2> SUFFICES ASSUME NEW n \in Nonces, issued[n] # None
               PROVE  GrantSound(n)'
      BY DEF GrantsSound
  <2>1. GrantSound(n)
    BY DEF GrantsSound
  <2>2. issued[n].epoch \in Nat
    BY EntryCases DEF Grant
  <2> QED BY <2>1, <2>2, <1>0 DEF GrantSound, DraftOf, OwnReview
<1>4. ReceiptsSound'
  <2> SUFFICES ASSUME NEW ak \in Actors \X Keys, receipts[ak] # None
               PROVE  /\ receipts[ak].epoch <= epoch + 1
                      /\ receipts[ak].epoch # epoch + 1
                      /\ receipts[ak].decision = "ESCALATE" => receipts[ak].review \in ReviewIds
      BY DEF ReceiptsSound
  <2>1. receipts[ak].epoch \in Nat
    BY EntryCases DEF Receipt
  <2> QED BY <2>1, <1>0 DEF ReceiptsSound
<1>5. ReviewsSound'
  BY DEF ReviewsSound
<1> QED BY <1>1, <1>2, <1>3, <1>4, <1>5

\* A rekeyed store has nothing left that was decided or issued.
LEMMA RekeyStep ==
  ASSUME ControlInv, NEW a \in Actors, rekey(a)
  PROVE  ControlInv'
<1> USE DEF ControlInv, rekey
<1>1. ControlTypeOK'
  BY DEF ControlTypeOK
<1>2. OneActivePolicy'
  BY DEF OneActivePolicy, Active
<1>3. GrantsSound' /\ ReceiptsSound' /\ ReviewsSound'
  BY DEF GrantsSound, ReceiptsSound, ReviewsSound, None
<1> QED BY <1>1, <1>2, <1>3

\* The clock changes nothing the invariant speaks of.
LEMMA TickStep == ControlInv /\ Tick => ControlInv'
<1> SUFFICES ASSUME ControlInv, Tick PROVE ControlInv'
    OBVIOUS
<1> USE DEF Tick, ControlInv
<1>1. ControlTypeOK'
  BY ControlConstants DEF ControlTypeOK
<1>2. OneActivePolicy'
  BY DEF OneActivePolicy, Active
<1>3. GrantsSound'
  BY DEF GrantsSound, GrantSound, DraftOf, OwnReview, Active
<1>4. ReceiptsSound'
  BY DEF ReceiptsSound, Decide, Active
<1>5. ReviewsSound'
  BY DEF ReviewsSound
<1> QED BY <1>1, <1>2, <1>3, <1>4, <1>5

\* Registration of a new task and approval of a legacy one: a task with grants
\* is registered and bound already, so neither touches it.
LEMMA TaskStep ==
  ASSUME ControlInv, audit' \in 0..MaxEntries,
         NEW t \in Tasks, NEW task \in Task,
         tasks[t] = None \/ ~tasks[t].domain,
         tasks' = [tasks EXCEPT ![t] = task],
         \A n \in Nonces : issued'[n] \in {issued[n], None},
         issued' \in [Nonces -> Grant \cup {None}],
         UNCHANGED <<policies, epoch, suspended, revoked, receipts, reviews, now>>
  PROVE  ControlInv'
<1> USE DEF ControlInv
<1>1. ControlTypeOK'
  BY DEF ControlTypeOK
<1>2. OneActivePolicy'
  BY DEF OneActivePolicy, Active
<1>3. GrantsSound'
  <2> SUFFICES ASSUME NEW n \in Nonces, issued'[n] # None
               PROVE  GrantSound(n)'
      BY DEF GrantsSound, None
  <2>1. issued'[n] = issued[n] /\ issued[n] # None
    OBVIOUS
  <2>2. GrantSound(n)
    BY <2>1 DEF GrantsSound
  <2>3. issued[n].action \in Actions /\ TaskOfAction[issued[n].action] \in Tasks
    BY <2>1, EntryCases, ControlConstants DEF Grant
  <2>4. t # TaskOfAction[issued[n].action]
    BY <2>2 DEF GrantSound
  <2>5. tasks'[TaskOfAction[issued[n].action]] = tasks[TaskOfAction[issued[n].action]]
    BY <2>3, <2>4 DEF ControlTypeOK
  <2> QED BY <2>1, <2>2, <2>5 DEF GrantSound, DraftOf, OwnReview, Active, None
<1>4. ReceiptsSound'
  BY DEF ReceiptsSound, Decide, Active, None
<1>5. ReviewsSound'
  BY DEF ReviewsSound, None
<1> QED BY <1>1, <1>2, <1>3, <1>4, <1>5

\* A draft that is written or submitted is not active before or after, and no
\* grant was issued under it.
LEMMA DraftStep ==
  ASSUME ControlInv, audit' \in 0..MaxEntries,
         NEW p \in PolicyIds, NEW new \in Policy,
         new.status \in {"DRAFT", "PENDING_APPROVAL"},
         \/ policies[p] = None
         \/ policies[p].status = "DRAFT" /\ new = [policies[p] EXCEPT !.status = "PENDING_APPROVAL"],
         policies' = [policies EXCEPT ![p] = new],
         UNCHANGED <<epoch, suspended, revoked, receipts, reviews, tasks, issued, now>>
  PROVE  ControlInv'
<1> USE DEF ControlInv
<1>1. ControlTypeOK'
  BY DEF ControlTypeOK
<1>a. p \notin Active /\ Active' = Active
  BY DEF Active, ControlTypeOK, None
<1>b. \A q \in PolicyIds : policies[q] # None => policies'[q] # None /\ policies'[q].draft = policies[q].draft
  BY EntryCases DEF ControlTypeOK, Policy, None
<1>2. OneActivePolicy'
  BY <1>a DEF OneActivePolicy
<1>3. GrantsSound'
  <2> SUFFICES ASSUME NEW n \in Nonces, issued[n] # None
               PROVE  GrantSound(n)'
      BY DEF GrantsSound, None
  <2>1. GrantSound(n)
    BY DEF GrantsSound
  <2>2. issued[n].policy \in PolicyIds
    BY EntryCases DEF Grant
  <2> QED BY <2>1, <2>2, <1>a, <1>b DEF GrantSound, DraftOf, OwnReview, None
<1>4. ReceiptsSound'
  <2>1. \A x : Decide(x)' = Decide(x)
    <3> SUFFICES ASSUME NEW x PROVE Decide(x)' = Decide(x)
        OBVIOUS
    <3>1. \A q \in Active : policies'[q] = policies[q]
      BY <1>a DEF ControlTypeOK, Active
    <3>2. {policies'[q].draft[x] : q \in Active} = {policies[q].draft[x] : q \in Active}
      BY <3>1
    <3> QED BY <3>2, <1>a DEF Decide
  <2> QED BY <2>1 DEF ReceiptsSound, None
<1>5. ReviewsSound'
  BY DEF ReviewsSound, None
<1> QED BY <1>1, <1>2, <1>3, <1>4, <1>5

\* Approval and rollback: the new epoch makes every receipt and grant stale.
LEMMA ActivateStep ==
  ASSUME ControlInv, audit' \in 0..MaxEntries, epoch' = epoch + 1,
         NEW p \in PolicyIds, policies[p] # None, Activate(p),
         UNCHANGED <<suspended, revoked, receipts, reviews, tasks, issued, now>>
  PROVE  ControlInv'
<1> USE DEF ControlInv
<1>0. epoch \in Nat
  BY DEF ControlTypeOK
<1>a. \A q \in PolicyIds :
         /\ policies[q] = None => policies'[q] = None
         /\ policies[q] # None => /\ policies'[q] \in Policy
                                  /\ policies'[q].draft = policies[q].draft
                                  /\ policies'[q].status = "ACTIVE" => q = p
  BY EntryCases DEF Activate, Policy, Active, None
<1>1. ControlTypeOK'
  <2>1. policies' \in [PolicyIds -> Policy \cup {None}]
    BY <1>a DEF Activate
  <2> QED BY <2>1 DEF ControlTypeOK
<1>2. OneActivePolicy'
  BY <1>a DEF OneActivePolicy, Active, None
<1>3. GrantsSound'
  <2> SUFFICES ASSUME NEW n \in Nonces, issued[n] # None
               PROVE  GrantSound(n)'
      BY DEF GrantsSound, None
  <2>1. GrantSound(n)
    BY DEF GrantsSound
  <2>2. issued[n].policy \in PolicyIds /\ issued[n].epoch \in Nat
    BY EntryCases DEF Grant
  <2>3. policies'[issued[n].policy] # None
    BY <2>1, <2>2, <1>a DEF GrantSound, None, Policy
  <2> QED BY <2>1, <2>2, <2>3, <1>a, <1>0 DEF GrantSound, DraftOf, OwnReview, None
<1>4. ReceiptsSound'
  <2> SUFFICES ASSUME NEW ak \in Actors \X Keys, receipts[ak] # None
               PROVE  /\ receipts[ak].epoch <= epoch + 1
                      /\ receipts[ak].epoch # epoch + 1
                      /\ receipts[ak].decision = "ESCALATE" => receipts[ak].review \in ReviewIds
      BY DEF ReceiptsSound, None
  <2>1. receipts[ak].epoch \in Nat
    BY EntryCases DEF Receipt
  <2> QED BY <2>1, <1>0 DEF ReceiptsSound
<1>5. ReviewsSound'
  BY DEF ReviewsSound, None
<1> QED BY <1>1, <1>2, <1>3, <1>4, <1>5

-----------------------------------------------------------------------------
(* evaluate, resolve_review, issue *)

\* An outcome of evaluate is a receipt of this action and epoch whose decision
\* is the one of the policy in force.
LEMMA OutcomeSound ==
  ASSUME ControlInv, NEW a \in Actors, NEW x \in Actions, NEW k \in Keys,
         NEW rec \in Outcomes(a, x, k)
  PROVE  /\ rec \in Receipt
         /\ rec.action = x /\ rec.epoch = epoch /\ rec.decision \in Decide(x)
         /\ rec.decision = "ESCALATE" => rec.review \in ReviewIds
         /\ Retained(receipts[<<a, k>>]) => rec = receipts[<<a, k>>]
         /\ ~Retained(receipts[<<a, k>>]) /\ rec.decision = "ESCALATE" => reviews[rec.review] = None
<1> USE DEF ControlInv
<1>0. <<a, k>> \in Actors \X Keys /\ epoch \in Nat /\ now + ReceiptTTL \in Nat
  BY ControlConstants DEF ControlTypeOK
<1>1. CASE Retained(receipts[<<a, k>>])
  <2>1. rec = receipts[<<a, k>>] /\ rec.action = x /\ rec.epoch = epoch
    BY <1>1 DEF Outcomes
  <2>2. rec # None
    BY <2>1, <1>1 DEF Retained
  <2>3. rec \in Receipt
    BY <2>1, <2>2, <1>0, EntryCases
  <2> QED BY <1>1, <2>1, <2>2, <2>3, <1>0 DEF ReceiptsSound
<1>2. CASE ~Retained(receipts[<<a, k>>])
  <2> DEFINE ids(d) == IF d = "ESCALATE" THEN {i \in ReviewIds : reviews[i] = None} ELSE {None}
  <2>a. PICK d \in Decide(x) : \E r \in ids(d) :
           rec = [status |-> "receipt", action |-> x, epoch |-> epoch,
                  expires |-> now + ReceiptTTL, decision |-> d, review |-> r]
    BY <1>2 DEF Outcomes
  <2>1. PICK r \in ids(d) :
           rec = [status |-> "receipt", action |-> x, epoch |-> epoch,
                  expires |-> now + ReceiptTTL, decision |-> d, review |-> r]
    BY <2>a
  <2>2. d \in Decisions
    <3>1. \A p \in Active : policies[p] \in Policy
      BY EntryCases DEF Active
    <3>2. \A p \in Active : policies[p].draft \in [Actions -> Decisions]
      BY <3>1, ControlConstants DEF Policy
    <3> QED BY <3>2 DEF Decide, Decisions
  <2>3. r \in ReviewIds \cup {None}
    BY <2>1
  <2>4. rec \in Receipt
    BY <2>1, <2>2, <2>3, <1>0 DEF Receipt
  <2> QED BY <1>2, <2>1, <2>4
<1> QED BY <1>1, <1>2

\* Storing such a receipt keeps the receipts sound.
LEMMA ReceiptStored ==
  ASSUME ControlInv, NEW a \in Actors, NEW x \in Actions, NEW k \in Keys,
         NEW rec \in Outcomes(a, x, k),
         receipts' = [receipts EXCEPT ![<<a, k>>] = rec],
         UNCHANGED <<policies, epoch>>
  PROVE  receipts' \in [Actors \X Keys -> Receipt \cup {None}] /\ ReceiptsSound'
<1> USE DEF ControlInv
<1>1. <<a, k>> \in Actors \X Keys /\ epoch \in Nat
  BY DEF ControlTypeOK
<1>2. receipts' \in [Actors \X Keys -> Receipt \cup {None}]
  BY <1>1, OutcomeSound DEF ControlTypeOK
<1>3. \A y : Decide(y)' = Decide(y)
  BY DEF Decide, Active
<1>4. ReceiptsSound'
  <2> SUFFICES ASSUME NEW ak \in Actors \X Keys, receipts'[ak] # None
               PROVE  /\ receipts'[ak].epoch <= epoch
                      /\ receipts'[ak].epoch = epoch => receipts'[ak].decision \in Decide(receipts'[ak].action)
                      /\ receipts'[ak].decision = "ESCALATE" => receipts'[ak].review \in ReviewIds
      BY <1>3 DEF ReceiptsSound, None
  <2>1. CASE ak = <<a, k>>
    BY <2>1, <1>1, OutcomeSound DEF ControlTypeOK
  <2>2. CASE ak # <<a, k>>
    BY <2>2, <1>1 DEF ControlTypeOK, ReceiptsSound
  <2> QED BY <2>1, <2>2
<1> QED BY <1>2, <1>4

\* evaluate: a new review has no grant yet, and takes an unused id.
LEMMA EvaluateStep ==
  ASSUME ControlInv, NEW a \in Actors, NEW x \in Actions, NEW k \in Keys, evaluate(a, x, k)
  PROVE  ControlInv'
<1> USE DEF ControlInv
<1>1. PICK rec \in Outcomes(a, x, k) :
         /\ receipts' = [receipts EXCEPT ![<<a, k>>] = rec]
         /\ \/ UNCHANGED reviews
            \/ /\ rec.decision = "ESCALATE"
               /\ reviews' = [reviews EXCEPT ![rec.review] =
                        [status |-> "pending", resolution |-> "none", agent |-> a, action |-> x,
                         epoch |-> epoch, expires |-> now + ReviewTTL, by |-> None, grant |-> None]]
  BY DEF evaluate
<1>2. ~Retained(receipts[<<a, k>>]) /\ audit' \in 0..MaxEntries
      /\ UNCHANGED <<policies, epoch, suspended, revoked, tasks, issued, now>>
  BY ControlConstants DEF evaluate, Audit, ControlTypeOK
<1> DEFINE new == [status |-> "pending", resolution |-> "none", agent |-> a, action |-> x,
                   epoch |-> epoch, expires |-> now + ReviewTTL, by |-> None, grant |-> None]
<1>3. new \in Review
  BY ControlConstants DEF Review, ControlTypeOK
<1>4. \A r \in ReviewIds : reviews'[r] = reviews[r] \/ (reviews[r] = None /\ reviews'[r] = new)
  BY <1>1, <1>2, OutcomeSound DEF ControlTypeOK
<1>5. reviews' \in [ReviewIds -> Review \cup {None}]
  BY <1>1, <1>3, OutcomeSound DEF ControlTypeOK
<1>6. ControlTypeOK'
  BY <1>1, <1>2, <1>5, ReceiptStored DEF ControlTypeOK
<1>7. OneActivePolicy'
  BY <1>2 DEF OneActivePolicy, Active
<1>8. GrantsSound'
  <2> SUFFICES ASSUME NEW n \in Nonces, issued[n] # None
               PROVE  GrantSound(n)'
      BY <1>2 DEF GrantsSound, None
  <2>1. GrantSound(n)
    BY DEF GrantsSound
  <2>2. \A r \in ReviewIds : OwnReview(n, r) => OwnReview(n, r)'
    BY <1>4, <1>2 DEF OwnReview, None
  <2> QED BY <2>1, <2>2, <1>2 DEF GrantSound, DraftOf, Active, None
<1>9. ReceiptsSound'
  BY <1>1, <1>2, ReceiptStored
<1>10. ReviewsSound'
  BY <1>4 DEF ReviewsSound, None
<1> QED BY <1>6, <1>7, <1>8, <1>9, <1>10

\* resolve_review: only pending reviews change, and those have no grant.
LEMMA ResolveStep ==
  ASSUME ControlInv, NEW a \in Actors, NEW r \in ReviewIds, NEW resolution \in {"ALLOW", "BLOCK"},
         resolve_review(a, r, resolution)
  PROVE  ControlInv'
<1> USE DEF ControlInv
<1>1. /\ UNCHANGED <<policies, epoch, suspended, revoked, receipts, tasks, issued, now>>
      /\ audit' \in 0..MaxEntries
      /\ reviews[r] # None /\ reviews[r].status = "pending"
      /\ SubjectOf[reviews[r].agent] # SubjectOf[a]
  BY ControlConstants DEF resolve_review, Retained, Audit, ControlTypeOK
<1>2. \/ reviews' = [reviews EXCEPT ![r].status = "expired"]
      \/ reviews' = [reviews EXCEPT ![r].status = "resolved",
                              ![r].resolution = resolution, ![r].by = SubjectOf[a]]
  BY DEF resolve_review
<1>3. reviews[r] \in Review
  BY <1>1, EntryCases
<1>4. /\ reviews'[r] \in Review
      /\ reviews'[r].grant = reviews[r].grant /\ reviews'[r].agent = reviews[r].agent
      /\ reviews'[r].resolution = "ALLOW" =>
            reviews'[r].status = "resolved" /\ reviews'[r].by # SubjectOf[reviews'[r].agent]
  BY <1>1, <1>2, <1>3 DEF Review, ReviewsSound, ControlTypeOK
<1>5. \A q \in ReviewIds \ {r} : reviews'[q] = reviews[q]
  BY <1>2 DEF ControlTypeOK
<1>6. reviews[r].grant = None
  BY <1>1 DEF ReviewsSound
<1>7. ControlTypeOK'
  <2>1. reviews' \in [ReviewIds -> Review \cup {None}]
    BY <1>2, <1>4, <1>5 DEF ControlTypeOK
  <2> QED BY <2>1, <1>1 DEF ControlTypeOK
<1>8. OneActivePolicy'
  BY <1>1 DEF OneActivePolicy, Active
<1>9. GrantsSound'
  <2> SUFFICES ASSUME NEW n \in Nonces, issued[n] # None
               PROVE  GrantSound(n)'
      BY <1>1 DEF GrantsSound, None
  <2>1. GrantSound(n)
    BY DEF GrantsSound
  <2>2. \A q \in ReviewIds : OwnReview(n, q) => OwnReview(n, q)'
    <3> SUFFICES ASSUME NEW q \in ReviewIds, OwnReview(n, q) PROVE OwnReview(n, q)'
        OBVIOUS
    <3>1. CASE q = r
      BY <3>1, <1>1 DEF OwnReview, ReviewsSound
    <3>2. CASE q # r
      BY <3>2, <1>1, <1>5 DEF OwnReview, None
    <3> QED BY <3>1, <3>2
  <2> QED BY <2>1, <2>2, <1>1 DEF GrantSound, DraftOf, Active, None
<1>10. ReceiptsSound'
  BY <1>1 DEF ReceiptsSound, Decide, Active, None
<1>11. ReviewsSound'
  BY <1>4, <1>5, <1>6 DEF ReviewsSound, None
<1> QED BY <1>7, <1>8, <1>9, <1>10, <1>11

\* issue: the receipt it rests on is of the current epoch, so it carries the
\* decision of the policy the grant names; a review is used for one grant only.
LEMMA IssueStep ==
  ASSUME ControlInv, NEW a \in Actors, NEW x \in Actions, NEW k \in Keys,
         NEW e \in Actors, NEW n \in Nonces, issue(a, x, k, e, n)
  PROVE  ControlInv'
<1> USE DEF ControlInv
<1> DEFINE grant(p) == [status |-> "issued", agent |-> a, audience |-> e, action |-> x,
                        policy |-> p, epoch |-> epoch, expires |-> now + GrantTTL]
<1>1. PICK rec \in Outcomes(a, x, k), p \in Active :
         /\ \/ rec.decision = "ALLOW" /\ UNCHANGED reviews
            \/ /\ rec.decision = "ESCALATE" /\ Approved(rec.review, a, x)
               /\ reviews' = [reviews EXCEPT ![rec.review].grant = n]
         /\ Audit(IF receipts[<<a, k>>] = rec THEN 1 ELSE 2)
         /\ receipts' = [receipts EXCEPT ![<<a, k>>] = rec]
         /\ issued' = [issued EXCEPT ![n] = grant(p)]
  BY DEF issue
<1>2. /\ UNCHANGED <<policies, epoch, suspended, revoked, tasks, now>>
      /\ TaskAdmits(a, x) /\ issued[n] = None
  BY DEF issue
<1>3. audit' \in 0..MaxEntries
  BY <1>1, ControlConstants DEF Audit, ControlTypeOK
<1>4. rec.decision \in {"ALLOW", "ESCALATE"} /\ rec.decision = policies[p].draft[x]
  <2>1. rec.decision \in Decide(x)
    BY OutcomeSound
  <2>2. \A q \in Active : q = p
    BY DEF OneActivePolicy
  <2> QED BY <1>1, <2>1, <2>2 DEF Decide
<1>5. p \in PolicyIds /\ policies[p] # None
  BY DEF Active, None
<1>6. grant(p) \in Grant
  BY <1>5, ControlConstants DEF Grant, ControlTypeOK
<1> DEFINE ReviewGoal ==
      /\ reviews' \in [ReviewIds -> Review \cup {None}] /\ ReviewsSound'
      /\ \A m \in Nonces \ {n}, q \in ReviewIds : OwnReview(m, q) => OwnReview(m, q)'
      /\ rec.decision = "ESCALATE" => \E q \in ReviewIds : OwnReview(n, q)'
<1>7. ASSUME rec.decision = "ESCALATE" PROVE ReviewGoal
  <2> DEFINE r == rec.review
  <2>1. /\ r \in ReviewIds /\ reviews[r] \in Review /\ reviews[r] # None
        /\ reviews[r].status = "resolved" /\ reviews[r].resolution = "ALLOW"
        /\ reviews[r].grant = None /\ reviews[r].action = x /\ reviews[r].agent = a
        /\ reviews' = [reviews EXCEPT ![r].grant = n]
    BY <1>1, <1>7, OutcomeSound, EntryCases DEF Approved, Retained
  <2>2. /\ reviews'[r] \in Review /\ reviews'[r] # None /\ reviews'[r].grant = n
        /\ reviews'[r].status = "resolved" /\ reviews'[r].resolution = "ALLOW"
        /\ reviews'[r].action = x /\ reviews'[r].agent = a /\ reviews'[r].by = reviews[r].by
    BY <2>1 DEF Review, ControlTypeOK, None
  <2>3. \A q \in ReviewIds \ {r} : reviews'[q] = reviews[q]
    BY <2>1 DEF ControlTypeOK
  <2>4. reviews' \in [ReviewIds -> Review \cup {None}]
    BY <2>1, <2>2, <2>3 DEF ControlTypeOK
  <2>5. ReviewsSound'
    BY <2>1, <2>2, <2>3 DEF ReviewsSound, None
  <2>6. \A m \in Nonces \ {n}, q \in ReviewIds : OwnReview(m, q) => OwnReview(m, q)'
    <3> SUFFICES ASSUME NEW m \in Nonces \ {n}, NEW q \in ReviewIds, OwnReview(m, q)
                 PROVE  OwnReview(m, q)'
        OBVIOUS
    <3>1. q # r
      BY <2>1, ControlConstants DEF OwnReview
    <3> QED BY <3>1, <2>3, <1>1 DEF OwnReview, None, ControlTypeOK
  <2>7. OwnReview(n, r)'
    BY <2>2, <1>1 DEF OwnReview, None, ControlTypeOK
  <2> QED BY <2>1, <2>4, <2>5, <2>6, <2>7
<1>8. ASSUME rec.decision # "ESCALATE" PROVE ReviewGoal
  <2>1. reviews' = reviews
    BY <1>1, <1>8
  <2>2. \A m \in Nonces \ {n} : issued'[m] = issued[m]
    BY <1>1 DEF ControlTypeOK
  <2> QED BY <1>8, <2>1, <2>2 DEF ReviewsSound, OwnReview, None, ControlTypeOK
<1>9. ReviewGoal
  BY <1>7, <1>8
<1>10. ControlTypeOK'
  <2>1. issued' \in [Nonces -> Grant \cup {None}]
    BY <1>1, <1>6 DEF ControlTypeOK
  <2>2. receipts' \in [Actors \X Keys -> Receipt \cup {None}]
    BY <1>1, <1>2, ReceiptStored
  <2> QED BY <1>2, <1>3, <1>9, <2>1, <2>2 DEF ControlTypeOK
<1>11. OneActivePolicy'
  BY <1>2 DEF OneActivePolicy, Active
<1>12. GrantsSound'
  <2> SUFFICES ASSUME NEW m \in Nonces, issued'[m] # None
               PROVE  GrantSound(m)'
      BY DEF GrantsSound, None
  <2>0. Active' = Active /\ epoch \in Nat
    BY <1>2 DEF Active, ControlTypeOK
  <2>1. CASE m = n
    <3>1. issued'[m] = grant(p)
      BY <2>1, <1>1 DEF ControlTypeOK
    <3>2. LET task == tasks[TaskOfAction[x]]
          IN task # None /\ task.agent = a /\ task.domain
      BY <1>2 DEF TaskAdmits
    <3>3. /\ issued'[m].epoch = epoch /\ issued'[m].policy = p
          /\ issued'[m].action = x /\ issued'[m].agent = a
      BY <3>1
    <3>4. DraftOf(issued[m])' = rec.decision
      BY <3>3, <1>2, <1>4 DEF DraftOf
    <3>5. DraftOf(issued[m])' = "ESCALATE" => \E q \in ReviewIds : OwnReview(m, q)'
      BY <3>4, <1>9, <2>1
    <3> QED BY <3>2, <3>3, <3>4, <3>5, <1>2, <1>4, <1>5, <2>0 DEF GrantSound, None
  <2>2. CASE m # n
    <3>1. issued'[m] = issued[m]
      BY <2>2, <1>1 DEF ControlTypeOK
    <3>2. GrantSound(m)
      BY <3>1 DEF GrantsSound
    <3>3. DraftOf(issued[m])' = DraftOf(issued[m])
      BY <3>1, <1>2 DEF DraftOf
    <3>4. DraftOf(issued[m])' = "ESCALATE" => \E q \in ReviewIds : OwnReview(m, q)'
      BY <3>2, <3>3, <1>9, <2>2 DEF GrantSound
    <3> QED BY <3>1, <3>2, <3>3, <3>4, <1>2, <2>0 DEF GrantSound, None
  <2> QED BY <2>1, <2>2
<1>13. ReceiptsSound'
  BY <1>1, <1>2, ReceiptStored
<1> QED BY <1>9, <1>10, <1>11, <1>12, <1>13

-----------------------------------------------------------------------------
\* Every step preserves the invariant.
LEMMA ControlStep == ControlInv /\ [ControlNext]_controlVars => ControlInv'
<1> SUFFICES ASSUME ControlInv, [ControlNext]_controlVars PROVE ControlInv'
    OBVIOUS
<1>0. ASSUME NEW i \in {1, 2}, Audit(i) PROVE audit' \in 0..MaxEntries
  BY <1>0, ControlConstants DEF Audit, ControlInv, ControlTypeOK
<1>1. ASSUME NEW a \in Actors, NEW key \in Credentials, revoke_credential(a, key)
      PROVE  ControlInv'
  <2>1. revoked' \subseteq Credentials /\ UNCHANGED suspended /\ suspended \in BOOLEAN
    BY <1>1 DEF revoke_credential, ControlInv, ControlTypeOK
  <2> QED BY <1>0, <1>1, <2>1, BumpStep DEF revoke_credential, NextEpoch
<1>2. ASSUME NEW a \in Actors, NEW on \in BOOLEAN, suspend_tenant(a, on)
      PROVE  ControlInv'
  <2>1. suspended' \in BOOLEAN /\ UNCHANGED revoked /\ revoked \subseteq Credentials
    BY <1>2 DEF suspend_tenant, ControlInv, ControlTypeOK
  <2> QED BY <1>0, <1>2, <2>1, BumpStep DEF suspend_tenant, NextEpoch
<1>3. ASSUME NEW a \in Actors, NEW p \in PolicyIds, NEW draft \in Drafts, create_draft(a, p, draft)
      PROVE  ControlInv'
  <2> DEFINE new == [status |-> "DRAFT", draft |-> draft, created_by |-> SubjectOf[a]]
  <2>1. new \in Policy
    BY DEF Policy
  <2>2. policies[p] = None /\ policies' = [policies EXCEPT ![p] = new]
    BY <1>3 DEF create_draft
  <2>3. UNCHANGED <<epoch, suspended, revoked, receipts, reviews, tasks, issued, now>> /\ Audit(1)
    BY <1>3 DEF create_draft
  <2> QED BY <1>0, <2>1, <2>2, <2>3, DraftStep
<1>4. ASSUME NEW a \in Actors, NEW p \in PolicyIds, submit_policy(a, p)
      PROVE  ControlInv'
  <2> DEFINE new == [policies[p] EXCEPT !.status = "PENDING_APPROVAL"]
  <2>1. policies[p] \in Policy /\ policies[p].status = "DRAFT"
    BY <1>4, EntryCases DEF submit_policy, ControlInv
  <2>2. new \in Policy /\ new.status = "PENDING_APPROVAL"
    BY <2>1 DEF Policy
  <2>3. policies' = [policies EXCEPT ![p] = new]
    BY <1>4 DEF submit_policy
  <2>4. UNCHANGED <<epoch, suspended, revoked, receipts, reviews, tasks, issued, now>> /\ Audit(1)
    BY <1>4 DEF submit_policy
  <2> QED BY <1>0, <2>1, <2>2, <2>3, <2>4, DraftStep
<1>5. ASSUME NEW a \in Actors, NEW p \in PolicyIds, approve_policy(a, p) \/ rollback(a, p)
      PROVE  ControlInv'
  <2>1. policies[p] # None
    BY <1>5 DEF approve_policy, rollback, None
  <2>2. /\ Activate(p) /\ epoch' = epoch + 1 /\ Audit(1)
        /\ UNCHANGED <<suspended, revoked, receipts, reviews, tasks, issued, now>>
    BY <1>5 DEF approve_policy, rollback, NextEpoch
  <2> QED BY <1>0, <2>1, <2>2, ActivateStep
<1>6. ASSUME NEW a \in Actors, NEW t \in Tasks, NEW agent \in Actors, register(a, t, agent)
      PROVE  ControlInv'
  <2> DEFINE task == [status |-> "registered", agent |-> agent, domain |-> TRUE]
  <2>1. task \in Task
    BY DEF Task
  <2>2. /\ tasks[t] = None /\ tasks' = [tasks EXCEPT ![t] = task] /\ Audit(1)
        /\ UNCHANGED <<policies, epoch, suspended, revoked, receipts, reviews, issued, now>>
    BY <1>6 DEF register
  <2>3. issued' \in [Nonces -> Grant \cup {None}]
    BY <2>2 DEF ControlInv, ControlTypeOK
  <2> QED BY <1>0, <2>1, <2>2, <2>3, TaskStep
<1>7. ASSUME NEW a \in Actors, NEW t \in Tasks, bind_legacy_domain(a, t)
      PROVE  ControlInv'
  <2> DEFINE task == [tasks[t] EXCEPT !.domain = TRUE]
  <2>1. tasks[t] \in Task /\ ~tasks[t].domain
    BY <1>7, EntryCases DEF bind_legacy_domain, ControlInv
  <2>2. task \in Task /\ tasks' = [tasks EXCEPT ![t] = task]
    BY <1>7, <2>1 DEF bind_legacy_domain, Task
  <2>3. /\ Audit(1)
        /\ UNCHANGED <<policies, epoch, suspended, revoked, receipts, reviews, now>>
    BY <1>7 DEF bind_legacy_domain
  <2>4. issued' \in [Nonces -> Grant \cup {None}] /\ \A n \in Nonces : issued'[n] \in {issued[n], None}
    BY <1>7 DEF bind_legacy_domain, ControlInv, ControlTypeOK
  <2> QED BY <1>0, <2>1, <2>2, <2>3, <2>4, TaskStep
<1>8. CASE UNCHANGED controlVars
  <2> USE <1>8 DEF controlVars, ControlInv
  <2>1. ControlTypeOK'
    BY DEF ControlTypeOK
  <2>2. OneActivePolicy'
    BY DEF OneActivePolicy, Active
  <2>3. GrantsSound'
    BY DEF GrantsSound, GrantSound, DraftOf, OwnReview, Active, None
  <2>4. ReceiptsSound' /\ ReviewsSound'
    BY DEF ReceiptsSound, Decide, Active, None, ReviewsSound
  <2> QED BY <2>1, <2>2, <2>3, <2>4
<1>9. ASSUME NEW a \in Actors, Administration(a) PROVE ControlInv'
  BY <1>9, <1>1, <1>2, <1>3, <1>4, <1>5, <1>6, <1>7, RekeyStep DEF Administration
<1> QED BY <1>8, <1>9, EvaluateStep, ResolveStep, IssueStep, TickStep, ControlConstants DEF ControlNext

-----------------------------------------------------------------------------
\* The invariant holds in every behaviour.
THEOREM ControlInvariant == ControlSpec => []ControlInv
BY ControlInitial, ControlStep, PTL DEF ControlSpec

\* Type correctness, the audit quota included.
THEOREM ControlTypeCorrect == ControlSpec => []ControlTypeOK
<1>1. ControlInv => ControlTypeOK
  BY DEF ControlInv
<1> QED BY <1>1, ControlInvariant, PTL

\* However approvals and rollbacks interleave, at most one policy is in force.
THEOREM SinglePolicy == ControlSpec => []OneActivePolicy
<1>1. ControlInv => OneActivePolicy
  BY DEF ControlInv
<1> QED BY <1>1, ControlInvariant, PTL

\* validate never answers yes for what the policy in force does not authorize.
THEOREM ValidMeansAuthorized == ControlSpec => []ValidGrantIsAuthorizedNow
<1>1. ControlInv => ValidGrantIsAuthorizedNow
  <2> SUFFICES ASSUME ControlInv, NEW n \in Nonces, NEW e \in Actors, validate(e, n)
               PROVE  /\ issued[n].policy \in Active
                      /\ policies[issued[n].policy].draft[issued[n].action] \in {"ALLOW", "ESCALATE"}
                      /\ ~suspended /\ KeyOf[issued[n].agent] \notin revoked
      BY DEF ValidGrantIsAuthorizedNow, ValidNow
  <2>1. GrantSound(n) /\ issued[n].epoch = epoch
    BY DEF validate, ControlInv, GrantsSound
  <2>2. ~suspended /\ KeyOf[issued[n].agent] \notin revoked
    BY DEF validate, TaskAdmits
  <2> QED BY <2>1, <2>2 DEF GrantSound, DraftOf
<1> QED BY <1>1, ControlInvariant, PTL

\* Every grant for an escalated action has an approved review of its own.
THEOREM ReviewsGrantOnce == ControlSpec => []EscalatedGrantHasOwnReview
<1>1. ControlInv => EscalatedGrantHasOwnReview
  <2> SUFFICES ASSUME ControlInv, NEW n \in Nonces, issued[n] # None,
                      policies[issued[n].policy].draft[issued[n].action] = "ESCALATE"
               PROVE  \E r \in ReviewIds :
                         /\ reviews[r] # None /\ reviews[r].grant = n
                         /\ reviews[r].resolution = "ALLOW" /\ reviews[r].action = issued[n].action
                         /\ reviews[r].agent = issued[n].agent
                         /\ reviews[r].by # SubjectOf[issued[n].agent]
      BY DEF EscalatedGrantHasOwnReview
  <2>1. PICK r \in ReviewIds : OwnReview(n, r)
    BY DEF ControlInv, GrantsSound, GrantSound, DraftOf
  <2>2. reviews[r].by # SubjectOf[reviews[r].agent]
    BY <2>1 DEF OwnReview, ControlInv, ReviewsSound
  <2> QED BY <2>1, <2>2 DEF OwnReview
<1> QED BY <1>1, ControlInvariant, PTL

\* A step that leaves the epoch alone leaves suspension and revocations alone,
\* and neither the epoch nor the clock runs backwards.
LEMMA EpochGuards ==
  ASSUME ControlInv, ControlNext
  PROVE  /\ epoch' \in {epoch, epoch + 1} /\ now' >= now
         /\ epoch' = epoch => UNCHANGED <<suspended, revoked>>
<1>1. epoch \in Nat /\ now \in Nat
  BY DEF ControlInv, ControlTypeOK
<1>2. ASSUME NEW a \in Actors, Administration(a)
      PROVE  /\ epoch' \in {epoch, epoch + 1} /\ now' = now
             /\ epoch' = epoch => UNCHANGED <<suspended, revoked>>
  BY <1>2, <1>1 DEF Administration, revoke_credential, suspend_tenant, create_draft, submit_policy,
     approve_policy, rollback, register, bind_legacy_domain, rekey, NextEpoch
<1>3. ASSUME NEW a \in Actors, NEW x \in Actions, NEW k \in Keys,
             evaluate(a, x, k) \/ \E e \in Audiences, n \in Nonces : issue(a, x, k, e, n)
      PROVE  UNCHANGED <<epoch, now, suspended, revoked>>
  BY <1>3 DEF evaluate, issue
<1>4. ASSUME NEW a \in Actors, NEW r \in ReviewIds, NEW resolution \in {"ALLOW", "BLOCK"},
             resolve_review(a, r, resolution)
      PROVE  UNCHANGED <<epoch, now, suspended, revoked>>
  BY <1>4 DEF resolve_review
<1>5. ASSUME Tick PROVE UNCHANGED <<epoch, suspended, revoked>> /\ now' = now + 1
  BY <1>5 DEF Tick
<1> QED BY <1>1, <1>2, <1>3, <1>4, <1>5 DEF ControlNext

\* An issued grant and the registration of its task are never rewritten; the
\* grant may only be withdrawn.
LEMMA GrantKept ==
  ASSUME ControlInv, ControlNext, NEW n \in Nonces, issued[n] # None
  PROVE  /\ issued'[n] \in {issued[n], None}
         /\ LET t == TaskOfAction[issued[n].action] IN tasks'[t] = tasks[t]
<1> DEFINE t0 == TaskOfAction[issued[n].action]
<1>1. t0 \in Tasks /\ tasks[t0] # None /\ tasks[t0].domain
  BY EntryCases, ControlConstants DEF ControlInv, GrantsSound, GrantSound, Grant
<1>2. ASSUME NEW a \in Actors, Administration(a)
      PROVE  issued'[n] \in {issued[n], None} /\ tasks'[t0] = tasks[t0]
  <2>1. ASSUME NEW t \in Tasks, NEW agent \in Actors, register(a, t, agent)
        PROVE  UNCHANGED issued /\ tasks'[t0] = tasks[t0]
    BY <2>1, <1>1 DEF register, ControlInv, ControlTypeOK
  <2>2. ASSUME NEW t \in Tasks, bind_legacy_domain(a, t)
        PROVE  issued'[n] \in {issued[n], None} /\ tasks'[t0] = tasks[t0]
    BY <2>2, <1>1 DEF bind_legacy_domain, ControlInv, ControlTypeOK
  <2>3. CASE \/ \E key \in Credentials : revoke_credential(a, key)
             \/ \E on \in BOOLEAN : suspend_tenant(a, on)
             \/ \E p \in PolicyIds : \/ \E draft \in Drafts : create_draft(a, p, draft)
                                     \/ submit_policy(a, p) \/ approve_policy(a, p) \/ rollback(a, p)
    BY <2>3 DEF revoke_credential, suspend_tenant, create_draft, submit_policy, approve_policy, rollback
  <2>4. CASE rekey(a)
    BY <2>4 DEF rekey
  <2> QED BY <1>2, <2>1, <2>2, <2>3, <2>4 DEF Administration
<1>3. ASSUME NEW a \in Actors, NEW x \in Actions, NEW k \in Keys, evaluate(a, x, k)
      PROVE  UNCHANGED <<issued, tasks>>
  BY <1>3 DEF evaluate
<1>4. ASSUME NEW a \in Actors, NEW x \in Actions, NEW k \in Keys, NEW e \in Audiences, NEW m \in Nonces,
             issue(a, x, k, e, m)
      PROVE  issued'[n] = issued[n] /\ UNCHANGED tasks
  BY <1>4 DEF issue, ControlInv, ControlTypeOK
<1>5. ASSUME NEW a \in Actors, NEW r \in ReviewIds, NEW resolution \in {"ALLOW", "BLOCK"},
             resolve_review(a, r, resolution)
      PROVE  UNCHANGED <<issued, tasks>>
  BY <1>5 DEF resolve_review
<1>6. ASSUME Tick PROVE UNCHANGED <<issued, tasks>>
  BY <1>6 DEF Tick
<1> QED BY <1>2, <1>3, <1>4, <1>5, <1>6 DEF ControlNext

\* A grant that stopped being valid stays invalid: no rollback, resumption or
\* re-registration revives it.
THEOREM InvalidStaysInvalid == ControlSpec => InvalidIsFinal
<1>1. ASSUME ControlInv, ControlNext, NEW n \in Nonces, issued[n] # None, ValidNow(n)'
      PROVE  ValidNow(n)
  <2>1. PICK e \in Actors : validate(e, n)'
    BY <1>1 DEF ValidNow
  <2>2. issued'[n] # None /\ issued'[n].epoch = epoch' /\ issued'[n].expires > now'
    BY <2>1 DEF validate, None
  <2>3. issued'[n] = issued[n] /\ tasks'[TaskOfAction[issued[n].action]] = tasks[TaskOfAction[issued[n].action]]
    BY <1>1, <2>2, GrantKept
  <2>4. /\ issued[n].epoch <= epoch /\ issued[n].epoch \in Nat /\ issued[n].expires \in Nat
        /\ epoch \in Nat /\ now \in Nat /\ now' \in Nat
    BY <1>1, EntryCases, ControlStep DEF ControlInv, GrantsSound, GrantSound, Grant, ControlTypeOK
  <2>5. epoch' = epoch /\ UNCHANGED <<suspended, revoked>> /\ issued[n].expires > now
    BY <1>1, <2>2, <2>3, <2>4, EpochGuards
  <2>6. validate(e, n)
    BY <2>1, <2>2, <2>3, <2>5 DEF validate, Require, TaskAdmits, None
  <2> QED BY <2>6 DEF ValidNow
<1>2. ControlInv /\ [ControlNext]_controlVars =>
        [\A n \in Nonces : issued[n] # None /\ ~ValidNow(n) => ~ValidNow(n)']_controlVars
  BY <1>1
<1> QED BY <1>2, ControlInvariant, PTL DEF ControlSpec, InvalidIsFinal

-----------------------------------------------------------------------------
(* ControlPlane implements AgentAuthority for each of its agents: the         *)
(* initial state is one of the abstract authority, and every operation is     *)
(* an abstract evaluation, change, rotation or passing of time, or changes    *)
(* nothing that agent sees.  OneActivePolicy of ControlInv is what makes      *)
(* the policy in force a single content.                                      *)

ContentInForce == {policies[p].draft : p \in Active}
Seen(a) == [k \in Keys |-> SeenReceipt(receipts[<<a, k>>])]

\* There is at most one content in force, and it is one of the drafts.
OneContent == ContentInForce \in {{}} \cup {{c} : c \in Drafts}

LEMMA ForceIsOne == ControlInv => OneContent
<1> SUFFICES ASSUME ControlInv PROVE ContentInForce = {} \/ \E c \in Drafts : ContentInForce = {c}
    BY DEF OneContent
<1>1. CASE Active = {}
  BY <1>1 DEF ContentInForce
<1>2. CASE Active # {}
  <2>1. PICK p : p \in Active
    BY <1>2
  <2>2. ContentInForce = {policies[p].draft}
    BY <2>1 DEF ContentInForce, ControlInv, OneActivePolicy
  <2>3. policies[p].draft \in Drafts
    BY <2>1, EntryCases DEF Active, ControlInv, Policy
  <2> QED BY <2>2, <2>3
<1> QED BY <1>1, <1>2

\* A step that touches neither the policy in force nor the agent is invisible.
LEMMA Unseen ==
  ASSUME NEW a \in Actors, ContentInForce' = ContentInForce, UNCHANGED <<epoch, suspended, revoked, now>>,
         \A k \in Keys : receipts'[<<a, k>>] = receipts[<<a, k>>]
  PROVE  UNCHANGED SeenBy(a)!authorityVars
<1>1. Seen(a)' = Seen(a)
  BY DEF Seen, SeenReceipt, Retained, None
<1> QED BY <1>1 DEF Seen, ContentInForce, SeenBy!authorityVars

\* A step that advances the epoch is a change.
LEMMA SeenChange ==
  ASSUME NEW a \in Actors, OneContent', epoch' = epoch + 1, ContentInForce # {} => ContentInForce' # {},
         suspended' \in BOOLEAN, UNCHANGED <<receipts, now>>
  PROVE  SeenBy(a)!AuthorityNext
<1>1. Seen(a)' = Seen(a)
  BY DEF Seen, SeenReceipt, Retained, None
<1>2. PICK content \in {{}} \cup {{c} : c \in Drafts} : content = ContentInForce'
  BY DEF OneContent
<1>3. PICK refused \in BOOLEAN : refused = (suspended' \/ KeyOf[a] \in revoked')
  OBVIOUS
<1>4. SeenBy(a)!Change(content, refused)
  BY <1>1, <1>2, <1>3 DEF SeenBy!Change, ContentInForce, Seen
<1> QED BY <1>2, <1>3, <1>4 DEF SeenBy!AuthorityNext

\* A rekeyed store is a rotation.
LEMMA SeenRotation ==
  ASSUME NEW a \in Actors, NEW b \in Actors, rekey(b)
  PROVE  SeenBy(a)!Rotate
<1>1. ContentInForce' = ContentInForce
  BY DEF ContentInForce, Active, rekey
<1>2. \A k \in Keys : receipts'[<<a, k>>] = None
  BY DEF rekey
<1>3. \A k \in Keys : SeenReceipt(receipts[<<a, k>>])' = [status |-> "none"]
  BY <1>2 DEF SeenReceipt, Retained, None
<1>4. Seen(a)' = [k \in Keys |-> [status |-> "none"]]
  BY <1>3 DEF Seen
<1> QED
  BY <1>1, <1>4 DEF SeenBy!Rotate, SeenBy!NoReceipts, SeenBy!NoReceipt, ContentInForce, Seen, rekey

\* What is left of a receipt shrinks with the clock, and nothing is left of it
\* when a durable store prunes it.
LEMMA SeenTime ==
  ASSUME ControlInv, NEW a \in Actors, Tick
  PROVE  SeenBy(a)!Pass
<1>1. ContentInForce' = ContentInForce
  BY DEF ContentInForce, Active, Tick
<1>2. now \in Nat /\ now' = now + 1 /\ receipts' = receipts /\ Durable \in BOOLEAN
  BY ControlConstants DEF Tick, ControlInv, ControlTypeOK
<1>3. ASSUME NEW k \in Keys
      PROVE  SeenReceipt(receipts[<<a, k>>])' = SeenBy(a)!Aged(SeenReceipt(receipts[<<a, k>>]))
  <2> DEFINE r == receipts[<<a, k>>]
             left == r.expires - now
             seen == [status |-> "receipt", action |-> r.action, epoch |-> r.epoch,
                      decision |-> r.decision, left |-> left]
  <2>1. r \in Receipt \cup {None}
    BY DEF ControlInv, ControlTypeOK
  <2>2. CASE r = None
    BY <2>2, <1>2 DEF SeenReceipt, Retained, SeenBy!Aged, SeenBy!NoReceipt, None
  <2>3. CASE r # None
    <3>1. r.expires \in Nat
      BY <2>1, <2>3 DEF Receipt
    <3>2. CASE r.expires <= now
      <4>1. SeenReceipt(r) = [status |-> IF Durable THEN "none" ELSE "expired"]
        BY <3>1, <3>2, <2>3, <1>2 DEF SeenReceipt, Retained
      <4>2. SeenReceipt(receipts[<<a, k>>])' = [status |-> IF Durable THEN "none" ELSE "expired"]
        BY <3>1, <3>2, <2>3, <1>2 DEF SeenReceipt, Retained, None
      <4> QED BY <4>1, <4>2 DEF SeenBy!Aged
    <3>3. CASE r.expires > now
      <4>1. SeenReceipt(r) = seen /\ left \in Nat
        BY <3>1, <3>3, <2>3, <1>2 DEF SeenReceipt, Retained
      <4>2. SeenBy(a)!Aged(seen) =
               IF left > 1 THEN [status |-> "receipt", action |-> r.action, epoch |-> r.epoch,
                                 decision |-> r.decision, left |-> left - 1]
               ELSE [status |-> IF Durable THEN "none" ELSE "expired"]
        BY DEF SeenBy!Aged, SeenBy!NoReceipt, SeenBy!Expired
      <4>3. SeenReceipt(receipts[<<a, k>>])' =
               IF r.expires > now + 1
               THEN [status |-> "receipt", action |-> r.action, epoch |-> r.epoch,
                     decision |-> r.decision, left |-> r.expires - (now + 1)]
               ELSE [status |-> IF Durable THEN "none" ELSE "expired"]
        BY <3>1, <2>3, <1>2 DEF SeenReceipt, Retained, None
      <4>4. (left > 1 <=> r.expires > now + 1) /\ left - 1 = r.expires - (now + 1)
        BY <3>1, <3>3, <1>2
      <4> HIDE DEF left
      <4> QED BY <4>1, <4>2, <4>3, <4>4
    <3> QED BY <3>1, <3>2, <3>3, <1>2
  <2> QED BY <2>2, <2>3
<1> QED
  BY <1>1, <1>2, <1>3 DEF SeenBy!Pass, ContentInForce, Seen, Tick

\* Storing an outcome is an evaluation for the agent that asked, unless it had
\* the receipt already, and nothing for the others.
LEMMA SeenEvaluation ==
  ASSUME ControlInv, NEW a \in Actors, NEW b \in Actors, NEW x \in Actions, NEW k \in Keys,
         Admitted(b, x), NEW rec \in Outcomes(b, x, k),
         receipts' = [receipts EXCEPT ![<<b, k>>] = rec],
         UNCHANGED <<policies, epoch, suspended, revoked, now>>
  PROVE  SeenBy(a)!AuthorityNext \/ UNCHANGED SeenBy(a)!authorityVars
<1>0. ContentInForce' = ContentInForce /\ receipts \in [Actors \X Keys -> Receipt \cup {None}] /\ now \in Nat
  BY DEF ContentInForce, Active, ControlInv, ControlTypeOK
<1>1. CASE a # b \/ Retained(receipts[<<b, k>>])
  <2>1. \A i \in Keys : receipts'[<<a, i>>] = receipts[<<a, i>>]
    BY <1>0, <1>1, OutcomeSound
  <2> QED BY <1>0, <2>1, Unseen
<1>2. CASE a = b /\ ~Retained(receipts[<<b, k>>])
  <2> DEFINE new == [status |-> "receipt", action |-> x, epoch |-> epoch,
                     decision |-> rec.decision, left |-> ReceiptTTL]
  <2>1. /\ rec \in Receipt /\ rec # None
        /\ rec.action = x /\ rec.epoch = epoch /\ rec.decision \in Decide(x)
    BY OutcomeSound DEF Receipt, None
  <2>2. rec.expires = now + ReceiptTTL
    BY <1>2 DEF Outcomes
  <2>3. SeenReceipt(rec) = new
    <3>1. rec.expires > now /\ ~(rec.expires <= now) /\ rec.expires - now = ReceiptTTL
      BY <2>2, <1>0, ControlConstants
    <3> QED BY <2>1, <3>1 DEF SeenReceipt, Retained
  <2>4. Seen(a)' = [Seen(a) EXCEPT ![k] = new]
    <3>1. \A i \in Keys : receipts'[<<a, i>>] = IF i = k THEN rec ELSE receipts[<<a, i>>]
      BY <1>0, <1>2
    <3>2. \A i \in Keys : SeenReceipt(receipts[<<a, i>>])' =
                          IF i = k THEN new ELSE SeenReceipt(receipts[<<a, i>>])
      BY <3>1, <2>3 DEF SeenReceipt, Retained, None
    <3> QED BY <3>2 DEF Seen
  <2>5. Seen(a)[k] = [status |-> "none"]
    BY <1>2 DEF Seen, SeenReceipt
  <2>6. rec.decision \in SeenBy(a)!Decided(x)
    <3>1. \A c \in ContentInForce : c \in Drafts
      BY ForceIsOne DEF OneContent
    <3>2. CASE Active = {}
      BY <2>1, <3>2 DEF Decide, SeenBy!Decided
    <3>3. CASE Active # {}
      <4>1. PICK p \in Active : rec.decision = policies[p].draft[x]
        BY <2>1, <3>3 DEF Decide
      <4>2. policies[p].draft \in ContentInForce
        BY DEF ContentInForce
      <4> QED BY <3>1, <3>3, <4>1, <4>2 DEF SeenBy!Decided, ContentInForce
    <3> QED BY <3>2, <3>3
  <2>7. ~(suspended \/ KeyOf[a] \in revoked) /\ x \in ScopeOf[a]
    BY <1>2 DEF Admitted, Require
  <2>8. SeenBy(a)!Evaluate(x, k)
    BY <1>0, <2>4, <2>5, <2>6, <2>7 DEF SeenBy!Evaluate, SeenBy!NoReceipt, Seen, ContentInForce
  <2> QED BY <2>8 DEF SeenBy!AuthorityNext
<1> QED BY <1>1, <1>2

\* Each operation, as an agent sees it.
LEMMA SeenStep ==
  ASSUME ControlInv, OneContent', ControlInv', ControlNext, NEW a \in Actors
  PROVE  SeenBy(a)!AuthorityNext \/ UNCHANGED SeenBy(a)!authorityVars
<1> DEFINE Goal == SeenBy(a)!AuthorityNext \/ UNCHANGED SeenBy(a)!authorityVars
<1>0. suspended' \in BOOLEAN
  BY DEF ControlInv, ControlTypeOK
<1>1. ASSUME NEW b \in Actors, NEW key \in Credentials, revoke_credential(b, key) PROVE Goal
  <2>1. ContentInForce' = ContentInForce
    BY <1>1 DEF ContentInForce, Active, revoke_credential
  <2> QED BY <1>0, <1>1, <2>1, SeenChange DEF revoke_credential, NextEpoch
<1>2. ASSUME NEW b \in Actors, NEW on \in BOOLEAN, suspend_tenant(b, on) PROVE Goal
  <2>1. ContentInForce' = ContentInForce
    BY <1>2 DEF ContentInForce, Active, suspend_tenant
  <2> QED BY <1>0, <1>2, <2>1, SeenChange DEF suspend_tenant, NextEpoch
<1>3. ASSUME NEW b \in Actors, NEW p \in PolicyIds,
             submit_policy(b, p) \/ \E draft \in Drafts : create_draft(b, p, draft)
      PROVE Goal
  <2>1. \A q \in PolicyIds : \/ policies'[q] = policies[q]
                             \/ policies[q].status # "ACTIVE" /\ policies'[q].status # "ACTIVE"
    BY <1>3, EntryCases DEF submit_policy, create_draft, ControlInv, ControlTypeOK, Policy, None
  <2>2. ContentInForce' = ContentInForce
    BY <2>1 DEF ContentInForce, Active
  <2>3. UNCHANGED <<epoch, suspended, revoked, now, receipts>>
    BY <1>3 DEF submit_policy, create_draft
  <2> QED BY <2>2, <2>3, Unseen
<1>4. ASSUME NEW b \in Actors, NEW p \in PolicyIds, approve_policy(b, p) \/ rollback(b, p)
      PROVE Goal
  <2>1. Activate(p) /\ epoch' = epoch + 1 /\ UNCHANGED <<receipts, now>> /\ policies[p] # None
    BY <1>4 DEF approve_policy, rollback, NextEpoch, None
  <2>2. policies'[p].status = "ACTIVE"
    BY <2>1, EntryCases DEF Activate, ControlInv, Policy
  <2>3. ContentInForce' # {}
    BY <2>2 DEF ContentInForce, Active
  <2> QED BY <1>0, <2>1, <2>3, SeenChange
<1>5. ASSUME NEW b \in Actors, NEW t \in Tasks,
             bind_legacy_domain(b, t) \/ \E agent \in Actors : register(b, t, agent)
      PROVE Goal
  <2>1. UNCHANGED <<policies, epoch, suspended, revoked, now, receipts>>
    BY <1>5 DEF bind_legacy_domain, register
  <2>2. ContentInForce' = ContentInForce
    BY <2>1 DEF ContentInForce, Active
  <2> QED BY <2>1, <2>2, Unseen
<1>6. ASSUME NEW b \in Actors, rekey(b) PROVE Goal
  BY <1>6, SeenRotation DEF SeenBy!AuthorityNext
<1>7. ASSUME NEW b \in Actors, Administration(b) PROVE Goal
  BY <1>1, <1>2, <1>3, <1>4, <1>5, <1>6, <1>7 DEF Administration
<1>8. ASSUME NEW b \in Actors, NEW x \in Actions, NEW k \in Keys, evaluate(b, x, k) PROVE Goal
  BY <1>8, SeenEvaluation DEF evaluate
<1>9. ASSUME NEW b \in Actors, NEW x \in Actions, NEW k \in Keys, NEW e \in Audiences,
             NEW n \in Nonces, issue(b, x, k, e, n)
      PROVE Goal
  BY <1>9, SeenEvaluation DEF issue
<1>10. ASSUME NEW b \in Actors, NEW r \in ReviewIds, NEW resolution \in {"ALLOW", "BLOCK"},
              resolve_review(b, r, resolution)
       PROVE Goal
  <2>1. UNCHANGED <<policies, epoch, suspended, revoked, now, receipts>>
    BY <1>10 DEF resolve_review
  <2>2. ContentInForce' = ContentInForce
    BY <2>1 DEF ContentInForce, Active
  <2> QED BY <2>1, <2>2, Unseen
<1>11. ASSUME Tick PROVE Goal
  BY <1>11, SeenTime DEF SeenBy!AuthorityNext
<1> QED BY <1>7, <1>8, <1>9, <1>10, <1>11 DEF ControlNext

\* The control plane implements, for each of its agents, the authority that a
\* client of that agent relies on.
THEOREM AgentsSeeAuthority == ControlSpec => EpochTellsChange
<1>1. ASSUME ControlInit, NEW a \in Agents PROVE SeenBy(a)!AuthorityInit
  <2>1. a \in Actors
    BY DEF Agents
  <2>2. Active = {}
    BY <1>1 DEF ControlInit, Active, None
  <2> QED
    BY <1>1, <2>1, <2>2, ControlConstants DEF SeenBy!AuthorityInit, SeenBy!NoReceipts, SeenBy!NoReceipt, ControlInit,
       SeenReceipt, Retained, None
<1>2. ControlInv /\ ControlInv' /\ OneContent' /\ [ControlNext]_controlVars =>
        [\A a \in Agents : SeenBy(a)!AuthorityNext \/ UNCHANGED SeenBy(a)!authorityVars]_controlVars
  BY SeenStep DEF Agents
<1>3. ControlInit => \A a \in Agents : SeenBy(a)!AuthorityInit
  BY <1>1
<1> QED
  BY <1>2, <1>3, ControlInvariant, ForceIsOne, PTL DEF ControlSpec, EpochTellsChange
=============================================================================
