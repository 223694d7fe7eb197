--------------------------- MODULE AgentAuthority ---------------------------
(***************************************************************************)
(* What one agent credential sees of the authority: the policy in force,    *)
(* the epoch, whether the credential is refused, and the decision receipts  *)
(* of its idempotency keys.                                                 *)
(*                                                                         *)
(* ControlPlane, with its administrators, reviews, tasks and grants, is     *)
(* shown to implement this specification for each of its agents, and        *)
(* PolicyClient is built on it.  Time appears only as what is left of a     *)
(* receipt's lifetime.                                                      *)
(***************************************************************************)
EXTENDS Naturals

CONSTANTS
    Actions,    \* action digests
    Contents,   \* policy contents
    Table,      \* what evaluation decides: content -> action -> decision
    Keys,       \* idempotency keys
    Scope,      \* actions within the credential's allowed_operations
    Lifetime    \* of a receipt

VARIABLES
    inForce,    \* the content of the active policy, if there is one
    epoch, barred, receipts,
    durable     \* the authority's store prunes expired receipts; it never changes

authorityVars == <<inForce, epoch, barred, receipts, durable>>

NoReceipt == [status |-> "none"]
Expired == [status |-> "expired"]
NoReceipts == [k \in Keys |-> NoReceipt]

Decided(x) == IF inForce = {} THEN {"BLOCK"} ELSE {Table[c][x] : c \in inForce}

\* A receipt that answers a repeated request; any other one is a conflict.
Answers(k, x) ==
    /\ receipts[k].status = "receipt"
    /\ receipts[k].action = x /\ receipts[k].epoch = epoch

Evaluate(x, k) ==
    /\ ~barred /\ x \in Scope
    /\ receipts[k] = NoReceipt
    /\ \E d \in Decided(x) :
          receipts' = [receipts EXCEPT ![k] =
              [status |-> "receipt", action |-> x, epoch |-> epoch, decision |-> d, left |-> Lifetime]]
    /\ UNCHANGED <<inForce, epoch, barred, durable>>

\* Approval, rollback, suspension, resumption, revocation: whatever changes what
\* the agent may do advances the epoch, and a policy is never left without a
\* successor.
Change(content, refused) ==
    /\ epoch' = epoch + 1
    /\ inForce' = content /\ barred' = refused
    /\ inForce # {} => content # {}
    /\ UNCHANGED <<receipts, durable>>

\* New signing keys: an epoch that was in use ends, and receipts are dropped.
Rotate ==
    /\ epoch' = IF epoch = 0 THEN 0 ELSE epoch + 1
    /\ receipts' = NoReceipts
    /\ UNCHANGED <<inForce, barred, durable>>

\* The SQLite store forgets an expired receipt, and its key decides anew; in the
\* in-memory service the key is spent.
Aged(r) ==
    IF r.status # "receipt" THEN r
    ELSE IF r.left > 1 THEN [r EXCEPT !.left = @ - 1]
    ELSE IF durable THEN NoReceipt ELSE Expired

Pass ==
    /\ receipts' = [k \in Keys |-> Aged(receipts[k])]
    /\ UNCHANGED <<inForce, epoch, barred, durable>>

AuthorityInit ==
    /\ inForce = {} /\ epoch = 0 /\ barred = FALSE
    /\ receipts = NoReceipts
    /\ durable \in BOOLEAN

AuthorityNext ==
    \/ \E x \in Actions, k \in Keys : Evaluate(x, k)
    \/ \E content \in {{}} \cup {{c} : c \in Contents}, refused \in BOOLEAN : Change(content, refused)
    \/ Rotate
    \/ Pass
=============================================================================
