--------------------------- MODULE TaskAuthority ---------------------------
(***************************************************************************)
(* Strict task authority as operators: check_authority of                   *)
(* src/traceguard/policy/authorization.py under the compiled grants of      *)
(* policy/kernel.py, with the reviewed read adapters of                     *)
(* policy/read_resources.py.                                                *)
(*                                                                         *)
(* A call is a tool with arguments.  The value of an argument is a set of   *)
(* atoms, so that a scalar is a list of one and nothing is the empty list;   *)
(* amounts are integers.  The requested resources of a call are one more     *)
(* field, which belongs to no schema.  A tool whose effect depends on its    *)
(* command stands for one tool per command.                                  *)
(***************************************************************************)
EXTENDS Integers, Sequences, FiniteSets, FiniteSetsExt, Functions

CONSTANTS
    Tools, Fields,
    Available,     \* tools with a schema
    Schema,        \* the fields of its schema
    Required,      \* those it requires
    Effect,        \* the registered effect of a tool
    Harmful,       \* tools the trusted policy prohibits
    Payments,      \* tools whose amount is money
    Selectors,     \* fields of a tool that select objects or destinations
    Optional,      \* fields of a tool that mean nothing when empty
    Attachments,   \* fields of a tool that refer to objects to send along
    ReadResources, \* reviewed read adapters: tool -> fields that select what is read
    ReadDefaults,  \* its implicit resources: tool -> (field -> value)
    Generatable,   \* fields a grant may leave to the model
    Protected,     \* atoms that name protected paths
    NoMaximum

ASSUME AuthorityConstants ==
    /\ Available \subseteq Tools /\ Harmful \subseteq Tools
    /\ Payments \subseteq Tools /\ DOMAIN ReadResources \subseteq Tools
    /\ Effect \in [Tools -> {"read", "mutate", "command", "unknown"}]
    /\ \A map \in {Schema, Required, Selectors, Optional, Attachments, Generatable} :
          map \in [Tools -> SUBSET Fields]
    /\ DOMAIN ReadDefaults = Tools
    /\ NoMaximum \notin Int

Consequential(tool) == Effect[tool] \in {"mutate", "command"}
Actual(call, field) == IF field \in DOMAIN call.args THEN call.args[field] ELSE {}
Arguments(call) == DOMAIN call.args \ {"requested_resources"}
AtomsOf(call) == UNION {call.args[f] : f \in Arguments(call)}
SameCall(a, b) == a.tool = b.tool /\ Restrict(a.args, Arguments(a)) = Restrict(b.args, Arguments(b))
\* Fields that need a scope of their own, and objects sent along with an email.
scoped_fields(call) == Selectors[call.tool] \cap DOMAIN call.args
referenced_objects(call) == {f \in Attachments[call.tool] : Actual(call, f) # {}}
Paths(call) == Actual(call, "path") \cup Actual(call, "file_path")

\* The amount of a call, and whether it is a number that can be paid.
Amount(call) == IF "amount" \in DOMAIN call.args /\ call.args["amount"] # {}
                THEN CHOOSE a \in call.args["amount"] : TRUE ELSE 0
Payable(call) == Cardinality(call.args["amount"]) = 1 /\ Amount(call) >= 0
Paid(prior) == MapThenSumSet(LAMBDA i : IF prior[i].tool \in Payments THEN Amount(prior[i]) ELSE 0,
                             DOMAIN prior)

-----------------------------------------------------------------------------
(* Compilation of a grant *)

FieldsGranted(g, tool) ==
    <<DOMAIN g.argument[tool], DOMAIN g.resource[tool], DOMAIN g.delegated[tool], g.generated[tool]>>

validate_authority(g) ==
    /\ g.tools \subseteq Available /\ g.repeatable \subseteq g.tools
    /\ \A tool \in Tools : LET groups == FieldsGranted(g, tool) IN
          /\ tool \notin g.tools => \A i \in 1..4 : groups[i] = {}
          /\ g.generated[tool] \subseteq Generatable[tool]
          /\ \A i, j \in 1..4 : i # j => groups[i] \cap groups[j] = {}
          /\ \A i \in 1..4 : groups[i] \ {"requested_resources"} \subseteq Schema[tool]

-----------------------------------------------------------------------------
(* Each check returns the set of verdicts it may refuse a call with, empty   *)
(* when it passes; where a loop over fields may refuse for several fields,   *)
(* the order of the fields decides which.                                    *)

If(fails, verdict) == IF fails THEN {verdict} ELSE {}
FirstRefusal(checks) ==
    LET failed == {i \in DOMAIN checks : checks[i] # {}}
    IN IF failed = {} THEN {"ALLOW"} ELSE checks[Min(failed)]

duplicate_mutation(call, prior, g) ==
    /\ call.tool \notin g.repeatable /\ Consequential(call.tool)
    /\ \E i \in DOMAIN prior : SameCall(prior[i], call)

\* The values that the sources named for a field hold for it: one per source.
Candidates(obs, sources, field) ==
    {o \in obs : o.source \in sources /\ field \in DOMAIN o.data}

\* Mutant of DelegationRefusals: any of several candidates will do.
MutDelegation(call, obs, g) ==
    UNION {LET found == Candidates(obs, g.delegated[call.tool][f], f)
           IN If(\A o \in found : Actual(call, f) # o.data[f], "BLOCK") : f \in DOMAIN g.delegated[call.tool]}

DelegationRefusals(call, obs, g) ==
    UNION {LET found == Candidates(obs, g.delegated[call.tool][f], f)
           IN IF Cardinality(found) # 1 THEN {"ESCALATE"}
              ELSE If(\A o \in found : Actual(call, f) # o.data[f], "BLOCK") : f \in DOMAIN g.delegated[call.tool]}

ScopeRefusals(call, g) ==
    LET granted == g.resource[call.tool]
        fields == (scoped_fields(call) \cup DOMAIN granted)
                  \ (DOMAIN g.argument[call.tool] \cup DOMAIN g.delegated[call.tool])
    IN UNION {IF f \notin DOMAIN granted THEN {"ESCALATE"}
              ELSE If(Actual(call, f) = {} \/ ~(Actual(call, f) \subseteq granted[f]), "BLOCK") : f \in fields}

Unresolved(call, g) ==
    /\ call.tool \in Payments
    /\ \/ Actual(call, "amount") = {}
       \/ /\ g.maximum = NoMaximum
          /\ "amount" \notin DOMAIN g.argument[call.tool] \cup DOMAIN g.delegated[call.tool]

ungranted_fields(call, g) ==
    LET explicit == (UNION {FieldsGranted(g, call.tool)[i] : i \in 1..4})
                    \cup (IF g.maximum # NoMaximum /\ call.tool \in Payments THEN {"amount"} ELSE {})
        empty == {f \in Optional[call.tool] : Actual(call, f) = {}}
        fields == (IF Consequential(call.tool) THEN Arguments(call) ELSE {})
                  \cup {f \in {"requested_resources"} : Actual(call, f) # {}}
    IN (fields \ empty) \ explicit

\* check_authority in its order.  The check of the grant itself is left out, since
\* a grant that compiled passes it, and so is the refusal of a malformed email
\* address, which only takes calls away.
Checks(call, obs, g, prior) == <<
    If(duplicate_mutation(call, prior, g), "BLOCK"),
    If(Effect[call.tool] = "unknown", "ESCALATE"),
    If(call.tool \in Harmful, "BLOCK"),
    If(call.tool \notin g.tools, "BLOCK"),
    If(\E f \in DOMAIN g.argument[call.tool] : Actual(call, f) # g.argument[call.tool][f], "BLOCK"),
    DelegationRefusals(call, obs, g),
    ScopeRefusals(call, g),
    If(call.tool \in Payments /\ Actual(call, "amount") # {} /\ ~Payable(call), "BLOCK"),
    If(/\ g.maximum # NoMaximum /\ "amount" \in DOMAIN call.args
       /\ ~Payable(call) \/ Paid(prior) + Amount(call) > g.maximum, "BLOCK"),
    If(AtomsOf(call) \cap g.prohibited # {}, "BLOCK"),
    If(~(referenced_objects(call) \subseteq DOMAIN g.argument[call.tool] \cup DOMAIN g.delegated[call.tool]),
       "ESCALATE"),
    If(Paths(call) \cap Protected # {}, "BLOCK"),
    If(ungranted_fields(call, g) # {} \/ Unresolved(call, g), "ESCALATE") >>

check_authority(call, obs, g, prior) == FirstRefusal(Checks(call, obs, g, prior))

-----------------------------------------------------------------------------
(* CompiledAuthority.evaluate and .normalize_read *)

\* _validate_arguments_against_json_schema
WellFormed(call) == Required[call.tool] \subseteq Arguments(call) /\ Arguments(call) \subseteq Schema[call.tool]

\* scoped_read_call: implicit resources become explicit before they are checked.
normalize_read(call) ==
    LET implicit == ReadDefaults[call.tool]
    IN IF Effect[call.tool] # "read" THEN call
       ELSE [call EXCEPT !.args = [f \in DOMAIN @ \cup DOMAIN implicit |->
                IF f \notin DOMAIN @ THEN implicit[f]
                ELSE IF f = "requested_resources" /\ f \in DOMAIN implicit THEN @[f] \cup implicit[f]
                ELSE @[f]]]

\* What the compiled grant may say of a call, after the calls `prior`.
Compiled(call, obs, g, prior) ==
    LET read == Effect[call.tool] = "read"
        scoped == normalize_read(call)
    IN FirstRefusal(<<
           If(call.tool \notin Available, "ESCALATE"),
           If(~WellFormed(call), "ESCALATE"),
           If(read /\ (call.tool \notin DOMAIN ReadResources
                       \/ \E f \in ReadResources[call.tool] : Actual(scoped, f) = {}), "ESCALATE")>>
           \o Checks(scoped, obs, g, prior))

-----------------------------------------------------------------------------
(* What a grant means, said once for all fields and without an order: the    *)
(* reference the checks are compared with.                                   *)

Fixed(call, obs, g, f) ==
    LET value == Actual(call, f) IN
    \/ f \in DOMAIN g.argument[call.tool] /\ value = g.argument[call.tool][f]
    \/ /\ f \in DOMAIN g.delegated[call.tool]
       /\ {o.data[f] : o \in Candidates(obs, g.delegated[call.tool][f], f)} = {value}
    \/ f \in DOMAIN g.resource[call.tool] /\ value # {} /\ value \subseteq g.resource[call.tool][f]

Governed(call, obs, g, f) ==
    LET value == Actual(call, f) IN
    \/ Fixed(call, obs, g, f) \/ f \in g.generated[call.tool]
    \/ /\ f = "amount" /\ call.tool \in Payments /\ g.maximum # NoMaximum
       /\ \E a \in 0..g.maximum : value = {a}
    \/ value = {} /\ f \in Optional[call.tool] \cup {"requested_resources"}

Granted(call, obs, g) ==
    /\ call.tool \in g.tools \ Harmful /\ Effect[call.tool] # "unknown"
    /\ \A f \in DOMAIN call.args :
          Consequential(call.tool) \/ f \in Selectors[call.tool] => Governed(call, obs, g, f)
    /\ \A f \in DOMAIN g.argument[call.tool] \cup DOMAIN g.delegated[call.tool]
                \cup DOMAIN g.resource[call.tool] : Fixed(call, obs, g, f)
    /\ AtomsOf(call) \cap g.prohibited = {} /\ Paths(call) \cap Protected = {}
=============================================================================
