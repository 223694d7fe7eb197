----------------------- MODULE InspectExecutorProofs -----------------------
(***************************************************************************)
(* Proofs about the Inspect executor for any number of processes,           *)
(* coroutines, native ids and calls, and for every grant: what the compiled *)
(* grant allows is what the grant means, and only that is run, once, within *)
(* the grant's maximum and on record.                                       *)
(***************************************************************************)
EXTENDS InspectExecutor, ExecutionLedgerProofs, SequenceTheorems

-----------------------------------------------------------------------------
(* The compiled grant.  The checks of check_authority are listed in their    *)
(* order; a call passes when none of them has a verdict.                     *)

Refused == {"BLOCK", "ESCALATE"}

LEMMA FirstRefusalPasses ==
    ASSUME NEW checks \in Seq(SUBSET Refused), FirstRefusal(checks) = {"ALLOW"}
    PROVE  \A i \in 1..Len(checks) : checks[i] = {}
<1> DEFINE failed == {i \in DOMAIN checks : checks[i] # {}}
<1>1. DOMAIN checks = 1..Len(checks) /\ Len(checks) \in Nat /\ \A i \in 1..Len(checks) : checks[i] \in SUBSET Refused
  OBVIOUS
<1>2. failed \in SUBSET Nat
  BY <1>1
<1>3. CASE failed # {}
  <2>1. \E x \in failed : \A y \in failed : x <= y
    <3> HIDE DEF failed
    <3> QED BY <1>2, <1>3, LeastNatural
  <2>2. Min(failed) \in failed
    BY <2>1 DEF Min
  <2>3. checks[Min(failed)] = {"ALLOW"}
    BY <1>3 DEF FirstRefusal
  <2>4. checks[Min(failed)] \in SUBSET Refused
    BY <1>1, <2>2
  <2> QED BY <2>3, <2>4 DEF Refused
<1> QED BY <1>1, <1>3

\* Tuples of three and of thirteen checks.
LEMMA Triple ==
    ASSUME NEW S, NEW e1 \in S, NEW e2 \in S, NEW e3 \in S
    PROVE  <<e1, e2, e3>> \in Seq(S) /\ Len(<<e1, e2, e3>>) = 3
OBVIOUS

LEMMA Thirteen ==
    ASSUME NEW S, NEW e1 \in S, NEW e2 \in S, NEW e3 \in S, NEW e4 \in S, NEW e5 \in S, NEW e6 \in S,
           NEW e7 \in S, NEW e8 \in S, NEW e9 \in S, NEW e10 \in S, NEW e11 \in S, NEW e12 \in S, NEW e13 \in S
    PROVE  LET e == <<e1, e2, e3, e4, e5, e6, e7, e8, e9, e10, e11, e12, e13>>
           IN /\ e \in Seq(S) /\ Len(e) = 13
              /\ e[2] = e2 /\ e[3] = e3 /\ e[4] = e4 /\ e[5] = e5 /\ e[6] = e6 /\ e[7] = e7
              /\ e[8] = e8 /\ e[9] = e9 /\ e[10] = e10 /\ e[12] = e12 /\ e[13] = e13
OBVIOUS

LEMMA Behind ==
    ASSUME NEW a, NEW b, NEW c, NEW m, NEW n, m = 3, n = 13,
           \A i \in 1..(m + n) : c[i] = IF i <= m THEN a[i] ELSE b[i - m]
    PROVE  \A i \in 1..13 : c[i + 3] = b[i]
<1> SUFFICES ASSUME NEW i \in 1..13 PROVE c[i + 3] = b[i]
  OBVIOUS
<1>1. PICK j \in 1..(m + n) : j = i + 3
  OBVIOUS
<1>2. c[j] = IF j <= m THEN a[j] ELSE b[j - m]
  OBVIOUS
<1>3. ~(j <= m) /\ j - m = i
  BY <1>1
<1> QED BY <1>1, <1>2, <1>3

\* A call the compiled grant allows has passed every check.
LEMMA CompiledPasses ==
    ASSUME NEW call, NEW obs, NEW g, NEW prior, NEW scoped, scoped = normalize_read(call),
           Compiled(call, obs, g, prior) = {"ALLOW"}
    PROVE  /\ Effect[scoped.tool] # "unknown"
           /\ scoped.tool \notin Harmful
           /\ scoped.tool \in g.tools
           /\ \A f \in DOMAIN g.argument[scoped.tool] : Actual(scoped, f) = g.argument[scoped.tool][f]
           /\ DelegationRefusals(scoped, obs, g) = {}
           /\ ScopeRefusals(scoped, g) = {}
           /\ g.maximum # NoMaximum /\ "amount" \in DOMAIN scoped.args =>
                 Payable(scoped) /\ ~(Paid(prior) + Amount(scoped) > g.maximum)
           /\ AtomsOf(scoped) \cap g.prohibited = {}
           /\ Paths(scoped) \cap Protected = {}
           /\ ungranted_fields(scoped, g) = {}
<1> DEFINE a1 == If(call.tool \notin Available, "ESCALATE")
           a2 == If(~WellFormed(call), "ESCALATE")
           a3 == If(/\ Effect[call.tool] = "read"
                    /\ \/ call.tool \notin DOMAIN ReadResources
                       \/ \E f \in ReadResources[call.tool] : Actual(scoped, f) = {}, "ESCALATE")
           e1 == If(duplicate_mutation(scoped, prior, g), "BLOCK")
           e2 == If(Effect[scoped.tool] = "unknown", "ESCALATE")
           e3 == If(scoped.tool \in Harmful, "BLOCK")
           e4 == If(scoped.tool \notin g.tools, "BLOCK")
           e5 == If(\E f \in DOMAIN g.argument[scoped.tool] : Actual(scoped, f) # g.argument[scoped.tool][f], "BLOCK")
           e6 == DelegationRefusals(scoped, obs, g)
           e7 == ScopeRefusals(scoped, g)
           e8 == If(scoped.tool \in Payments /\ Actual(scoped, "amount") # {} /\ ~Payable(scoped), "BLOCK")
           e9 == If(/\ g.maximum # NoMaximum /\ "amount" \in DOMAIN scoped.args
                    /\ ~Payable(scoped) \/ Paid(prior) + Amount(scoped) > g.maximum, "BLOCK")
           e10 == If(AtomsOf(scoped) \cap g.prohibited # {}, "BLOCK")
           e11 == If(~(referenced_objects(scoped)
                          \subseteq DOMAIN g.argument[scoped.tool] \cup DOMAIN g.delegated[scoped.tool]), "ESCALATE")
           e12 == If(Paths(scoped) \cap Protected # {}, "BLOCK")
           e13 == If(ungranted_fields(scoped, g) # {} \/ Unresolved(scoped, g), "ESCALATE")
           a == <<a1, a2, a3>>
           e == <<e1, e2, e3, e4, e5, e6, e7, e8, e9, e10, e11, e12, e13>>
           S == SUBSET Refused
<1>1. a1 \in S /\ a2 \in S /\ a3 \in S
  BY DEF If, Refused
<1>2. /\ e1 \in S /\ e2 \in S /\ e3 \in S /\ e4 \in S /\ e5 \in S /\ e8 \in S /\ e9 \in S
      /\ e10 \in S /\ e11 \in S /\ e12 \in S /\ e13 \in S
  BY DEF If, Refused
<1>3. e6 \in S
  BY DEF DelegationRefusals, If, Refused
<1>4. e7 \in S
  BY DEF ScopeRefusals, If, Refused
<1>5. FirstRefusal(a \o e) = {"ALLOW"}
  <2>1. Checks(scoped, obs, g, prior) = e
    BY Zenon DEF Checks
  <2>2. Compiled(call, obs, g, prior) = FirstRefusal(a \o Checks(scoped, obs, g, prior))
    BY Zenon DEF Compiled
  <2> QED BY <2>1, <2>2, Zenon
<1>6. /\ e2 = {} => Effect[scoped.tool] # "unknown"
      /\ e3 = {} => scoped.tool \notin Harmful
      /\ e4 = {} => scoped.tool \in g.tools
      /\ e5 = {} => \A f \in DOMAIN g.argument[scoped.tool] : Actual(scoped, f) = g.argument[scoped.tool][f]
      /\ e9 = {} => (g.maximum # NoMaximum /\ "amount" \in DOMAIN scoped.args =>
                        Payable(scoped) /\ ~(Paid(prior) + Amount(scoped) > g.maximum))
      /\ e10 = {} => AtomsOf(scoped) \cap g.prohibited = {}
      /\ e12 = {} => Paths(scoped) \cap Protected = {}
      /\ e13 = {} => ungranted_fields(scoped, g) = {}
  BY DEF If
<1>7. (e6 = {} => DelegationRefusals(scoped, obs, g) = {}) /\ (e7 = {} => ScopeRefusals(scoped, g) = {})
  OBVIOUS
<1> HIDE DEF a1, a2, a3, e1, e2, e3, e4, e5, e6, e7, e8, e9, e10, e11, e12, e13, S
<1>8. a \in Seq(S) /\ Len(a) = 3
  BY <1>1, Triple
<1>9. /\ e \in Seq(S) /\ Len(e) = 13
      /\ e[2] = e2 /\ e[3] = e3 /\ e[4] = e4 /\ e[5] = e5 /\ e[6] = e6 /\ e[7] = e7
      /\ e[9] = e9 /\ e[10] = e10 /\ e[12] = e12 /\ e[13] = e13
  BY <1>2, <1>3, <1>4, Thirteen
<1> HIDE DEF a, e
<1>10. PICK all : all = a \o e
  OBVIOUS
<1>11. all \in Seq(S) /\ Len(all) = 16 /\ \A i \in 1..13 : all[i + 3] = e[i]
  <2>1. PICK sa \in Seq(S), sb \in Seq(S) : sa = a /\ sb = e
    BY <1>8, <1>9
  <2>2. Len(sa) = 3 /\ Len(sb) = 13
    BY <1>8, <1>9, <2>1
  <2>3. all = sa \o sb
    BY <1>10, <2>1
  <2>4. /\ all \in Seq(S) /\ Len(all) = Len(sa) + Len(sb)
        /\ \A i \in 1..(Len(sa) + Len(sb)) : all[i] = IF i <= Len(sa) THEN sa[i] ELSE sb[i - Len(sa)]
    BY <2>3, ConcatProperties
  <2>5. \A i \in 1..13 : all[i + 3] = sb[i]
    BY <2>2, <2>4, Behind
  <2>6. Len(all) = 16
    BY <2>2, <2>4
  <2> QED BY <2>1, <2>4, <2>5, <2>6
<1>12. \A i \in 1..13 : e[i] = {}
  <2>1. \A i \in 1..Len(all) : all[i] = {}
    BY <1>5, <1>10, <1>11, FirstRefusalPasses DEF S
  <2>2. \A i \in 1..13 : i + 3 \in 1..16
    OBVIOUS
  <2> QED BY <1>11, <2>1, <2>2
<1>13. /\ e2 = {} /\ e3 = {} /\ e4 = {} /\ e5 = {} /\ e6 = {} /\ e7 = {}
       /\ e9 = {} /\ e10 = {} /\ e12 = {} /\ e13 = {}
  BY <1>9, <1>12
<1> QED BY <1>6, <1>7, <1>13

\* The executor's check of the current grant counts no earlier payment.
LEMMA NothingPaid == Paid(<<>>) = 0
<1> DEFINE cost(i) == IF <<>>[i].tool \in Payments THEN Amount(<<>>[i]) ELSE 0
           Solves(g) == g = [s \in SUBSET (DOMAIN <<>>) |-> IF s = {} THEN 0 ELSE cost(Pick(s)) + g[s \ {Pick(s)}]]
<1>1. Paid(<<>>) = (CHOOSE g : Solves(g))[DOMAIN <<>>]
  BY Zenon DEF Paid, MapThenSumSet, MapThenFoldSet, Pick
<1>2. DOMAIN <<>> = {} /\ SUBSET {} = {{}}
  OBVIOUS
<1>3. Solves([s \in SUBSET (DOMAIN <<>>) |-> 0])
  BY <1>2
<1>4. Solves(CHOOSE g : Solves(g))
  <2> HIDE DEF Solves
  <2> QED BY <1>3
<1>5. PICK g : Solves(g) /\ Paid(<<>>) = g[DOMAIN <<>>]
  BY <1>1, <1>4
<1>6. g[{}] = 0
  BY <1>2, <1>5
<1> QED BY <1>2, <1>5, <1>6

\* A delegated field holds what the one source that may give it says.
LEMMA DelegatedFixed ==
    ASSUME NEW call, NEW obs, IsFiniteSet(obs), NEW g, DelegationRefusals(call, obs, g) = {},
           NEW f, f \in DOMAIN g.delegated[call.tool]
    PROVE  Fixed(call, obs, g, f)
<1> DEFINE found == Candidates(obs, g.delegated[call.tool][f], f)
<1>1. Cardinality(found) = 1 /\ ~(\A o \in found : Actual(call, f) # o.data[f])
  BY DEF DelegationRefusals, If
<1>2. IsFiniteSet(found)
  BY FS_Subset DEF Candidates
<1> HIDE DEF found
<1>3. PICK x : found = {x}
  BY <1>1, <1>2, FS_Singleton
<1>4. Actual(call, f) = x.data[f]
  BY <1>1, <1>3
<1>5. {o.data[f] : o \in found} = {Actual(call, f)}
  BY <1>3, <1>4
<1> QED BY <1>5 DEF found, Fixed

\* A scoped field is within its scope, unless the grant fixes it otherwise.
LEMMA ScopedFixed ==
    ASSUME NEW call, NEW g, ScopeRefusals(call, g) = {},
           NEW f \in scoped_fields(call) \cup DOMAIN g.resource[call.tool],
           f \notin DOMAIN g.argument[call.tool] \cup DOMAIN g.delegated[call.tool]
    PROVE  /\ f \in DOMAIN g.resource[call.tool] /\ Actual(call, f) # {}
           /\ Actual(call, f) \subseteq g.resource[call.tool][f]
<1> DEFINE granted == g.resource[call.tool]
           fields == (scoped_fields(call) \cup DOMAIN granted)
                     \ (DOMAIN g.argument[call.tool] \cup DOMAIN g.delegated[call.tool])
           refusal(x) == IF x \notin DOMAIN granted THEN {"ESCALATE"}
                         ELSE If(Actual(call, x) = {} \/ ~(Actual(call, x) \subseteq granted[x]), "BLOCK")
<1>1. ScopeRefusals(call, g) = UNION {refusal(x) : x \in fields}
  BY Zenon DEF ScopeRefusals
<1>2. f \in fields
  OBVIOUS
<1>3. refusal(f) = {}
  <2> HIDE DEF refusal, fields
  <2> QED BY <1>1, <1>2
<1> QED BY <1>3 DEF If

\* The fields of the grant's four groups do not overlap.
LEMMA GroupsDisjoint ==
    ASSUME NEW g, validate_authority(g), NEW tool \in Tools
    PROVE  /\ DOMAIN g.argument[tool] \cap DOMAIN g.resource[tool] = {}
           /\ DOMAIN g.delegated[tool] \cap DOMAIN g.resource[tool] = {}
<1>1. \A i, j \in 1..4 : i # j => FieldsGranted(g, tool)[i] \cap FieldsGranted(g, tool)[j] = {}
  BY DEF validate_authority
<1>2. FieldsGranted(g, tool)[1] \cap FieldsGranted(g, tool)[2] = {} /\ FieldsGranted(g, tool)[3] \cap FieldsGranted(g, tool)[2] = {}
  BY <1>1
<1> QED BY <1>2 DEF FieldsGranted

\* Whatever the compiled grant allows is within the grant as it is meant, with its
\* implicit resources made explicit.
LEMMA AllowedIsGranted ==
    ASSUME NEW call \in Calls, NEW obs, IsFiniteSet(obs), NEW g, validate_authority(g),
           g.maximum \in Nat \cup {NoMaximum}, Compiled(call, obs, g, <<>>) = {"ALLOW"}
    PROVE  Granted(normalize_read(call), obs, g)
<1>1. PICK scoped : scoped = normalize_read(call)
  OBVIOUS
<1>2. /\ Effect[scoped.tool] # "unknown" /\ scoped.tool \notin Harmful /\ scoped.tool \in g.tools
      /\ \A f \in DOMAIN g.argument[scoped.tool] : Actual(scoped, f) = g.argument[scoped.tool][f]
      /\ DelegationRefusals(scoped, obs, g) = {} /\ ScopeRefusals(scoped, g) = {}
      /\ g.maximum # NoMaximum /\ "amount" \in DOMAIN scoped.args =>
            Payable(scoped) /\ ~(Paid(<<>>) + Amount(scoped) > g.maximum)
      /\ AtomsOf(scoped) \cap g.prohibited = {} /\ Paths(scoped) \cap Protected = {}
      /\ ungranted_fields(scoped, g) = {}
  BY <1>1, CompiledPasses
<1>3. scoped.tool \in Tools
  BY <1>2, AuthorityConstants DEF validate_authority
<1>4. Consequential(scoped.tool) => scoped = call
  <2>1. CASE Effect[call.tool] = "read"
    <3>1. scoped.tool = call.tool
      <4>1. call = [tool |-> call.tool, args |-> call.args]
        BY SupervisionConstants
      <4>2. PICK r : scoped = [call EXCEPT !.args = r]
        BY <1>1, <2>1 DEF normalize_read
      <4> QED BY <4>1, <4>2
    <3> QED BY <2>1, <3>1 DEF Consequential
  <2>2. CASE Effect[call.tool] # "read"
    BY <1>1, <2>2 DEF normalize_read
  <2> QED BY <2>1, <2>2
<1> DEFINE fixing == DOMAIN g.argument[scoped.tool] \cup DOMAIN g.delegated[scoped.tool] \cup DOMAIN g.resource[scoped.tool]
<1>5. ASSUME NEW f \in fixing PROVE Fixed(scoped, obs, g, f)
  <2>1. CASE f \in DOMAIN g.argument[scoped.tool]
    BY <1>2, <2>1 DEF Fixed
  <2>2. CASE f \in DOMAIN g.delegated[scoped.tool]
    BY <1>2, <2>2, DelegatedFixed
  <2>3. CASE f \in DOMAIN g.resource[scoped.tool]
    <3>1. f \notin DOMAIN g.argument[scoped.tool] \cup DOMAIN g.delegated[scoped.tool]
      BY <1>3, <2>3, GroupsDisjoint
    <3>2. Actual(scoped, f) # {} /\ Actual(scoped, f) \subseteq g.resource[scoped.tool][f]
      BY <1>2, <2>3, <3>1, ScopedFixed
    <3> QED BY <2>3, <3>2 DEF Fixed
  <2> QED BY <2>1, <2>2, <2>3
<1>6. ASSUME NEW f \in DOMAIN scoped.args, f \in Selectors[scoped.tool] PROVE Governed(scoped, obs, g, f)
  <2>1. CASE f \in fixing
    BY <1>5, <2>1 DEF Governed
  <2>2. CASE f \notin fixing
    <3>1. f \in scoped_fields(scoped)
      BY <1>6 DEF scoped_fields
    <3> QED BY <1>2, <2>2, <3>1, ScopedFixed
  <2> QED BY <2>1, <2>2
<1>7. ASSUME NEW f \in DOMAIN scoped.args, Consequential(scoped.tool) PROVE Governed(scoped, obs, g, f)
  <2>1. CASE f \in fixing \cup g.generated[scoped.tool]
    BY <1>5, <2>1 DEF Governed
  <2>2. CASE Actual(scoped, f) = {} /\ f \in Optional[scoped.tool] \cup {"requested_resources"}
    BY <2>2 DEF Governed
  <2>3. CASE f = "amount" /\ scoped.tool \in Payments /\ g.maximum # NoMaximum
    <3>1. Payable(scoped) /\ ~(Amount(scoped) > g.maximum)
      <4>1. Payable(scoped) /\ ~(Paid(<<>>) + Amount(scoped) > g.maximum)
        BY <1>2, <2>3
      <4>2. IsFiniteSet(scoped.args["amount"]) /\ scoped.args["amount"] \subseteq Int
        BY <1>4, <1>7, <2>3, SupervisionConstants DEF Actual
      <4>3. Cardinality(scoped.args["amount"]) = 1
        BY <4>1 DEF Payable
      <4>4. PICK a : scoped.args["amount"] = {a}
        BY <4>2, <4>3, FS_Singleton
      <4>5. Amount(scoped) \in Int
        BY <2>3, <4>2, <4>4 DEF Amount
      <4> QED BY <4>1, <4>5, NothingPaid
    <3>2. IsFiniteSet(scoped.args["amount"]) /\ scoped.args["amount"] \subseteq Int
      BY <1>4, <1>7, <2>3, SupervisionConstants DEF Actual
    <3>3. Cardinality(scoped.args["amount"]) = 1 /\ Amount(scoped) >= 0
      BY <3>1 DEF Payable
    <3>4. PICK a : scoped.args["amount"] = {a}
      BY <3>2, <3>3, FS_Singleton
    <3>5. Amount(scoped) = a /\ a \in Int
      BY <1>7, <2>3, <3>2, <3>4 DEF Amount
    <3>6. a \in 0..g.maximum
      BY <2>3, <3>1, <3>3, <3>5
    <3>7. Actual(scoped, f) = {a}
      BY <2>3, <3>4 DEF Actual
    <3> QED BY <2>3, <3>6, <3>7 DEF Governed
  <2>4. \/ f \in fixing \cup g.generated[scoped.tool]
        \/ Actual(scoped, f) = {} /\ f \in Optional[scoped.tool] \cup {"requested_resources"}
        \/ f = "amount" /\ scoped.tool \in Payments /\ g.maximum # NoMaximum
    <3> DEFINE explicit == (UNION {FieldsGranted(g, scoped.tool)[i] : i \in 1..4})
                           \cup (IF g.maximum # NoMaximum /\ scoped.tool \in Payments THEN {"amount"} ELSE {})
               empty == {x \in Optional[scoped.tool] : Actual(scoped, x) = {}}
               fields == (IF Consequential(scoped.tool) THEN Arguments(scoped) ELSE {})
                         \cup {x \in {"requested_resources"} : Actual(scoped, x) # {}}
    <3>1. (fields \ empty) \ explicit = {}
      BY <1>2 DEF ungranted_fields
    <3>2. f \in fields \/ (f = "requested_resources" /\ Actual(scoped, f) = {})
      BY <1>7 DEF Arguments
    <3>3. \A x \in UNION {FieldsGranted(g, scoped.tool)[i] : i \in 1..4} : x \in fixing \cup g.generated[scoped.tool]
      BY DEF FieldsGranted
    <3>4. CASE f \in explicit
      BY <3>3, <3>4
    <3>5. CASE f \in empty
      BY <3>5
    <3> QED BY <3>1, <3>2, <3>4, <3>5
  <2> QED BY <2>1, <2>2, <2>3, <2>4
<1>8. Granted(scoped, obs, g)
  BY <1>2, <1>5, <1>6, <1>7 DEF Granted
<1> QED BY <1>1, <1>8

-----------------------------------------------------------------------------
(* The executor as a user of the ledger *)

\* What an execute() in progress holds: the content of the row and what the tool
\* will get are one call, which the grant permits.
Job == [pc : {"reserve", "await", "ran", "raised"}, nonce : Nonces, digest : Digests, call : Digests,
        granted : {TRUE}]
Working(c) == runner[c].pc # "idle"

RunnerOK ==
    /\ runner \in [Coroutines -> {Idle} \cup Job]
    /\ \A c \in Coroutines : Working(c) => runner[c].call = runner[c].digest

LEMMA JobOf ==
    ASSUME RunnerOK, NEW c \in Coroutines, Working(c)
    PROVE  /\ runner[c] \in Job
           /\ runner[c].nonce \in Nonces /\ runner[c].digest \in Digests /\ runner[c].call = runner[c].digest
           /\ runner[c].granted = TRUE
<1>1. runner[c] \in Job
  BY DEF RunnerOK, Working, Idle
<1> QED BY <1>1 DEF RunnerOK, Job

\* A step of one coroutine to the next place keeps what it holds.
LEMMA GotoEffect ==
    ASSUME RunnerOK, NEW c \in Coroutines, Working(c), NEW step \in {"reserve", "await", "ran", "raised"}, Goto(c, step)
    PROVE  /\ RunnerOK' /\ runner'[c].pc = step
           /\ runner'[c].nonce = runner[c].nonce /\ runner'[c].digest = runner[c].digest
           /\ \A b \in Coroutines \ {c} : runner'[b] = runner[b]
<1>1. runner[c] \in Job /\ runner[c].call = runner[c].digest
  BY JobOf
<1>2. runner' = [runner EXCEPT ![c] = [runner[c] EXCEPT !.pc = step]]
  BY DEF Goto
<1>3. PICK job : job = [runner[c] EXCEPT !.pc = step]
  OBVIOUS
<1>4. job \in Job /\ job.pc = step /\ job.nonce = runner[c].nonce /\ job.digest = runner[c].digest /\ job.call = runner[c].call
  BY <1>1, <1>3 DEF Job
<1>5. /\ runner'[c] = job /\ \A b \in Coroutines \ {c} : runner'[b] = runner[b]
      /\ runner' \in [Coroutines -> {Idle} \cup Job]
  BY <1>2, <1>3, <1>4 DEF RunnerOK
<1>6. \A b \in Coroutines : Working(b)' => runner'[b].call = runner'[b].digest
  BY <1>1, <1>4, <1>5 DEF RunnerOK, Working
<1> QED BY <1>4, <1>5, <1>6 DEF RunnerOK

LEMMA ReturnEffect ==
    ASSUME RunnerOK, NEW c \in Coroutines, Return(c)
    PROVE  /\ RunnerOK' /\ runner'[c] = Idle
           /\ \A b \in Coroutines \ {c} : runner'[b] = runner[b]
<1>1. runner' \in [Coroutines -> {Idle} \cup Job] /\ runner'[c] = Idle /\ \A b \in Coroutines \ {c} : runner'[b] = runner[b]
  BY DEF RunnerOK, Return
<1>2. \A b \in Coroutines : Working(b)' => runner'[b].call = runner'[b].digest
  BY <1>1 DEF RunnerOK, Working, Idle
<1> QED BY <1>1, <1>2 DEF RunnerOK

LEMMA ReservingEffect ==
    ASSUME RunnerOK, NEW c \in Coroutines, NEW n \in Nonces, NEW call \in Calls, NEW obs \in Histories,
           <<ProcessOf[c], call, obs>> \in Current, NEW d, d = normalize_read(call), Reserving(c, n, d, d, obs)
    PROVE  /\ RunnerOK' /\ runner'[c].pc = "reserve" /\ runner'[c].nonce = n
           /\ \A b \in Coroutines \ {c} : runner'[b] = runner[b]
<1>1. PICK p \in Processes : p = ProcessOf[c]
  BY InspectConstants
<1>2. Granted(d, obs, GrantOf[p])
  <2>1. PICK g : g = GrantOf[p]
    OBVIOUS
  <2>2. validate_authority(g) /\ g.maximum \in Nat \cup {NoMaximum} /\ IsFiniteSet(obs)
    BY <2>1, InspectConstants
  <2>3. Compiled(call, obs, g, <<>>) = {"ALLOW"}
    BY <1>1, <2>1 DEF Current
  <2> QED BY <2>1, <2>2, <2>3, AllowedIsGranted
<1>3. d \in Digests
  BY InspectConstants
<1>4. PICK job : job = [pc |-> "reserve", nonce |-> n, digest |-> d, call |-> d, granted |-> TRUE]
  OBVIOUS
<1>5. job \in Job /\ job.pc = "reserve" /\ job.nonce = n /\ job.call = job.digest
  BY <1>3, <1>4 DEF Job
<1>6. runner' = [runner EXCEPT ![c] = job]
  <2>1. Granted(d, obs, GrantOf[ProcessOf[c]]) = TRUE
    BY <1>1, <1>2 DEF Granted
  <2> QED BY <1>4, <2>1 DEF Reserving
<1>7. runner' \in [Coroutines -> {Idle} \cup Job] /\ runner'[c] = job /\ \A b \in Coroutines \ {c} : runner'[b] = runner[b]
  BY <1>5, <1>6 DEF RunnerOK
<1>8. \A b \in Coroutines : Working(b)' => runner'[b].call = runner'[b].digest
  BY <1>5, <1>7 DEF RunnerOK, Working
<1> QED BY <1>5, <1>7, <1>8 DEF RunnerOK

\* The three outcomes of the reservation are operations of the ledger.
LEMMA ReserveArguments ==
    ASSUME RunnerOK, NEW c \in Coroutines, Working(c)
    PROVE  /\ ProcessOf[c] \in Processes /\ ScopeOf[ProcessOf[c]] \in Scopes
           /\ ResultPolicyOf[ProcessOf[c]] \in Policies
           /\ runner[c].nonce \in Nonces /\ runner[c].nonce \in Keys /\ runner[c].digest \in Digests
<1>1. ProcessOf[c] \in Processes
  BY InspectConstants
<1>2. ScopeOf[ProcessOf[c]] \in Scopes /\ ResultPolicyOf[ProcessOf[c]] \in Policies /\ Keys = Nonces
  BY <1>1, InspectConstants
<1> QED BY <1>1, <1>2, JobOf

\* Each action is one ledger operation, or none.
LEMMA InspectStepIsLedgerStep ==
    ASSUME RunnerOK, [InspectNext]_inspectVars
    PROVE  [LedgerNext]_ledgerVars
<1>1. CASE UNCHANGED ledgerVars
  BY <1>1
<1>2. ASSUME NEW c \in Coroutines, Reserve(c) PROVE LedgerNext
  <2>1. PICK n \in Nonces, s \in Scopes, k \in Keys, d \in Digests, q \in Policies :
           /\ n = runner[c].nonce /\ s = ScopeOf[ProcessOf[c]] /\ k = runner[c].nonce
           /\ d = runner[c].digest /\ q = ResultPolicyOf[ProcessOf[c]]
    BY <1>2, ReserveArguments DEF Reserve, At, Working
  <2>2. reserve(n, s, k, d, q)
    BY <1>2, <2>1 DEF Reserve, reserve
  <2> QED BY <2>2 DEF LedgerNext
<1>3. ASSUME NEW c \in Coroutines, Doubt(c) PROVE LedgerNext
  <2>1. PICK n \in Nonces : n = runner[c].nonce
    BY <1>3, JobOf DEF Doubt, At, Working
  <2>2. finish(n, "unknown", FALSE, "review_required")
    BY <1>3, <2>1 DEF Doubt
  <2>3. "unknown" \in Statuses \ {"pending"} /\ FALSE \in BOOLEAN /\ "review_required" \in Dispositions
    BY DEF Statuses, Dispositions
  <2> QED BY <2>2, <2>3 DEF LedgerNext
<1>4. ASSUME NEW c \in Coroutines, RecordResult(c) PROVE LedgerNext
  <2>1. PICK n \in Nonces : n = runner[c].nonce
    BY <1>4, JobOf DEF RecordResult, At, Working
  <2>2. finish(n, "succeeded", TRUE, "accepted_for_agent")
    BY <1>4, <2>1 DEF RecordResult
  <2>3. "succeeded" \in Statuses \ {"pending"} /\ TRUE \in BOOLEAN /\ "accepted_for_agent" \in Dispositions
    BY DEF Statuses, Dispositions
  <2> QED BY <2>2, <2>3 DEF LedgerNext
<1>5. ASSUME NEW n \in Nonces, NEW accept \in BOOLEAN, NEW fenced \in BOOLEAN, Reconcile(n, accept, fenced)
      PROVE  LedgerNext
  <2>1. PICK st \in {"succeeded", "not_dispatched"}, di \in Dispositions \ {"pending_review"} :
           reconcile(n, st, accept, di, fenced)
    BY <1>5 DEF Reconcile, Dispositions
  <2> QED BY <2>1 DEF LedgerNext
<1>6. ASSUME NEW c \in Coroutines, NEW n \in Nonces, NEW call \in Calls, NEW obs \in Histories, Propose(c, n, call, obs)
      PROVE  UNCHANGED ledgerVars
  BY <1>6 DEF Propose
<1>7. ASSUME NEW c \in Coroutines, Run(c) PROVE UNCHANGED ledgerVars
  BY <1>7 DEF Run
<1>8. ASSUME NEW p \in Processes, NEW call \in Calls, NEW obs \in Histories, Approve(p, call, obs)
      PROVE  UNCHANGED ledgerVars
  BY <1>8 DEF Approve
<1>9. ASSUME NEW p \in Processes, Restart(p) PROVE UNCHANGED ledgerVars
  BY <1>9 DEF Restart
<1>10. CASE UNCHANGED inspectVars
  BY <1>10 DEF inspectVars, ledgerVars
<1> QED
  BY <1>1, <1>2, <1>3, <1>4, <1>5, <1>6, <1>7, <1>8, <1>9, <1>10 DEF InspectNext

\* The runner keeps its shape.
LEMMA RunnerStep ==
    ASSUME RunnerOK, [InspectNext]_inspectVars
    PROVE  RunnerOK'
<1>1. CASE UNCHANGED runner
  BY <1>1 DEF RunnerOK, Working
<1>2. ASSUME NEW c \in Coroutines, NEW n \in Nonces, NEW call \in Calls, NEW obs \in Histories, Propose(c, n, call, obs)
      PROVE  RunnerOK'
  <2>1. PICK d : d = normalize_read(call)
    OBVIOUS
  <2>2. <<ProcessOf[c], call, obs>> \in Current /\ (Reserving(c, n, d, d, obs) \/ UNCHANGED runner)
    BY <1>2, <2>1 DEF Propose
  <2> QED BY <1>1, <2>1, <2>2, ReservingEffect
<1>3. ASSUME NEW c \in Coroutines, Reserve(c) PROVE RunnerOK'
  <2>1. Working(c) /\ (Goto(c, "await") \/ Return(c))
    BY <1>3 DEF Reserve, At, Working
  <2> QED BY <2>1, GotoEffect, ReturnEffect
<1>4. ASSUME NEW c \in Coroutines, Run(c) PROVE RunnerOK'
  <2>1. Working(c) /\ (Goto(c, "ran") \/ Goto(c, "raised"))
    BY <1>4 DEF Run, At, Working
  <2> QED BY <2>1, GotoEffect
<1>5. ASSUME NEW c \in Coroutines, Doubt(c) \/ RecordResult(c) PROVE RunnerOK'
  <2>1. Return(c)
    BY <1>5 DEF Doubt, RecordResult
  <2> QED BY <2>1, ReturnEffect
<1>6. ASSUME NEW p \in Processes, Restart(p) PROVE RunnerOK'
  <2>1. runner' = [c \in Coroutines |-> IF ProcessOf[c] = p THEN Idle ELSE runner[c]]
    BY <1>6 DEF Restart
  <2>2. \A c \in Coroutines : runner'[c] = Idle \/ runner'[c] = runner[c]
    BY <2>1
  <2>3. runner' \in [Coroutines -> {Idle} \cup Job]
    BY <2>1 DEF RunnerOK
  <2>4. \A c \in Coroutines : Working(c)' => runner'[c].call = runner'[c].digest
    BY <2>2 DEF RunnerOK, Working, Idle
  <2> QED BY <2>3, <2>4 DEF RunnerOK
<1>7. ASSUME NEW p \in Processes, NEW call \in Calls, NEW obs \in Histories, Approve(p, call, obs) PROVE UNCHANGED runner
  BY <1>7 DEF Approve
<1>8. ASSUME NEW n \in Nonces, NEW accept \in BOOLEAN, NEW fenced \in BOOLEAN, Reconcile(n, accept, fenced)
      PROVE  UNCHANGED runner
  BY <1>8 DEF Reconcile
<1>9. CASE UNCHANGED inspectVars
  BY <1>1, <1>9 DEF inspectVars
<1> QED
  BY <1>1, <1>2, <1>3, <1>4, <1>5, <1>6, <1>7, <1>8, <1>9 DEF InspectNext

\* The executor is a caller of the ledger like any other: what is proved of every
\* caller holds of it.
THEOREM InspectUsesLedger == InspectSpec => LedgerSpec /\ []RunnerOK
<1>1. InspectInit => LedgerInit /\ RunnerOK
  BY DEF InspectInit, RunnerOK, Working, Idle
<1>2. RunnerOK /\ [InspectNext]_inspectVars => RunnerOK' /\ [LedgerNext]_ledgerVars
  BY RunnerStep, InspectStepIsLedgerStep
<1> QED
  BY <1>1, <1>2, PTL DEF InspectSpec, LedgerSpec

-----------------------------------------------------------------------------
(* Reservations, runs and receipts *)

Owning(c) == runner[c].pc \in {"await", "ran", "raised"}
HasRun(n) == \E r \in DOMAIN runs : r.nonce = n

\* From reservation to finish the coroutine has a pending row to itself.
OwnsRow ==
    \A c \in Coroutines : Owning(c) =>
        /\ Status(runner[c].nonce) = "pending"
        /\ executions[runner[c].nonce].digest = runner[c].digest
        /\ executions[runner[c].nonce].scope = ScopeOf[ProcessOf[c]]
OwnsAlone ==
    \A b, c \in Coroutines : Owning(b) /\ Owning(c) /\ runner[b].nonce = runner[c].nonce => b = c

\* Nothing ran before the tool is awaited, and a result to record is one of a run.
RunsInOrder ==
    \A c \in Coroutines : /\ At(c, "await") => ~HasRun(runner[c].nonce)
                          /\ At(c, "ran") => HasRun(runner[c].nonce)

\* Whatever ran did so once, within its grant, as the content of a row that stands.
OnRecord(r) ==
    /\ r.nonce \in Nonces /\ Live(r.nonce)
    /\ r.call = executions[r.nonce].digest /\ r.task = TaskOf[executions[r.nonce].scope]
    /\ r.granted = TRUE /\ runs[r] = 1
RunsOnRecord ==
    /\ IsFiniteSet(DOMAIN runs)
    /\ \A r \in DOMAIN runs : OnRecord(r)
    /\ \A q, r \in DOMAIN runs : q.nonce = r.nonce => q = r

SucceededRan == \A n \in Nonces : Status(n) = "succeeded" => HasRun(n)

RunInv == OwnsRow /\ OwnsAlone /\ RunsInOrder /\ RunsOnRecord /\ SucceededRan

\* A row whose status and binding are kept keeps what stands on it.
LEMMA KeptRow ==
    ASSUME NEW n \in Nonces, Keeps(n)
    PROVE  /\ Status(n)' = Status(n) /\ Live(n)' = Live(n)
           /\ Present(n) => /\ executions'[n].digest = executions[n].digest
                            /\ executions'[n].scope = executions[n].scope
BY DEF Keeps, Live, Present

\* Steps that run nothing, settle nothing and reserve nothing.
Quiet ==
    /\ runs' = runs /\ \A n \in Nonces : Keeps(n)
    /\ \A c \in Coroutines : Owning(c)' => runner'[c] = runner[c]

\* A step that settles a row, which no coroutine works on any more, as what happened.
Settled(n, st) ==
    /\ runs' = runs /\ Becomes(n, st) /\ \A m \in Nonces \ {n} : Keeps(m)
    /\ \A c \in Coroutines : Owning(c)' => runner'[c] = runner[c] /\ runner[c].nonce # n
    /\ st = "succeeded" => HasRun(n)
    /\ st = "not_dispatched" => ~HasRun(n)
    /\ st \in Statuses /\ Present(n)

LEMMA QuietKeeps ==
    ASSUME RunnerOK, RunInv, Quiet
    PROVE  RunInv'
<1>1. \A n \in Nonces : /\ Status(n)' = Status(n) /\ Live(n)' = Live(n)
                        /\ Present(n) => /\ executions'[n].digest = executions[n].digest
                                         /\ executions'[n].scope = executions[n].scope
  BY KeptRow DEF Quiet
<1>2. \A n : HasRun(n)' <=> HasRun(n)
  BY DEF Quiet, HasRun
<1>3. \A c \in Coroutines : Owning(c)' => Owning(c) /\ runner'[c] = runner[c] /\ runner[c].nonce \in Nonces
  BY JobOf DEF Quiet, Owning, Working
<1>4. OwnsRow'
  BY <1>1, <1>3 DEF RunInv, OwnsRow, Present
<1>5. OwnsAlone'
  BY <1>3 DEF RunInv, OwnsAlone
<1>6. RunsInOrder'
  BY <1>2, <1>3 DEF RunInv, RunsInOrder, At, Owning
<1>7. RunsOnRecord'
  BY <1>1 DEF RunInv, RunsOnRecord, OnRecord, Quiet, Live
<1>8. SucceededRan'
  BY <1>1, <1>2 DEF RunInv, SucceededRan
<1> QED BY <1>4, <1>5, <1>6, <1>7, <1>8 DEF RunInv

LEMMA SettledKeeps ==
    ASSUME RunnerOK, RunInv, NEW n \in Nonces, NEW st, Settled(n, st)
    PROVE  RunInv'
<1>1. \A m \in Nonces : m # n =>
         /\ Status(m)' = Status(m) /\ Live(m)' = Live(m)
         /\ Present(m) => /\ executions'[m].digest = executions[m].digest
                          /\ executions'[m].scope = executions[m].scope
  BY KeptRow DEF Settled
<1>2. \A m : HasRun(m)' <=> HasRun(m)
  BY DEF Settled, HasRun
<1>3. \A c \in Coroutines : Owning(c)' => /\ Owning(c) /\ runner'[c] = runner[c]
                                         /\ runner[c].nonce \in Nonces /\ runner[c].nonce # n
  BY JobOf DEF Settled, Owning, Working
<1>4. OwnsRow'
  BY <1>1, <1>3 DEF RunInv, OwnsRow, Present
<1>5. OwnsAlone'
  BY <1>3 DEF RunInv, OwnsAlone
<1>6. RunsInOrder'
  BY <1>2, <1>3 DEF RunInv, RunsInOrder, At, Owning
<1>7. /\ Status(n)' = st /\ executions'[n].digest = executions[n].digest
      /\ executions'[n].scope = executions[n].scope
  BY DEF Settled, Becomes
<1>8. HasRun(n) => Live(n)'
  BY <1>7 DEF Settled, Live, Present, Statuses
<1>9. ASSUME NEW r \in DOMAIN runs PROVE OnRecord(r)'
  <2>1. OnRecord(r) /\ runs' = runs
    BY DEF RunInv, RunsOnRecord, Settled
  <2>2. CASE r.nonce = n
    BY <1>7, <1>8, <2>1, <2>2 DEF OnRecord, HasRun
  <2>3. CASE r.nonce # n
    BY <1>1, <2>1, <2>3 DEF OnRecord, Live
  <2> QED BY <2>2, <2>3
<1>10. RunsOnRecord'
  BY <1>9 DEF RunInv, RunsOnRecord, Settled
<1>11. SucceededRan'
  BY <1>1, <1>2, <1>7 DEF RunInv, SucceededRan, Settled
<1> QED BY <1>4, <1>5, <1>6, <1>10, <1>11 DEF RunInv

\* A reservation makes its coroutine the only owner of a row that has no run.
LEMMA InsertKeeps ==
    ASSUME TypeOK, RunnerOK, RunInv, NEW c \in Coroutines, Working(c), ~Owning(c),
           NEW n \in Nonces, n = runner[c].nonce, NEW d \in Digests, d = runner[c].digest,
           NEW s \in Scopes, s = ScopeOf[ProcessOf[c]], NEW k \in Keys, NEW q \in Policies,
           ReserveInsert(n, s, k, d, q), Goto(c, "await"), runs' = runs
    PROVE  RunInv'
<1>1. /\ ~Present(n) /\ Status(n)' = "pending" /\ executions'[n].scope = s /\ executions'[n].digest = d
      /\ \A m \in Nonces \ {n} : Keeps(m)
  BY InsertEffect
<1>2. \A m \in Nonces : m # n =>
         /\ Status(m)' = Status(m) /\ Live(m)' = Live(m)
         /\ Present(m) => /\ executions'[m].digest = executions[m].digest
                          /\ executions'[m].scope = executions[m].scope
  BY <1>1, KeptRow
<1>3. /\ runner'[c].pc = "await" /\ runner'[c].nonce = n /\ runner'[c].digest = d
      /\ \A b \in Coroutines \ {c} : runner'[b] = runner[b]
  BY GotoEffect
<1>4. \A m : HasRun(m)' <=> HasRun(m)
  BY DEF HasRun
<1>5. \A b \in Coroutines : Owning(b) => runner[b].nonce \in Nonces /\ runner[b].nonce # n
  BY <1>1, JobOf DEF RunInv, OwnsRow, Owning, Working, Present
<1>6. \A r \in DOMAIN runs : r.nonce # n
  BY <1>1 DEF RunInv, RunsOnRecord, OnRecord, Live
<1>7. \A b \in Coroutines \ {c} : Owning(b)' => Owning(b) /\ runner'[b] = runner[b]
  BY <1>3 DEF Owning
<1>8. OwnsRow'
  <2>1. ASSUME NEW b \in Coroutines, Owning(b)', b # c
        PROVE  /\ Status(runner[b].nonce)' = "pending"
               /\ executions'[runner'[b].nonce].digest = runner'[b].digest
               /\ executions'[runner'[b].nonce].scope = ScopeOf[ProcessOf[b]]
    BY <1>2, <1>5, <1>7, <2>1 DEF RunInv, OwnsRow, Present, Status
  <2> QED BY <1>1, <1>3, <2>1 DEF OwnsRow
<1>9. OwnsAlone'
  BY <1>3, <1>5, <1>7 DEF RunInv, OwnsAlone
<1>10. RunsInOrder'
  BY <1>3, <1>4, <1>6, <1>7 DEF RunInv, RunsInOrder, At, Owning, HasRun
<1>11. RunsOnRecord'
  <2>1. ASSUME NEW r \in DOMAIN runs PROVE OnRecord(r)'
    BY <1>2, <1>6 DEF RunInv, RunsOnRecord, OnRecord, Live
  <2> QED BY <2>1 DEF RunInv, RunsOnRecord
<1>12. SucceededRan'
  BY <1>1, <1>2, <1>4 DEF RunInv, SucceededRan
<1> QED BY <1>8, <1>9, <1>10, <1>11, <1>12 DEF RunInv

\* The native tool runs: once, for the row its coroutine owns.
LEMMA RunKeeps ==
    ASSUME TypeOK, RunnerOK, RunInv, NEW c \in Coroutines, At(c, "await"), UNCHANGED executions,
           NEW step \in {"ran", "raised"}, Goto(c, step), Ran(c) \/ (UNCHANGED runs /\ step = "raised")
    PROVE  RunInv'
<1>1. Working(c) /\ Owning(c)
  BY DEF At, Working, Owning
<1>2. PICK n \in Nonces : n = runner[c].nonce
  BY <1>1, JobOf
<1>3. /\ runner'[c].pc = step /\ runner'[c].nonce = n /\ runner'[c].digest = runner[c].digest
      /\ \A b \in Coroutines \ {c} : runner'[b] = runner[b]
  BY <1>1, <1>2, GotoEffect
<1>4. \A b \in Coroutines : /\ Owning(b)' => Owning(b)
                            /\ runner'[b].nonce = runner[b].nonce /\ runner'[b].digest = runner[b].digest
  BY <1>1, <1>2, <1>3 DEF Owning
<1>5. OwnsRow'
  BY <1>4 DEF RunInv, OwnsRow, Status
<1>6. OwnsAlone'
  BY <1>4 DEF RunInv, OwnsAlone
<1>7. \A b \in Coroutines \ {c} : Owning(b) => runner[b].nonce # n
  BY <1>1, <1>2 DEF RunInv, OwnsAlone
<1>8. ~HasRun(n)
  BY <1>2 DEF RunInv, RunsInOrder
<1>9. CASE UNCHANGED runs /\ step = "raised"
  <2>1. \A m : HasRun(m)' <=> HasRun(m)
    BY <1>9 DEF HasRun
  <2>2. RunsInOrder'
    BY <1>3, <1>9, <2>1 DEF RunInv, RunsInOrder, At
  <2>3. RunsOnRecord'
    BY <1>9 DEF RunInv, RunsOnRecord, OnRecord, Live, Present, Status
  <2>4. SucceededRan'
    BY <2>1 DEF RunInv, SucceededRan, Status
  <2> QED BY <1>5, <1>6, <2>2, <2>3, <2>4 DEF RunInv
<1>10. CASE Ran(c)
  <2>1. PICK new : new = RunOf(c)
    OBVIOUS
  <2>2. /\ new.nonce = n /\ new.call = runner[c].call /\ new.granted = runner[c].granted
        /\ new.task = TaskOf[ScopeOf[ProcessOf[c]]]
    BY <1>2, <2>1 DEF RunOf
  <2>3. /\ Status(n) = "pending" /\ executions[n].digest = runner[c].digest
        /\ executions[n].scope = ScopeOf[ProcessOf[c]]
    BY <1>1, <1>2 DEF RunInv, OwnsRow
  <2>4. runner[c].call = runner[c].digest /\ runner[c].granted = TRUE
    BY <1>1, JobOf
  <2>5. new \notin DOMAIN runs
    BY <1>8, <2>2 DEF HasRun
  <2>6. /\ DOMAIN runs' = DOMAIN runs \cup {new} /\ runs'[new] = 1
        /\ \A r \in DOMAIN runs : runs'[r] = 1
    <3>1. \A r \in DOMAIN runs : runs[r] = 1
      BY DEF RunInv, RunsOnRecord, OnRecord
    <3>2. runs' = [r \in DOMAIN runs \cup {new} |->
                     (IF r \in DOMAIN runs THEN runs[r] ELSE 0) + (IF r \in {new} THEN 1 ELSE 0)]
      BY <1>10, <2>1 DEF Ran, (+), SetToBag
    <3> QED BY <2>5, <3>1, <3>2
  <2>7. \A m : HasRun(m)' <=> (HasRun(m) \/ m = n)
    BY <2>2, <2>6 DEF HasRun
  <2>8. RunsInOrder'
    BY <1>3, <1>7, <2>7 DEF RunInv, RunsInOrder, At, Owning
  <2>9. OnRecord(new)'
    BY <2>2, <2>3, <2>4, <2>6 DEF OnRecord, Live, Present, Status
  <2>10. \A r \in DOMAIN runs : OnRecord(r)'
    BY <2>6 DEF RunInv, RunsOnRecord, OnRecord, Live, Present, Status
  <2>11. \A r \in DOMAIN runs : r.nonce # n
    BY <1>8 DEF HasRun
  <2>12. IsFiniteSet(DOMAIN runs')
    <3>1. PICK D : D = DOMAIN runs
      OBVIOUS
    <3>2. IsFiniteSet(D \cup {new})
      BY <3>1, FS_AddElement DEF RunInv, RunsOnRecord
    <3> QED BY <2>6, <3>1, <3>2
  <2>13. RunsOnRecord'
    <3>1. \A q, r \in DOMAIN runs' : q.nonce = r.nonce => q = r
      BY <2>2, <2>6, <2>11 DEF RunInv, RunsOnRecord
    <3>2. \A r \in DOMAIN runs' : OnRecord(r)'
      BY <2>6, <2>9, <2>10
    <3> QED BY <2>12, <3>1, <3>2 DEF RunsOnRecord
  <2>14. SucceededRan'
    BY <2>7 DEF RunInv, SucceededRan, Status
  <2> QED BY <1>5, <1>6, <2>8, <2>13, <2>14 DEF RunInv
<1> QED BY <1>9, <1>10

\* What the reconciliation knows of a call is whether it has run.
LEMMA RunsOfHasRun ==
    ASSUME NEW n
    PROVE  RunsOf(n) # {} <=> HasRun(n)
BY DEF RunsOf, HasRun, BagToSet

\* Every step reserves, runs, settles truthfully or is quiet.
LEMMA RunStep ==
    ASSUME TypeOK, RunnerOK, RunInv, [InspectNext]_inspectVars
    PROVE  RunInv'
<1>1. ASSUME UNCHANGED <<ledgerVars, runs>>, \A c \in Coroutines : Owning(c)' => runner'[c] = runner[c] PROVE RunInv'
  <2>1. Quiet
    BY <1>1 DEF Quiet, Keeps, Status, ledgerVars
  <2> QED BY <2>1, QuietKeeps
<1>2. ASSUME NEW c \in Coroutines, NEW n \in Nonces, NEW call \in Calls, NEW obs \in Histories, Propose(c, n, call, obs)
      PROVE  RunInv'
  <2>1. PICK d : d = normalize_read(call)
    OBVIOUS
  <2>2. <<ProcessOf[c], call, obs>> \in Current /\ (Reserving(c, n, d, d, obs) \/ UNCHANGED runner)
        /\ UNCHANGED <<ledgerVars, runs>>
    BY <1>2, <2>1 DEF Propose
  <2>3. CASE Reserving(c, n, d, d, obs)
    <3>1. runner'[c].pc = "reserve" /\ \A b \in Coroutines \ {c} : runner'[b] = runner[b]
      BY <2>1, <2>2, <2>3, ReservingEffect
    <3> QED BY <1>1, <2>2, <3>1 DEF Owning
  <2>4. CASE UNCHANGED runner
    BY <1>1, <2>2, <2>4
  <2> QED BY <2>2, <2>3, <2>4
<1>3. ASSUME NEW c \in Coroutines, Reserve(c) PROVE RunInv'
  <2>1. PICK n \in Nonces, s \in Scopes, k \in Keys, d \in Digests, q \in Policies :
           /\ n = runner[c].nonce /\ s = ScopeOf[ProcessOf[c]] /\ k = runner[c].nonce
           /\ d = runner[c].digest /\ q = ResultPolicyOf[ProcessOf[c]]
    BY <1>3, ReserveArguments DEF Reserve, At, Working
  <2>2. Working(c) /\ ~Owning(c) /\ runs' = runs
    BY <1>3 DEF Reserve, At, Working, Owning
  <2>3. CASE ReserveInsert(n, s, k, d, q) /\ Goto(c, "await")
    BY <2>1, <2>2, <2>3, InsertKeeps
  <2>4. CASE (ReserveReplay(n, s, k, d, q) \/ ReserveRefuse(n, s, k, d)) /\ Return(c)
    <3>1. \A m \in Nonces : Keeps(m)
      BY <2>4, ReplayEffect
    <3>2. runner'[c] = Idle /\ \A b \in Coroutines \ {c} : runner'[b] = runner[b]
      BY <2>4, ReturnEffect
    <3>3. Quiet
      BY <2>2, <3>1, <3>2 DEF Quiet, Owning, Idle
    <3> QED BY <3>3, QuietKeeps
  <2> QED BY <1>3, <2>1, <2>3, <2>4 DEF Reserve
<1>4. ASSUME NEW c \in Coroutines, Run(c) PROVE RunInv'
  <2>1. /\ At(c, "await") /\ UNCHANGED executions
        /\ \E step \in {"ran", "raised"} : Goto(c, step) /\ (Ran(c) \/ (UNCHANGED runs /\ step = "raised"))
    BY <1>4 DEF Run, ledgerVars
  <2> QED BY <2>1, RunKeeps
<1>5. ASSUME NEW c \in Coroutines, NEW st \in {"unknown", "succeeded"}, NEW r \in BOOLEAN, NEW di \in Dispositions,
             Owning(c), finish(runner[c].nonce, st, r, di), Return(c), UNCHANGED runs,
             st = "succeeded" => At(c, "ran")
      PROVE  RunInv'
  <2>1. PICK n \in Nonces : n = runner[c].nonce
    BY <1>5, JobOf DEF Owning, Working
  <2>2. Status(n) = "pending" /\ st \in Statuses
    BY <1>5, <2>1 DEF RunInv, OwnsRow, Statuses
  <2>3. Becomes(n, st) /\ \A m \in Nonces \ {n} : Keeps(m)
    BY <1>5, <2>1, <2>2, FinishEffect
  <2>4. runner'[c] = Idle /\ \A b \in Coroutines \ {c} : runner'[b] = runner[b]
    BY <1>5, ReturnEffect
  <2>5. \A b \in Coroutines : Owning(b)' => runner'[b] = runner[b] /\ runner[b].nonce # n
    BY <1>5, <2>1, <2>4 DEF RunInv, OwnsAlone, Owning, Idle
  <2>6. st = "succeeded" => HasRun(n)
    BY <1>5, <2>1 DEF RunInv, RunsInOrder
  <2>7. Settled(n, st)
    BY <1>5, <2>2, <2>3, <2>5, <2>6 DEF Settled, Present
  <2> QED BY <2>7, SettledKeeps
<1>6. ASSUME NEW c \in Coroutines, Doubt(c) PROVE RunInv'
  <2>1. /\ Owning(c) /\ finish(runner[c].nonce, "unknown", FALSE, "review_required")
        /\ Return(c) /\ UNCHANGED runs
    BY <1>6 DEF Doubt, At, Owning
  <2> QED BY <1>5, <2>1 DEF Dispositions
<1>7. ASSUME NEW c \in Coroutines, RecordResult(c) PROVE RunInv'
  <2>1. /\ Owning(c) /\ At(c, "ran") /\ finish(runner[c].nonce, "succeeded", TRUE, "accepted_for_agent")
        /\ Return(c) /\ UNCHANGED runs
    BY <1>7 DEF RecordResult, At, Owning
  <2> QED BY <1>5, <2>1 DEF Dispositions
<1>8. ASSUME NEW n \in Nonces, NEW accept \in BOOLEAN, NEW fenced \in BOOLEAN, Reconcile(n, accept, fenced)
      PROVE  RunInv'
  <2>1. PICK st \in {"succeeded", "not_dispatched"}, di \in Dispositions :
           /\ reconcile(n, st, accept, di, fenced)
           /\ st = "succeeded" <=> RunsOf(n) # {}
    BY <1>8 DEF Reconcile, Dispositions
  <2>2. /\ UNCHANGED <<runner, runs>> /\ Uncertain(n)
        /\ fenced => \A c \in Coroutines : ~Owns(c, n)
    BY <1>8 DEF Reconcile
  <2>3. st \in Statuses /\ Present(n)
    BY <2>2 DEF Statuses, Uncertain, Present
  <2>4. /\ \A m \in Nonces \ {n} : Keeps(m)
        /\ Keeps(n) \/ (Becomes(n, st) /\ (Status(n) = "unknown" \/ (Status(n) = "pending" /\ fenced)))
    BY <2>1, <2>3, ReconcileEffect
  <2>5. CASE Keeps(n)
    <3>1. Quiet
      BY <2>2, <2>4, <2>5 DEF Quiet
    <3> QED BY <3>1, QuietKeeps
  <2>6. CASE Becomes(n, st) /\ (Status(n) = "unknown" \/ (Status(n) = "pending" /\ fenced))
    <3>1. \A c \in Coroutines : Owning(c)' => runner'[c] = runner[c] /\ runner[c].nonce # n
      BY <2>2, <2>6 DEF RunInv, OwnsRow, Owning, Owns
    <3>2. (st = "succeeded" => HasRun(n)) /\ (st = "not_dispatched" => ~HasRun(n))
      BY <2>1, RunsOfHasRun
    <3>3. Settled(n, st)
      BY <2>2, <2>3, <2>4, <2>6, <3>1, <3>2 DEF Settled
    <3> QED BY <3>3, SettledKeeps
  <2> QED BY <2>4, <2>5, <2>6
<1>9. ASSUME NEW p \in Processes, NEW call \in Calls, NEW obs \in Histories, Approve(p, call, obs) PROVE RunInv'
  BY <1>1, <1>9 DEF Approve
<1>10. ASSUME NEW p \in Processes, Restart(p) PROVE RunInv'
  <2>1. \A c \in Coroutines : Owning(c)' => runner'[c] = runner[c]
    BY <1>10 DEF Restart, Owning, Idle
  <2> QED BY <1>1, <1>10, <2>1 DEF Restart
<1>11. CASE UNCHANGED inspectVars
  BY <1>1, <1>11 DEF inspectVars, ledgerVars
<1> QED
  BY <1>2, <1>3, <1>4, <1>6, <1>7, <1>8, <1>9, <1>10, <1>11 DEF InspectNext

InspectInv == TypeOK /\ RunnerOK /\ RunInv

\* The inductive invariant of the executor, for every number of processes and
\* coroutines and through their deaths.
THEOREM InspectInvariant == InspectSpec => []InspectInv
<1>1. InspectInit => InspectInv
  <2> SUFFICES ASSUME InspectInit PROVE InspectInv
    OBVIOUS
  <2>1. TypeOK
    BY DEF InspectInit, LedgerInit, TypeOK
  <2>2. RunnerOK
    BY DEF InspectInit, RunnerOK, Working, Idle
  <2>3. DOMAIN runs = {}
    BY DEF InspectInit, EmptyBag, SetToBag
  <2>4. OwnsRow /\ OwnsAlone /\ RunsInOrder
    BY DEF InspectInit, OwnsRow, OwnsAlone, RunsInOrder, Owning, At, Idle
  <2>5. RunsOnRecord
    BY <2>3, FS_EmptySet DEF RunsOnRecord
  <2>6. SucceededRan
    BY DEF InspectInit, LedgerInit, SucceededRan, Status, NoRow
  <2> QED BY <2>1, <2>2, <2>4, <2>5, <2>6 DEF InspectInv, RunInv
<1>2. InspectInv /\ [InspectNext]_inspectVars => InspectInv'
  <2> SUFFICES ASSUME InspectInv, [InspectNext]_inspectVars PROVE InspectInv'
    OBVIOUS
  <2>1. [LedgerNext]_ledgerVars
    BY InspectStepIsLedgerStep DEF InspectInv
  <2>2. TypeOK'
    BY <2>1, TypeStep DEF InspectInv
  <2> QED BY <2>2, RunnerStep, RunStep DEF InspectInv
<1> QED
  BY <1>1, <1>2, PTL DEF InspectSpec

\* Every native call that runs is within the grant as it is meant, whatever the
\* supervisor and the history say.
THEOREM RunsAreGranted == InspectSpec => []OnlyGrantedRuns
<1>1. InspectInv => OnlyGrantedRuns
  BY DEF InspectInv, RunInv, RunsOnRecord, OnRecord, OnlyGrantedRuns, BagToSet
<1> QED
  BY <1>1, InspectInvariant, PTL

\* Receipts agree with what the native tools did.
THEOREM ReceiptsAreTrue == InspectSpec => []ReceiptsTellWhatRan
<1>1. InspectInv => ReceiptsTellWhatRan
  <2> SUFFICES ASSUME InspectInv, NEW n \in Nonces
               PROVE  /\ Status(n) = "not_dispatched" => RunsOf(n) = {}
                      /\ Status(n) = "succeeded" => RunsOf(n) = {executions[n].digest}
                      /\ RunsOf(n) # {} => Live(n)
    BY DEF ReceiptsTellWhatRan
  <2>1. \A r \in DOMAIN runs : r.nonce = n => Live(n) /\ r.call = executions[n].digest
    BY DEF InspectInv, RunInv, RunsOnRecord, OnRecord
  <2>2. RunsOf(n) # {} => Live(n)
    BY <2>1, RunsOfHasRun DEF HasRun
  <2>3. \A x \in RunsOf(n) : x = executions[n].digest
    BY <2>1 DEF RunsOf, BagToSet
  <2>4. Status(n) = "succeeded" => RunsOf(n) # {}
    BY RunsOfHasRun DEF InspectInv, RunInv, SucceededRan
  <2> QED BY <2>2, <2>3, <2>4 DEF Live
<1> QED
  BY <1>1, InspectInvariant, PTL

\* One native id leads to one run, and a content that is not repeatable to one in
\* its task: a run stands on a live row, and the ledger keeps one such row.
THEOREM NativeCallsRunOnce == InspectSpec => []NativeCallRunsOnce
<1>1. InspectInv /\ EffectReservedOnce => NativeCallRunsOnce
  <2> SUFFICES ASSUME InspectInv, EffectReservedOnce PROVE NativeCallRunsOnce
    OBVIOUS
  <2>1. \A r \in DOMAIN runs : OnRecord(r)
    BY DEF InspectInv, RunInv, RunsOnRecord
  <2>2. \A r \in DOMAIN runs : EffectAt(r.nonce) = r.call
    <3>1. SUFFICES ASSUME NEW r \in DOMAIN runs PROVE EffectAt(r.nonce) = r.call
      OBVIOUS
    <3>2. executions[r.nonce].digest \in Digests
      BY <2>1, RowCases DEF InspectInv, OnRecord, Live, Row
    <3> QED BY <2>1, <3>2, InspectConstants DEF OnRecord, EffectAt
  <2>3. ASSUME NEW q \in DOMAIN runs, NEW r \in DOMAIN runs,
               q.call = r.call, q.task = r.task, r.call \notin Repeatable
        PROVE  q.nonce = r.nonce
    BY <2>1, <2>2, <2>3 DEF EffectReservedOnce, OnRecord
  <2>4. \A q, r \in DOMAIN runs : q.nonce = r.nonce => q = r
    BY DEF InspectInv, RunInv, RunsOnRecord
  <2> QED BY <2>1, <2>3, <2>4 DEF NativeCallRunsOnce, OnRecord, BagToSet
<1>2. InspectSpec => []EffectReservedOnce
  BY InspectUsesLedger, ReservedOnce, PTL
<1> QED
  BY <1>1, <1>2, InspectInvariant, PTL

\* What was really paid in a task stays within the maximum of the grant: each run
\* is the content of a live row of its own, and the ledger bounds what these cost.
THEOREM PaymentsBounded == InspectSpec => []PaymentsWithinGrant
<1>1. InspectInv /\ SpentWithinBudget => PaymentsWithinGrant
  <2> SUFFICES ASSUME InspectInv, SpentWithinBudget, NEW p \in Processes, GrantOf[p].maximum # NoMaximum
               PROVE  Total([r \in {q \in BagToSet(runs) : q.task = TaskOf[ScopeOf[p]]}
                             |-> Cost(r.call) * runs[r]]) <= GrantOf[p].maximum
    BY DEF PaymentsWithinGrant
  <2>1. PICK t : t = TaskOf[ScopeOf[p]]
    OBVIOUS
  <2>2. t \in Tasks /\ Limit[t] = GrantOf[p].maximum /\ GrantOf[p].maximum \in Nat
    BY <2>1, InspectConstants, LedgerConstants
  <2>3. Limit[t] # NoLimit
    BY <2>2, LedgerConstants
  <2>4. PICK R, v : /\ R = {q \in BagToSet(runs) : q.task = t}
                    /\ v = [r \in R |-> Cost(r.call) * runs[r]]
    OBVIOUS
  <2>5. PICK S, w : S = LiveIn(t) /\ w = Costs(t)
    OBVIOUS
  <2>6. IsFiniteSet(S) /\ w \in [S -> Nat] /\ Spent(t) = Total(w)
    BY <2>2, <2>5, CostsAre DEF InspectInv
  <2>7. \A r \in R : r \in DOMAIN runs /\ OnRecord(r) /\ r.task = t
    BY <2>4 DEF InspectInv, RunInv, RunsOnRecord, BagToSet
  <2>8. IsFiniteSet(R)
    <3>1. PICK D : D = DOMAIN runs
      OBVIOUS
    <3>2. IsFiniteSet(D) /\ R \in SUBSET D
      BY <2>7, <3>1 DEF InspectInv, RunInv, RunsOnRecord
    <3> QED BY <3>2, FS_Subset
  <2>9. PICK f : f = [r \in R |-> r.nonce]
    OBVIOUS
  <2>10. \A r \in R : r.nonce \in S
    BY <2>5, <2>7 DEF OnRecord, LiveIn, InTask, Live
  <2>11. ASSUME NEW r \in R PROVE v[r] = w[f[r]] /\ v[r] \in Nat
    <3>1. r.nonce \in Nonces /\ Present(r.nonce) /\ r.call = executions[r.nonce].digest /\ runs[r] = 1
      BY <2>7 DEF OnRecord, Live
    <3>2. r.call \in Digests
      BY <3>1, RowCases DEF InspectInv, Row
    <3>3. EffectOf[r.call] = r.call /\ AmountOf[r.call] = Cost(r.call)
      BY <3>2, InspectConstants
    <3>4. w[r.nonce] = AmountOf[EffectAt(r.nonce)] /\ w[r.nonce] \in Nat
      BY <2>5, <2>6, <2>10 DEF Costs
    <3>5. w[r.nonce] = Cost(r.call)
      BY <3>1, <3>3, <3>4 DEF EffectAt
    <3>6. v[r] = Cost(r.call) * 1
      BY <2>4, <3>1
    <3>7. PICK a \in Nat : a = Cost(r.call)
      BY <3>4, <3>5
    <3>8. a * 1 = a
      OBVIOUS
    <3> QED BY <2>9, <3>4, <3>5, <3>6, <3>7, <3>8
  <2>12. v \in [R -> Nat]
    BY <2>4, <2>11
  <2>13. f \in [R -> S]
    BY <2>9, <2>10
  <2>14. \A x, y \in R : f[x] = f[y] => x = y
    BY <2>7, <2>9 DEF InspectInv, RunInv, RunsOnRecord
  <2>15. Total(v) <= Total(w)
    BY <2>6, <2>8, <2>11, <2>12, <2>13, <2>14, TotalInjected
  <2>16. Spent(t) <= Limit[t]
    BY <2>2, <2>3 DEF SpentWithinBudget
  <2>17. Total(v) \in Nat /\ Total(w) \in Nat
    BY <2>6, <2>8, <2>12, TotalType
  <2>18. Total(v) <= GrantOf[p].maximum
    BY <2>2, <2>6, <2>15, <2>16, <2>17
  <2> QED BY <2>1, <2>4, <2>18
<1>2. InspectSpec => []SpentWithinBudget
  BY InspectUsesLedger, BudgetHolds, PTL
<1> QED
  BY <1>1, <1>2, InspectInvariant, PTL

-----------------------------------------------------------------------------
(* Escalation *)

GatewayOK == gateway \in [Processes -> [history : Seq(Digests), escalated : BOOLEAN]]

\* A coroutine about to reserve found its process not escalated, or its id in the
\* ledger already.
AskedFirst ==
    \A c \in Coroutines : At(c, "reserve") /\ gateway[ProcessOf[c]].escalated => Present(runner[c].nonce)

\* Only the answer of an evaluation escalates a process, and only while none of its
\* coroutines is about to reserve.
LEMMA NoteEffect ==
    ASSUME GatewayOK, NEW p \in Processes, NEW decision, Note(p, decision)
    PROVE  /\ GatewayOK' /\ \A q \in Processes \ {p} : gateway'[q] = gateway[q]
           /\ gateway'[p].escalated = (gateway[p].escalated \/ decision = "ESCALATE")
<1>1. PICK e \in BOOLEAN : e = (gateway[p].escalated \/ decision = "ESCALATE")
  BY Zenon
<1>2. gateway' = [gateway EXCEPT ![p] = [gateway[p] EXCEPT !.escalated = e]]
  BY <1>1 DEF Note
<1> QED BY <1>1, <1>2 DEF GatewayOK

\* An escalated gateway answers every call with ESCALATE.
LEMMA EscalatedAnswers ==
    ASSUME NEW call, NEW obs, NEW gw, gw.escalated, NEW out \in evaluate(call, obs, gw)
    PROVE  out.decision = "ESCALATE"
BY DEF evaluate, Decided

LEMMA EscalationStep ==
    ASSUME InspectInv, GatewayOK, AskedFirst, [InspectNext]_inspectVars
    PROVE  GatewayOK' /\ AskedFirst'
<1> USE DEF InspectInv
<1>1. \A n \in Nonces : Present(n) => Present(n)'
  BY InspectStepIsLedgerStep, RowStays
<1>2. \A c \in Coroutines : ProcessOf[c] \in Processes
  BY InspectConstants
<1>3. \A c \in Coroutines : At(c, "reserve") => runner[c].nonce \in Nonces
  BY JobOf DEF At, Working
<1>4. ASSUME \A p \in Processes : gateway'[p].escalated => gateway[p].escalated,
             \A c \in Coroutines : At(c, "reserve")' => runner'[c] = runner[c]
      PROVE  AskedFirst'
  BY <1>1, <1>2, <1>3, <1>4 DEF AskedFirst, At
<1>5. ASSUME NEW c \in Coroutines, NEW n \in Nonces, NEW call \in Calls, NEW obs \in Histories, Propose(c, n, call, obs)
      PROVE  GatewayOK' /\ AskedFirst'
  <2>1. PICK p \in Processes, d \in {normalize_read(call)} : d = normalize_read(call) /\ p = ProcessOf[c]
    BY <1>2
  <2>2. <<ProcessOf[c], call, obs>> \in Current /\ ~Busy(p) /\ UNCHANGED executions
    BY <1>5, <2>1 DEF Propose, ledgerVars
  <2>3. \A b \in Coroutines : ProcessOf[b] = p => ~At(b, "reserve")
    BY <2>2 DEF Busy
  <2>4. CASE Present(n) /\ Reserving(c, n, d, d, obs) /\ UNCHANGED gateway
    <3>1. /\ runner'[c].nonce = n /\ \A b \in Coroutines \ {c} : runner'[b] = runner[b]
      BY <2>1, <2>2, <2>4, ReservingEffect
    <3>2. AskedFirst'
      BY <1>1, <1>3, <2>4, <3>1 DEF AskedFirst, At
    <3> QED BY <2>4, <3>2 DEF GatewayOK
  <2>5. ASSUME NEW out \in evaluate(call, obs, GatewayOf(p)), Note(p, out.decision),
               \/ out.decision = "ALLOW" /\ Reserving(c, n, d, d, obs)
               \/ UNCHANGED runner
        PROVE  GatewayOK' /\ AskedFirst'
    <3>1. /\ GatewayOK' /\ \A q \in Processes \ {p} : gateway'[q] = gateway[q]
          /\ gateway'[p].escalated = (gateway[p].escalated \/ out.decision = "ESCALATE")
      BY <2>5, NoteEffect
    <3>2. CASE UNCHANGED runner
      BY <1>1, <1>2, <1>3, <2>3, <3>1, <3>2 DEF AskedFirst, At
    <3>3. CASE out.decision = "ALLOW" /\ Reserving(c, n, d, d, obs)
      <4>1. /\ runner'[c].nonce = n /\ \A b \in Coroutines \ {c} : runner'[b] = runner[b]
        BY <2>1, <2>2, <3>3, ReservingEffect
      <4>2. ~gateway[p].escalated
        <5>1. PICK gw : gw = GatewayOf(p)
          OBVIOUS
        <5>2. gw.escalated => out.decision = "ESCALATE"
          BY <2>5, <5>1, EscalatedAnswers
        <5> QED BY <3>3, <5>1, <5>2 DEF GatewayOf
      <4>3. ~gateway'[p].escalated
        BY <3>1, <3>3, <4>2
      <4> QED BY <1>1, <1>2, <1>3, <2>1, <2>3, <3>1, <4>1, <4>3 DEF AskedFirst, At
    <3> QED BY <2>5, <3>2, <3>3
  <2> QED BY <1>5, <2>1, <2>4, <2>5 DEF Propose
<1>6. ASSUME NEW p \in Processes, NEW call \in Calls, NEW obs \in Histories, Approve(p, call, obs)
      PROVE  GatewayOK' /\ AskedFirst'
  <2>1. PICK decision : Note(p, decision)
    BY <1>6 DEF Approve
  <2>2. \A b \in Coroutines : ProcessOf[b] = p => ~At(b, "reserve")
    BY <1>6 DEF Approve, Busy
  <2>3. GatewayOK' /\ \A q \in Processes \ {p} : gateway'[q] = gateway[q]
    BY <2>1, NoteEffect
  <2>4. UNCHANGED runner
    BY <1>6 DEF Approve
  <2> QED BY <1>1, <1>2, <1>3, <2>2, <2>3, <2>4 DEF AskedFirst, At
<1>7. ASSUME NEW c \in Coroutines, RecordResult(c) PROVE GatewayOK' /\ AskedFirst'
  <2>1. PICK p \in Processes, call \in Digests : p = ProcessOf[c] /\ call = runner[c].call
    BY <1>2, <1>7, JobOf DEF RecordResult, At, Working
  <2>2. \/ gateway' = [gateway EXCEPT ![p].history = Append(@, call)]
        \/ UNCHANGED gateway
    BY <1>7, <2>1 DEF RecordResult, Observed
  <2>3. GatewayOK' /\ \A q \in Processes : gateway'[q].escalated = gateway[q].escalated
    <3>1. CASE UNCHANGED gateway
      BY <3>1 DEF GatewayOK
    <3>2. CASE gateway' = [gateway EXCEPT ![p].history = Append(@, call)]
      <4>1. PICK h \in Seq(Digests) : h = Append(gateway[p].history, call)
        <5>1. PICK before \in Seq(Digests) : before = gateway[p].history
          BY DEF GatewayOK
        <5>2. Append(before, call) \in Seq(Digests)
          OBVIOUS
        <5> QED BY <5>1, <5>2
      <4>2. gateway' = [gateway EXCEPT ![p] = [gateway[p] EXCEPT !.history = h]]
        BY <3>2, <4>1
      <4> QED BY <4>2 DEF GatewayOK
    <3> QED BY <2>2, <3>1, <3>2
  <2>4. runner'[c] = Idle /\ \A b \in Coroutines \ {c} : runner'[b] = runner[b]
    BY <1>7, ReturnEffect DEF RecordResult
  <2>5. \A b \in Coroutines : At(b, "reserve")' => runner'[b] = runner[b]
    BY <2>4 DEF At, Idle
  <2> QED BY <1>4, <2>3, <2>5
<1>8. ASSUME NEW p \in Processes, Restart(p) PROVE GatewayOK' /\ AskedFirst'
  <2>1. gateway' = [gateway EXCEPT ![p] = [history |-> <<>>, escalated |-> FALSE]]
    BY <1>8 DEF Restart
  <2>2. GatewayOK' /\ \A q \in Processes : gateway'[q].escalated => gateway[q].escalated
    <3>1. [history |-> <<>>, escalated |-> FALSE] \in [history : Seq(Digests), escalated : BOOLEAN]
      OBVIOUS
    <3> QED BY <2>1, <3>1 DEF GatewayOK
  <2>3. \A b \in Coroutines : At(b, "reserve")' => runner'[b] = runner[b]
    BY <1>8 DEF Restart, At, Idle
  <2> QED BY <1>4, <2>2, <2>3
<1>9. ASSUME UNCHANGED gateway, \A c \in Coroutines : At(c, "reserve")' => runner'[c] = runner[c]
      PROVE  GatewayOK' /\ AskedFirst'
  BY <1>4, <1>9 DEF GatewayOK
<1>10. ASSUME NEW c \in Coroutines, Reserve(c) \/ Run(c) PROVE GatewayOK' /\ AskedFirst'
  <2>1. Working(c) /\ UNCHANGED gateway
    BY <1>10 DEF Reserve, Run, At, Working
  <2>2. Return(c) \/ \E step \in {"await", "ran", "raised"} : Goto(c, step)
    BY <1>10 DEF Reserve, Run
  <2>3. ~At(c, "reserve")' /\ \A b \in Coroutines \ {c} : runner'[b] = runner[b]
    BY <2>1, <2>2, GotoEffect, ReturnEffect DEF At, Idle
  <2> QED BY <1>9, <2>1, <2>3
<1>11. ASSUME NEW c \in Coroutines, Doubt(c) PROVE GatewayOK' /\ AskedFirst'
  <2>1. UNCHANGED gateway /\ Return(c)
    BY <1>11 DEF Doubt
  <2>2. ~At(c, "reserve")' /\ \A b \in Coroutines \ {c} : runner'[b] = runner[b]
    BY <2>1, ReturnEffect DEF At, Idle
  <2> QED BY <1>9, <2>1, <2>2
<1>12. ASSUME NEW n \in Nonces, NEW accept \in BOOLEAN, NEW fenced \in BOOLEAN, Reconcile(n, accept, fenced)
      PROVE  GatewayOK' /\ AskedFirst'
  BY <1>9, <1>12 DEF Reconcile
<1>13. CASE UNCHANGED inspectVars
  BY <1>9, <1>13 DEF inspectVars
<1> QED
  BY <1>5, <1>6, <1>7, <1>8, <1>10, <1>11, <1>12, <1>13 DEF InspectNext

\* Once a process is escalated, by whichever coroutine or callback, none of its
\* coroutines turns a call into a new reservation.
THEOREM EscalationHoldsDispatch == InspectSpec => EscalationStopsDispatch
<1>1. InspectInit => GatewayOK /\ AskedFirst
  <2>1. [history |-> <<>>, escalated |-> FALSE] \in [history : Seq(Digests), escalated : BOOLEAN]
    OBVIOUS
  <2> QED BY <2>1 DEF InspectInit, GatewayOK, AskedFirst, At, Idle
<1>2. InspectInv /\ GatewayOK /\ AskedFirst /\ [InspectNext]_inspectVars => GatewayOK' /\ AskedFirst'
  BY EscalationStep
<1>3. InspectInv /\ AskedFirst /\ [InspectNext]_inspectVars =>
        [\A c \in Coroutines : gateway[ProcessOf[c]].escalated => ~(At(c, "reserve") /\ At(c, "await")')]_inspectVars
  <2> SUFFICES ASSUME InspectInv, AskedFirst, InspectNext, NEW c \in Coroutines,
                      gateway[ProcessOf[c]].escalated, At(c, "reserve"), At(c, "await")'
               PROVE  FALSE
    OBVIOUS
  <2>1. Present(runner[c].nonce) /\ runner[c].nonce \in Nonces
    BY JobOf DEF AskedFirst, InspectInv, At, Working
  <2>2. runner'[c] # runner[c] /\ runner'[c] # Idle
    BY DEF At, Idle
  <2>3. ASSUME Reserve(c) PROVE FALSE
    <3>1. Goto(c, "await") \/ Return(c)
      BY <2>3 DEF Reserve
    <3>2. ~Return(c)
      BY <2>2, ReturnEffect DEF InspectInv
    <3>3. ReserveInsert(runner[c].nonce, ScopeOf[ProcessOf[c]], runner[c].nonce, runner[c].digest, ResultPolicyOf[ProcessOf[c]])
      BY <2>3, <3>2 DEF Reserve
    <3> QED BY <2>1, <3>3 DEF ReserveInsert, Existing
  <2>4. ASSUME NEW b \in Coroutines, Reserve(b), b # c PROVE FALSE
    <3>1. Working(b) /\ (Goto(b, "await") \/ Return(b))
      BY <2>4 DEF Reserve, At, Working
    <3> QED BY <2>2, <2>4, <3>1, GotoEffect, ReturnEffect DEF InspectInv
  <2>5. ASSUME NEW b \in Coroutines, Run(b) PROVE FALSE
    <3>1. Working(b) /\ b # c /\ \E step \in {"ran", "raised"} : Goto(b, step)
      BY <2>5 DEF Run, At, Working
    <3> QED BY <2>2, <3>1, GotoEffect DEF InspectInv
  <2>6. ASSUME NEW b \in Coroutines, Doubt(b) \/ RecordResult(b) PROVE FALSE
    <3>1. Return(b)
      BY <2>6 DEF Doubt, RecordResult
    <3> QED BY <2>2, <3>1, ReturnEffect DEF InspectInv
  <2>7. ASSUME NEW b \in Coroutines, NEW n \in Nonces, NEW call \in Calls, NEW obs \in Histories, Propose(b, n, call, obs)
        PROVE  FALSE
    <3>1. PICK d : d = normalize_read(call)
      OBVIOUS
    <3>2. b # c /\ <<ProcessOf[b], call, obs>> \in Current /\ (Reserving(b, n, d, d, obs) \/ UNCHANGED runner)
      BY <2>7, <3>1 DEF Propose, At
    <3> QED BY <2>2, <3>1, <3>2, ReservingEffect DEF InspectInv
  <2>8. ASSUME NEW p \in Processes, Restart(p) PROVE FALSE
    BY <2>2, <2>8 DEF Restart
  <2>9. ~UNCHANGED runner
    BY <2>2
  <2> QED
    BY <2>3, <2>4, <2>5, <2>6, <2>7, <2>8, <2>9 DEF InspectNext, Approve, Reconcile
<1> QED
  BY <1>1, <1>2, <1>3, InspectInvariant, PTL DEF InspectSpec, EscalationStopsDispatch
=============================================================================
