---------------------------- MODULE Supervision ----------------------------
(***************************************************************************)
(* What a SupervisionGateway (src/traceguard/integrations/gateway.py) may   *)
(* answer about a call: its compiled grant, the supervisor it asks          *)
(* (supervisor/llm.py over a model, or supervisor/deterministic.py), and    *)
(* the validation of a rewrite (supervisor/contracts.py).                   *)
(*                                                                         *)
(* Answers are sets: the model behind the supervisor may say anything, may  *)
(* be unreachable, and may say something else the next time.  A gateway is  *)
(* a record [grant, mode, history, escalated].                              *)
(***************************************************************************)
EXTENDS TaskAuthority, TLC

CONSTANTS
    Calls,         \* the calls agents and models propose
    Destinations   \* fields a rewrite may narrow but not widen

ASSUME SupervisionConstants ==
    /\ \A c \in Calls :
          /\ c = [tool |-> c.tool, args |-> c.args]
          /\ c.tool \in Tools /\ DOMAIN c.args \subseteq Fields
          /\ \A f \in DOMAIN c.args : IsFiniteSet(c.args[f])
          /\ Actual(c, "amount") \subseteq Int
    /\ Destinations \subseteq Fields

Modes == {"deterministic", "llm", "deterministic_llm"}

-----------------------------------------------------------------------------
(* Validation of a rewrite *)

\* validate_rewrite_against_request.  The authority is asked about the replacement
\* as it stands, without the calls made before it.
validate_rewrite(call, new, obs, g, rewritten) ==
    /\ ~rewritten
    /\ new.tool \in Available
    /\ Effect[call.tool] = "read" => Effect[new.tool] = "read"
    /\ new.tool # call.tool => Effect[new.tool] = "read"
    /\ \A f \in Destinations \cap DOMAIN call.args \cap DOMAIN new.args : new.args[f] \subseteq call.args[f]
    /\ check_authority(new, obs, g, <<>>) = {"ALLOW"}
    /\ WellFormed(new)

\* What the gateway asks of the supervisor's rewrite before it looks any further.
validate_replacement(call, new, obs, g) ==
    /\ Actual(new, "requested_resources") \subseteq Actual(call, "requested_resources")
    /\ validate_rewrite(call, new, obs, g, FALSE)

-----------------------------------------------------------------------------
(* The model behind the supervisor *)

Opinion(decision, severe, rewrite) == [decision |-> decision, severe |-> severe, rewrite |-> rewrite]

\* Responses that satisfy the response schema: a replacement with REWRITE only.
\* `severe` is a high risk, an unrelated or an unnecessary call.
Responses(call) ==
    {Opinion(d, s, call) : d \in {"ALLOW", "BLOCK", "ESCALATE"}, s \in BOOLEAN}
    \cup {Opinion("REWRITE", FALSE, c) : c \in Calls}

\* The provider's evaluate.  It raises when the last attempt to reach the model
\* fails, when the response is not well formed, and for a rewrite that is not valid.
Failed == Opinion("FAILED", TRUE, <<>>)
Provided(call, obs, g, rewritten) ==
    {Failed} \cup {r \in Responses(call) :
                      r.decision = "REWRITE" => validate_rewrite(call, r.rewrite, obs, g, rewritten)}

enforce_allow(opinion) ==
    IF opinion.decision = "ALLOW" /\ opinion.severe THEN [opinion EXCEPT !.decision = "ESCALATE"] ELSE opinion

\* _to_runtime_output: a rewrite keeps the requested resources of the original.
WithResourcesOf(new, call) ==
    [new EXCEPT !.args = Restrict(@, Arguments(new))
                         @@ Restrict(call.args, DOMAIN call.args \ Arguments(call))]

to_runtime_output(response, call) ==
    IF response.decision = "REWRITE" THEN [response EXCEPT !.rewrite = WithResourcesOf(@, call)]
    ELSE enforce_allow(response)

\* What the supervisor makes of a response: a failure or an unsure consent escalates.
Runtime(response, call, confident) ==
    IF \/ response.decision = "FAILED"
       \/ response.decision \in {"ALLOW", "REWRITE"} /\ ~confident
    THEN Opinion("ESCALATE", TRUE, <<>>)
    ELSE to_runtime_output(response, call)

-----------------------------------------------------------------------------
(* Supervisors *)

Repeats(call, gw) == If(duplicate_mutation(call, gw.history, gw.grant), "BLOCK")
Refusals(verdicts) == verdicts \ {"ALLOW"}

\* DeterministicSupervisor.evaluate and _deterministic_guard.
Guarded(call, obs, gw) == Compiled(call, obs, gw.grant, gw.history)

\* QwenSupervisor.evaluate: the deterministic floor first, and finally.
Supervised(call, obs, gw, rewritten) ==
    LET floor == FirstRefusal(<<Repeats(call, gw), Refusals(Guarded(call, obs, gw))>>)
    IN IF floor # {"ALLOW"} THEN {Opinion(v, TRUE, <<>>) : v \in floor}
       ELSE {Runtime(r, call, sure) : r \in Provided(call, obs, gw.grant, rewritten), sure \in BOOLEAN}

Supervise(call, obs, gw, rewritten) ==
    IF gw.mode = "deterministic" THEN {Opinion(v, v # "ALLOW", <<>>) : v \in Guarded(call, obs, gw)}
    ELSE Supervised(call, obs, gw, rewritten)

-----------------------------------------------------------------------------
(* SupervisionGateway.evaluate *)

Gate(call, obs, gw) ==
    IF gw.mode = "deterministic_llm" THEN Refusals(Guarded(call, obs, gw)) ELSE {}

Decided(call, decision) == [call |-> call, decision |-> decision]

\* A rewrite that is valid is checked again from the start, and once more by the
\* supervisor; whatever is not an ALLOW then escalates.
Rewritten(call, new, obs, gw) ==
    IF ~validate_replacement(call, new, obs, gw.grant) THEN {Decided(call, "ESCALATE")}
    ELSE LET again == FirstRefusal(<<Repeats(new, gw), Refusals(Guarded(new, obs, gw)), Gate(new, obs, gw)>>)
         IN IF again # {"ALLOW"} THEN {Decided(call, "ESCALATE")}
            ELSE {IF enforce_allow(o).decision = "ALLOW" THEN Decided(new, "ALLOW") ELSE Decided(call, "ESCALATE") :
                      o \in Supervise(new, obs, gw, TRUE)}

Concluded(call, opinion, obs, gw) ==
    IF opinion.decision = "REWRITE" THEN Rewritten(call, opinion.rewrite, obs, gw)
    ELSE {Decided(call, enforce_allow(opinion).decision)}

\* Mutant of evaluate: an escalated gateway goes on.
MutGateway(call, obs, gw) ==
    LET scoped == normalize_read(call)
        floor == FirstRefusal(<<Refusals(Guarded(call, obs, gw))>>)
    IN IF floor # {"ALLOW"} THEN {Decided(call, v) : v \in floor}
       ELSE UNION {Concluded(scoped, o, obs, gw) : o \in Supervise(scoped, obs, gw, FALSE)}

\* The decisions the gateway may take, each with the call it is about; it is
\* escalated from then on exactly when the decision is ESCALATE.
evaluate(call, obs, gw) ==
    LET scoped == normalize_read(call)
        floor == FirstRefusal(<<Refusals(Guarded(call, obs, gw)), Repeats(scoped, gw),
                                If(~WellFormed(scoped), "ESCALATE"), Gate(scoped, obs, gw)>>)
    IN IF gw.escalated THEN {Decided(call, "ESCALATE")}
       ELSE IF floor # {"ALLOW"} THEN {Decided(call, v) : v \in floor}
       ELSE UNION {Concluded(scoped, o, obs, gw) : o \in Supervise(scoped, obs, gw, FALSE)}
=============================================================================
