------------------------- MODULE MCInspectExecutor -------------------------
(* Two processes of one task.  The first may pay alice with the memo that one *)
(* earlier message gives, the second with a fixed memo; both may list the     *)
(* root directory, and together they may spend 1.                             *)
EXTENDS InspectExecutor, TLC

CONSTANTS n1, n2, p1, p2, c1, c2, c3, s1, s2, t1, alice, bob, m1, m2, root, note

Pay(to, amount, memo) == [tool |-> "pay", args |-> [to |-> to, amount |-> {amount}, memo |-> {memo}]]
List(args) == [tool |-> "list", args |-> args]
Odd == [tool |-> "odd", args |-> <<>>]

MCCalls == {Pay({alice}, 1, m1), Pay({alice}, 1, m2), Pay({alice, bob}, 1, m1),
            [tool |-> "pay", args |-> [to |-> {alice}, amount |-> {1}, memo |-> {m1}, note |-> {note}]],
            List(<<>>), List([path |-> {root}]), Odd}
MCDigests == MCCalls \ {List(<<>>)}

MCEffect == [pay |-> "mutate", list |-> "read", odd |-> "unknown"]
MCSchema == [pay |-> {"to", "amount", "memo", "note"}, list |-> {"path"}, odd |-> {}]
MCRequired == [pay |-> {"to", "amount"}, list |-> {}, odd |-> {}]
MCSelectors == [pay |-> {}, list |-> {"path"}, odd |-> {}]
MCNone == [tool \in Tools |-> {}]
MCReadResources == [list |-> {"path"}]
MCReadDefaults == [pay |-> <<>>, list |-> [path |-> {root}], odd |-> <<>>]

Authority(tools, paths, fixed, delegated) ==
    [tools |-> tools, repeatable |-> {},
     argument |-> [pay |-> fixed, list |-> <<>>, odd |-> <<>>],
     resource |-> [pay |-> [to |-> {alice}], list |-> paths, odd |-> <<>>],
     delegated |-> [pay |-> delegated, list |-> <<>>, odd |-> <<>>],
     generated |-> MCNone, maximum |-> 1, prohibited |-> {}]

MCGrantOf == (p1 :> Authority(Tools, [path |-> {root}], <<>>, [memo |-> {"first", "second"}]))
             @@ (p2 :> Authority({"pay"}, <<>>, [memo |-> {m2}], <<>>))
MCModeOf == (p1 :> "deterministic_llm") @@ (p2 :> "deterministic")
MCProcessOf == (c1 :> p1) @@ (c2 :> p1) @@ (c3 :> p2)
MCScopeOf == (p1 :> s1) @@ (p2 :> s2)
MCResultPolicyOf == (p1 :> "v1") @@ (p2 :> "v2")
Said(source, memo) == [source |-> source, data |-> [memo |-> {memo}]]
MCHistories == {{Said("first", m1)}, {Said("first", m1), Said("second", m2)}}

MCTaskOf == [s \in Scopes |-> t1]
MCEffectOf == [d \in Digests |-> d]
MCAmountOf == [d \in Digests |-> Cost(d)]
MCLimit == [t \in Tasks |-> 1]
MCSymmetry == Permutations(Nonces) \cup Permutations({c1, c2})
=============================================================================
