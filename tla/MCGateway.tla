----------------------------- MODULE MCGateway -----------------------------
(* Gateway.tla for TLC: two equal local engines, and calls to either. *)
EXTENDS Gateway

Engine == [placement_class |-> "local", capabilities |-> {"chat"},
           max_concurrency |-> 1, quality |-> 6, tps |-> 12]
Equals == <<Engine, Engine>>

OneModel == {{[id |-> 1, context_tokens |-> 4, loaded |-> TRUE]}}

Call(surface, model) ==
    [surface |-> surface, complete |-> TRUE, malformed |-> FALSE, model |-> model,
     capabilities |-> {}, tokens |-> 0, prefers |-> "none"]
EqualsWishes == {Call("generate", AnyModel), Call("openai", 1)}
=============================================================================
