----------------------------- MODULE MCRouting -----------------------------
(* Routing.tla for TLC: fleets, inventories and calls. *)
EXTENDS Catalogue

(* The shipped pair: a local engine and the simulated cloud. *)
Pair ==
    <<[placement_class |-> "local", capabilities |-> {"chat", "code"},
       max_concurrency |-> 2, quality |-> 6, tps |-> 12],
      [placement_class |-> "cloud", capabilities |-> {"chat"},
       max_concurrency |-> 8, quality |-> 9, tps |-> 80]>>

(* A small fast and a large accurate local engine, and a better cloud. *)
Trio ==
    <<[placement_class |-> "cloud", capabilities |-> {"chat"},
       max_concurrency |-> 2, quality |-> 9, tps |-> 80],
      [placement_class |-> "local", capabilities |-> {"chat"},
       max_concurrency |-> 1, quality |-> 3, tps |-> 40],
      [placement_class |-> "local", capabilities |-> {"chat"},
       max_concurrency |-> 2, quality |-> 8, tps |-> 12]>>

Model(id, window, loaded) == [id |-> id, context_tokens |-> window, loaded |-> loaded]

PairInventories == {{}, {Model(1, 4, TRUE), Model(2, 0, FALSE)}}
TrioInventories ==
    {{Model(1, 8, FALSE), Model(2, 4, FALSE)}, {Model(1, 4, TRUE), Model(2, 8, FALSE)}}

Call(surface, model) ==
    [surface |-> surface, complete |-> TRUE, malformed |-> FALSE, model |-> model,
     capabilities |-> {}, tokens |-> 0, prefers |-> "none"]

PairWishes ==
    {[Call("openai", 1) EXCEPT !.tokens = 5], Call("openai", 2), Call("generate", 2),
     [Call("generate", AnyModel) EXCEPT !.tokens = 5],
     [Call("estimate", AnyModel) EXCEPT !.capabilities = {"code"}],
     [Call("openai", 1) EXCEPT !.malformed = TRUE],
     [Call("generate", 1) EXCEPT !.malformed = TRUE],
     [Call("generate", 1) EXCEPT !.complete = FALSE]}

TrioWishes ==
    {[Call("generate", AnyModel) EXCEPT !.prefers = w[1], !.tokens = w[2]] :
        w \in {<<"none", 0>>, <<"none", 5>>, <<"quality", 0>>, <<"latency", 5>>}}
=============================================================================
