----------------------------- MODULE MCStartup ------------------------------
(* Startup.tla for TLC: config files. *)
EXTENDS Startup

Provider(id, class, engine) == [id |-> id, placement_class |-> class, engine |-> engine]

Fleets ==
    {<<>>, <<Provider("a", "local", "llamacpp")>>, <<Provider("a", "local", "bad")>>,
     <<Provider("sim-cloud", "cloud", "sim")>>,
     <<Provider("a", "local", "llamacpp"), Provider("b", "cloud", "llamacpp")>>}

ConfigFiles ==
    [readable : {TRUE}, token : {None, "", "three", "padded"}, providers : Fleets,
     include_sim_cloud : BOOLEAN, snapshot_ttl : {None, 0, 60}, max_snapshot_age : {None, 3}]
    \cup [readable : {FALSE}, token : {"three"}, providers : {<<>>},
           include_sim_cloud : {FALSE}, snapshot_ttl : {None}, max_snapshot_age : {None}]
=============================================================================
