------------------------------ MODULE Startup -------------------------------
(***************************************************************************)
(* From the command line, the environment and a config file to a server    *)
(* that answers (cli.py, config.py, create_app and _BearerAuthMiddleware   *)
(* in app.py): which token, fleet and staleness ceiling are in effect,     *)
(* what refuses to start, and who is let in.                               *)
(*                                                                         *)
(* A server is started from the command line, or by an embedder that calls *)
(* load_app_config and create_app itself and may not say where it binds.   *)
(* bus_url and bus_token are resolved as the token is, and left out.       *)
(***************************************************************************)
EXTENDS Integers, Sequences

CONSTANTS
    None,      \* a value that is not given
    Names,     \* provider ids
    Classes,   \* values of placement_class, which nothing validates
    Files,     \* config files: [readable, token, providers, include_sim_cloud,
               \*   snapshot_ttl, max_snapshot_age]; providers is a sequence of
               \*   [id, placement_class, engine]
    TTLs       \* values of --snapshot-ttl

ASSUME TTLsAssumption == TTLs \subseteq Int /\ None \notin Int

(* Tokens: the bare "one", "two" and "three", and " one " with its blanks. *)
Tokens == {"one", "two", "three", "padded"}
Given == Tokens \cup {"", None}
Truthy(token) == token \in Tokens
Stripped(token) == IF token = "padded" THEN "one" ELSE token

ASSUME NamesAssumption ==
    {"sim-cloud", "local-llamacpp"} \subseteq Names /\ {"local", "cloud"} \subseteq Classes

Engines == {"llamacpp", "sim", "bad"}

ASSUME FilesAssumption ==
    /\ None \notin Files
    /\ \A f \in Files :
         /\ f.token \in Given
         /\ f.providers \in Seq([id : Names, placement_class : Classes, engine : Engines])
         /\ f.snapshot_ttl \in Int \cup {None} /\ f.max_snapshot_age \in Int \cup {None}

Setups ==
    [entry : {"cli", "embedder"}, reachable : BOOLEAN, told : BOOLEAN,
     flag : {None, "", "one", "padded"}, env : {None, "", "two"},
     file : {None} \cup Files, no_sim_cloud : BOOLEAN, ttl : TTLs]

Requests ==
    [path : {"/health", "other"}, scheme : {"none", "Bearer", "bearer", "Basic"},
     presented : Tokens \cup {""}]

ASSUME RequestsAssumption == None \notin Requests

VARIABLES
    setup,     \* what the server is started with; told: create_app gets the host
    stage,     \* starting, loading, guarding, serving; refused, failed
    config,    \* the AppConfig
    answered   \* the request answered last, and how

vars == <<setup, stage, config, answered>>

Nothing == [request |-> None, answer |-> "none"]

Init ==
    /\ setup \in {s \in Setups : s.entry = "cli" => s.told}
    /\ stage = IF setup.entry = "cli" THEN "starting" ELSE "loading"
    /\ config = None
    /\ answered = Nothing

---------------------------------------------------------------------------
(* The token given explicitly, or else that of the environment. *)
Resolved == IF setup.flag # None THEN setup.flag ELSE setup.env

(* main: the command line refuses before it reads a config file. *)
Preflight ==
    /\ stage = "starting"
    /\ stage' = IF setup.reachable /\ ~ Truthy(Resolved) THEN "refused" ELSE "loading"
    /\ UNCHANGED <<setup, config, answered>>

(* Mutant: a token of the file counts when it is there, empty or not. *)
FileTokenIfThere(token, resolved) == IF token # None THEN token ELSE resolved

(* A token of the file wins over the resolved one unless it is falsy. *)
FileToken(token, resolved) == IF Truthy(token) THEN token ELSE resolved

SimCloud == [id |-> "sim-cloud", placement_class |-> "cloud"]
LocalUpstream == [id |-> "local-llamacpp", placement_class |-> "local"]

(* Mutant: a file without providers gets the shipped fleet, whatever the flag. *)
DefaultFleetWhole(no_sim_cloud) == <<LocalUpstream, SimCloud>>

(* build_default_config: its fleet. *)
DefaultFleet(no_sim_cloud) ==
    <<LocalUpstream>> \o (IF no_sim_cloud THEN <<>> ELSE <<SimCloud>>)

(* _provider_from: the class is taken as it is written. *)
ProviderFrom(declared) == [id |-> declared.id, placement_class |-> declared.placement_class]

(* _read_file: YAML without PyYAML, or a text that does not parse. *)
Unreadable(file) == ~ file.readable

(* _engine_from: an unknown engine, or a llamacpp without a base_url. *)
Refuses(file) == \E i \in DOMAIN file.providers : file.providers[i].engine = "bad"

(* The fleet a file declares; its include_sim_cloud only ever adds. *)
DeclaredFleet(file) ==
    [i \in DOMAIN file.providers |-> ProviderFrom(file.providers[i])]
    \o (IF file.include_sim_cloud THEN <<SimCloud>> ELSE <<>>)

(* Mutant: a TTL the file does not give is no TTL. *)
FromFileOnly(file) ==
    [token   |-> FileToken(file.token, Resolved),
     fleet   |-> IF DeclaredFleet(file) = <<>> THEN DefaultFleet(setup.no_sim_cloud)
                                               ELSE DeclaredFleet(file),
     ttl     |-> file.snapshot_ttl,
     max_age |-> file.max_snapshot_age]

(* app_config_from_dict. *)
FromFile(file) ==
    [token   |-> FileToken(file.token, Resolved),
     fleet   |-> IF DeclaredFleet(file) = <<>> THEN DefaultFleet(setup.no_sim_cloud)
                                               ELSE DeclaredFleet(file),
     ttl     |-> IF file.snapshot_ttl # None THEN file.snapshot_ttl ELSE setup.ttl,
     max_age |-> file.max_snapshot_age]

WithoutFile ==
    [token |-> Resolved, fleet |-> DefaultFleet(setup.no_sim_cloud),
     ttl |-> setup.ttl, max_age |-> None]

(* load_app_config: a file that cannot be used raises. *)
Load ==
    /\ stage = "loading"
    /\ IF setup.file # None /\ (Unreadable(setup.file) \/ Refuses(setup.file))
         THEN stage' = "failed" /\ UNCHANGED config
         ELSE /\ stage' = "guarding"
              /\ config' = IF setup.file = None THEN WithoutFile ELSE FromFile(setup.file)
    /\ UNCHANGED <<setup, answered>>

(* Mutant: only the lack of a token counts, not an empty one. *)
OpenIfNone(token) == token = None

Open(token) == ~ Truthy(token)

(* create_app: its guard, if it knows the host, and then the registry, which *)
(* takes no two providers of one id.                                         *)
Guard ==
    /\ stage = "guarding"
    /\ stage' = IF setup.told /\ setup.reachable /\ Open(config.token) THEN "refused"
                ELSE IF \E i, j \in DOMAIN config.fleet :
                            i # j /\ config.fleet[i].id = config.fleet[j].id THEN "failed"
                ELSE "serving"
    /\ UNCHANGED <<setup, config, answered>>

(* _BearerAuthMiddleware: the scheme in any case; what is presented without *)
(* its blanks, the configured token with them.                              *)
Admits(request) ==
    \/ ~ Truthy(config.token)
    \/ request.path = "/health"
    \/ request.scheme \in {"Bearer", "bearer"} /\ Stripped(request.presented) = config.token

(* Bound: one request, since each is judged on its own. *)
Receive(request) ==
    /\ stage = "serving" /\ answered = Nothing
    /\ answered' = [request |-> request, answer |-> IF Admits(request) THEN "served" ELSE "401"]
    /\ UNCHANGED <<setup, stage, config>>

Next == Preflight \/ Load \/ Guard \/ \E request \in Requests : Receive(request)

Spec == Init /\ [][Next]_vars

(* Mutant: the ceiling of the shipped TTL for every TTL. *)
CeilingOfShipped == IF config.max_age # None THEN config.max_age ELSE 35

(* effective_max_snapshot_age *)
Ceiling ==
    CASE config.max_age # None -> config.max_age
      [] config.max_age = None /\ config.ttl <= 0 -> None
      [] OTHER -> IF 6 * config.ttl > config.ttl + 30 THEN 6 * config.ttl ELSE config.ttl + 30

---------------------------------------------------------------------------
(* PROPERTIES *)

Configs == [token : Given, fleet : Seq([id : Names, placement_class : Classes]),
            ttl : Int, max_age : Int \cup {None}]
TypeOK ==
    /\ setup \in Setups
    /\ stage \in {"starting", "loading", "guarding", "serving", "refused", "failed"}
    /\ stage \in {"starting", "loading"} => config = None
    /\ stage \in {"guarding", "serving"} => config \in Configs
    /\ answered = Nothing \/ answered \in [request : Requests, answer : {"served", "401"}]

Elsewhere == answered.request # None /\ answered.request.path # "/health"

(* No server that is told it binds a reachable host ever serves a request,  *)
(* but for /health, to one who does not present its token ("no entry path - *)
(* CLI, embedder, or test - can open an authenticated-optional surface on a *)
(* reachable interface", app.py:110-111).                                   *)
NoOpenSurface ==
    setup.reachable /\ setup.told /\ answered.answer = "served" /\ Elsewhere =>
        /\ answered.request.scheme \in {"Bearer", "bearer"}
        /\ answered.request.presented \in Tokens
        /\ Stripped(answered.request.presented) = config.token

(* The refusal of the command line is all there is: what passes it is never *)
(* refused by create_app, so a file cannot take away the token it was given *)
(* ("defense in depth, not a substitute for failing fast at the CLI").      *)
PreflightSuffices ==
    [][stage = "guarding" /\ stage' = "refused" => setup.entry = "embedder"]_stage

(* A cloud provider is served only if the file asks for it, or nothing      *)
(* declares a fleet and the command line does not forbid it.                *)
AsksForCloud(file) ==
    \/ file.include_sim_cloud
    \/ \E i \in DOMAIN file.providers : file.providers[i].placement_class = "cloud"
CloudIsAskedFor ==
    stage = "serving" /\ (\E i \in DOMAIN config.fleet :
                             config.fleet[i].placement_class = "cloud") =>
        \/ setup.file # None /\ AsksForCloud(setup.file)
        \/ /\ ~ setup.no_sim_cloud
           /\ setup.file # None => setup.file.providers = <<>>

(* Where no ceiling is declared, a cached snapshot that is not yet due for  *)
(* a probe is never rejected as stale ("a real backstop, not something that *)
(* fires normally", app.py:169-170).                                        *)
FreshIsNeverStale ==
    stage = "serving" /\ (setup.file # None => setup.file.max_snapshot_age = None) =>
        Ceiling = None \/ config.ttl < Ceiling
=============================================================================
