--------------------------- MODULE StartupProofs ----------------------------
(***************************************************************************)
(* Proofs about Startup.tla, for every set of config files and TTLs.       *)
(***************************************************************************)
EXTENDS Startup, SequenceTheorems, TLAPS

(* What holds of a server on its way up, by the stage it is at: what passed *)
(* the command line has a token or a loopback host until the guard sees it, *)
(* and what serves has one; an answer is the one the middleware gives under *)
(* the config that is in effect; and the fleet is the file's, or the        *)
(* shipped one where nothing declares any.                                  *)
PassedPreflight ==
    /\ setup.entry = "cli" /\ setup.reachable /\ stage = "loading" => Truthy(Resolved)
    /\ setup.entry = "cli" /\ setup.reachable /\ stage = "guarding" => Truthy(config.token)
PassedGuard ==
    stage = "serving" /\ setup.told /\ setup.reachable => Truthy(config.token)
AnsweredRightly ==
    answered # Nothing =>
        /\ stage = "serving" /\ answered.request \in Requests
        /\ answered.answer = IF Admits(answered.request) THEN "served" ELSE "401"
Inherited ==
    stage \in {"guarding", "serving"}
      /\ (setup.file # None => setup.file.max_snapshot_age = None) => config.max_age = None

FleetIsDeclared ==
    stage \in {"guarding", "serving"} =>
        config.fleet = IF setup.file = None \/ DeclaredFleet(setup.file) = <<>>
                       THEN DefaultFleet(setup.no_sim_cloud) ELSE DeclaredFleet(setup.file)

IInv ==
    TypeOK /\ PassedPreflight /\ PassedGuard /\ AnsweredRightly /\ Inherited /\ FleetIsDeclared

Declared == [id : Names, placement_class : Classes]

(* A file's fleet is a sequence of providers. *)
LEMMA FleetsAreTyped ==
    /\ \A b \in BOOLEAN : DefaultFleet(b) \in Seq(Declared)
    /\ \A f \in Files : DeclaredFleet(f) \in Seq(Declared)
<1>1. LocalUpstream \in Declared /\ SimCloud \in Declared
  BY NamesAssumption DEF LocalUpstream, SimCloud, Declared
<1>2. <<LocalUpstream>> \in Seq(Declared) /\ <<SimCloud>> \in Seq(Declared)
      /\ <<>> \in Seq(Declared)
  BY <1>1
<1>3. ASSUME NEW s \in Seq(Declared), NEW t \in Seq(Declared)
      PROVE  s \o t \in Seq(Declared)
  BY <1>3, ConcatProperties
<1>4. ASSUME NEW b \in BOOLEAN
      PROVE  DefaultFleet(b) \in Seq(Declared)
  <2>1. CASE b
    BY <2>1, <1>2, <1>3 DEF DefaultFleet
  <2>2. CASE ~ b
    BY <2>2, <1>2, <1>3 DEF DefaultFleet
  <2> QED BY <2>1, <2>2
<1>5. ASSUME NEW f \in Files
      PROVE  DeclaredFleet(f) \in Seq(Declared)
  <2> DEFINE own == [i \in DOMAIN f.providers |-> ProviderFrom(f.providers[i])]
             P == [id : Names, placement_class : Classes, engine : Engines]
  <2>1. f.providers \in Seq(P)
    BY FilesAssumption
  <2>2. Len(f.providers) \in Nat /\ DOMAIN f.providers = 1..Len(f.providers)
        /\ \A i \in 1..Len(f.providers) : f.providers[i] \in P
    BY <2>1, LenProperties, ElementOfSeq
  <2>3. own \in [1..Len(f.providers) -> Declared]
    BY <2>2 DEF Declared, ProviderFrom
  <2>4. own \in Seq(Declared)
    BY <2>2, <2>3, SeqDef
  <2>5. DeclaredFleet(f) = own \o (IF f.include_sim_cloud THEN <<SimCloud>> ELSE <<>>)
    BY DEF DeclaredFleet
  <2> HIDE DEF own
  <2>6. CASE f.include_sim_cloud
    BY <2>6, <2>4, <2>5, <1>2, <1>3
  <2>7. CASE ~ f.include_sim_cloud
    BY <2>7, <2>4, <2>5, <1>2, <1>3
  <2> QED BY <2>6, <2>7
<1> QED BY <1>4, <1>5

LEMMA InitIInv == Init => IInv
<1> SUFFICES ASSUME Init PROVE IInv
  OBVIOUS
<1> QED
  BY DEF Init, IInv, TypeOK, PassedPreflight, PassedGuard, AnsweredRightly, Inherited,
         FleetIsDeclared, Nothing

(* The config that is loaded: its type, and where its token and ceiling     *)
(* come from.                                                               *)
LEMMA LoadedConfig ==
    ASSUME setup \in Setups
    PROVE  /\ WithoutFile \in Configs
           /\ WithoutFile.token = Resolved /\ WithoutFile.max_age = None
           /\ WithoutFile.fleet = DefaultFleet(setup.no_sim_cloud)
           /\ setup.file # None =>
                /\ FromFile(setup.file).fleet =
                     IF DeclaredFleet(setup.file) = <<>> THEN DefaultFleet(setup.no_sim_cloud)
                     ELSE DeclaredFleet(setup.file)
                /\ FromFile(setup.file) \in Configs
                /\ Truthy(Resolved) => Truthy(FromFile(setup.file).token)
                /\ FromFile(setup.file).max_age = setup.file.max_snapshot_age
<1>1. /\ setup.no_sim_cloud \in BOOLEAN /\ setup.ttl \in Int /\ Resolved \in Given
      /\ setup.file \in {None} \cup Files
  BY TTLsAssumption DEF Setups, Resolved, Given, Tokens
<1>2. /\ WithoutFile \in Configs /\ WithoutFile.token = Resolved /\ WithoutFile.max_age = None
      /\ WithoutFile.fleet = DefaultFleet(setup.no_sim_cloud)
  BY <1>1, FleetsAreTyped DEF WithoutFile, Configs, Declared
<1>3. ASSUME setup.file # None
      PROVE  /\ FromFile(setup.file) \in Configs
             /\ Truthy(Resolved) => Truthy(FromFile(setup.file).token)
             /\ FromFile(setup.file).max_age = setup.file.max_snapshot_age
  <2> DEFINE f == setup.file
  <2>1. f \in Files
    BY <1>1, <1>3
  <2>2. FileToken(f.token, Resolved) \in Given
        /\ (Truthy(Resolved) => Truthy(FileToken(f.token, Resolved)))
    BY <2>1, <1>1, FilesAssumption DEF FileToken, Truthy
  <2>3. DeclaredFleet(f) \in Seq(Declared) /\ DefaultFleet(setup.no_sim_cloud) \in Seq(Declared)
    BY <2>1, <1>1, FleetsAreTyped
  <2>4. (IF f.snapshot_ttl # None THEN f.snapshot_ttl ELSE setup.ttl) \in Int
        /\ f.max_snapshot_age \in Int \cup {None}
    BY <2>1, <1>1, FilesAssumption
  <2> QED
    BY <2>2, <2>3, <2>4 DEF FromFile, Configs, Declared
<1>4. setup.file # None =>
        FromFile(setup.file).fleet =
          IF DeclaredFleet(setup.file) = <<>> THEN DefaultFleet(setup.no_sim_cloud)
          ELSE DeclaredFleet(setup.file)
  BY DEF FromFile
<1> QED BY <1>2, <1>3, <1>4

LEMMA StepIInv == IInv /\ [Next]_vars => IInv'
<1> SUFFICES ASSUME IInv, [Next]_vars PROVE IInv'
  OBVIOUS
<1> USE DEF IInv
<1>1. CASE Preflight
  <2>1. /\ stage = "starting" /\ stage' \in {"refused", "loading"} /\ answered = Nothing
        /\ setup' = setup /\ config' = config /\ answered' = answered
        /\ stage' = "loading" /\ setup.reachable => Truthy(Resolved)
    BY <1>1 DEF Preflight, AnsweredRightly
  <2>2. TypeOK'
    BY <2>1 DEF TypeOK
  <2>3. PassedPreflight'
    BY <2>1 DEF PassedPreflight, Resolved
  <2> QED
    BY <2>1, <2>2, <2>3 DEF PassedGuard, AnsweredRightly, Inherited, FleetIsDeclared
<1>2. CASE Load
  <2>1. /\ stage = "loading" /\ setup' = setup /\ answered' = answered /\ answered = Nothing
        /\ setup \in Setups
    BY <1>2 DEF Load, AnsweredRightly, TypeOK
  <2>2. CASE stage' = "failed" /\ config' = config
    BY <2>1, <2>2 DEF TypeOK, PassedPreflight, PassedGuard, AnsweredRightly, Inherited,
        FleetIsDeclared
  <2>3. CASE /\ stage' = "guarding"
             /\ config' = IF setup.file = None THEN WithoutFile ELSE FromFile(setup.file)
    <3>1. /\ config' \in Configs /\ (Truthy(Resolved) => Truthy(config'.token))
          /\ (setup.file # None => setup.file.max_snapshot_age = None) => config'.max_age = None
          /\ config'.fleet = IF setup.file = None \/ DeclaredFleet(setup.file) = <<>>
                             THEN DefaultFleet(setup.no_sim_cloud) ELSE DeclaredFleet(setup.file)
      BY <2>1, <2>3, LoadedConfig
    <3>2. TypeOK'
      BY <2>1, <2>3, <3>1 DEF TypeOK
    <3>3. PassedPreflight'
      BY <2>1, <2>3, <3>1 DEF PassedPreflight
    <3> QED
      BY <2>1, <2>3, <3>1, <3>2, <3>3 DEF PassedGuard, AnsweredRightly, Inherited, FleetIsDeclared
  <2> QED BY <1>2, <2>2, <2>3 DEF Load
<1>3. CASE Guard
  <2>1. /\ stage = "guarding" /\ stage' \in {"refused", "failed", "serving"}
        /\ setup' = setup /\ config' = config /\ answered' = answered /\ answered = Nothing
        /\ stage' = "serving" /\ setup.told /\ setup.reachable => Truthy(config.token)
    BY <1>3 DEF Guard, Open, AnsweredRightly
  <2>2. TypeOK'
    BY <2>1 DEF TypeOK
  <2> QED
    BY <2>1, <2>2 DEF PassedPreflight, PassedGuard, AnsweredRightly, Inherited,
        FleetIsDeclared
<1>4. ASSUME NEW request \in Requests, Receive(request)
      PROVE  IInv'
  <2>1. /\ stage = "serving" /\ stage' = stage /\ setup' = setup /\ config' = config
        /\ answered'.request = request
        /\ answered'.answer = IF Admits(request) THEN "served" ELSE "401"
        /\ answered' \in [request : Requests, answer : {"served", "401"}]
    BY <1>4 DEF Receive
  <2>2. TypeOK'
    BY <2>1 DEF TypeOK
  <2>3. AnsweredRightly'
    BY <2>1 DEF AnsweredRightly, Admits
  <2> QED
    BY <2>1, <2>2, <2>3 DEF PassedPreflight, PassedGuard, Inherited, FleetIsDeclared
<1>5. CASE UNCHANGED vars
  BY <1>5 DEF vars, TypeOK, PassedPreflight, PassedGuard, AnsweredRightly, Inherited,
              FleetIsDeclared, Admits, Resolved
<1> QED BY <1>1, <1>2, <1>3, <1>4, <1>5 DEF Next

THEOREM Invariance == Spec => []IInv
<1> QED BY InitIInv, StepIInv, PTL DEF Spec

(* The state is always of its type.                                         *)
THEOREM StartupTypes == Spec => []TypeOK
<1>1. IInv => TypeOK
  BY DEF IInv
<1> QED BY <1>1, Invariance, PTL

(* No server told that it binds a reachable host serves one who does not    *)
(* present its token, whatever the files, the environment and the flags.    *)
THEOREM NeverOpen == Spec => []NoOpenSurface
<1>1. IInv => NoOpenSurface
  <2> SUFFICES ASSUME IInv, setup.reachable, setup.told, answered.answer = "served", Elsewhere
               PROVE  /\ answered.request.scheme \in {"Bearer", "bearer"}
                      /\ answered.request.presented \in Tokens
                      /\ Stripped(answered.request.presented) = config.token
    BY DEF NoOpenSurface
  <2>1. answered # Nothing
    BY DEF Elsewhere, Nothing
  <2>2. Truthy(config.token) /\ answered.request \in Requests /\ Admits(answered.request)
    BY <2>1 DEF IInv, PassedGuard, AnsweredRightly
  <2> QED
    BY <2>2 DEF Admits, Elsewhere, Requests, Truthy, Stripped, Tokens
<1> QED BY <1>1, Invariance, PTL

(* Without a declared ceiling, nothing is stale before it is due for a probe. *)
THEOREM CeilingBeyondTTL == Spec => []FreshIsNeverStale
<1>1. IInv => FreshIsNeverStale
  BY TTLsAssumption DEF IInv, TypeOK, Inherited, FreshIsNeverStale, Ceiling, Configs
<1> QED BY <1>1, Invariance, PTL

(* What passes the command line is not refused by create_app. *)
THEOREM CommandLineSuffices == Spec => PreflightSuffices
<1>1. IInv /\ [Next]_vars => [stage = "guarding" /\ stage' = "refused" => setup.entry = "embedder"]_stage
  <2> SUFFICES ASSUME IInv, Next, stage = "guarding", stage' = "refused"
               PROVE  setup.entry = "embedder"
    BY DEF vars
  <2>1. Guard
    BY DEF Next, Preflight, Load, Receive
  <2>2. setup.reachable /\ Open(config.token)
    BY <2>1 DEF Guard
  <2> QED
    BY <2>2 DEF IInv, PassedPreflight, Open, TypeOK, Setups
<1> QED BY <1>1, Invariance, PTL DEF Spec, PreflightSuffices

(* A cloud provider in a fleet is one that the file declares or includes;   *)
(* in the shipped fleet, one that the command line does not forbid.         *)
LEMMA WhereCloudComesFrom ==
    /\ \A f \in Files : \A i \in DOMAIN DeclaredFleet(f) :
         DeclaredFleet(f)[i].placement_class = "cloud" => AsksForCloud(f)
    /\ \A f \in Files : DeclaredFleet(f) = <<>> => f.providers = <<>>
    /\ \A b \in BOOLEAN : \A i \in DOMAIN DefaultFleet(b) :
         DefaultFleet(b)[i].placement_class = "cloud" => ~ b
<1>1. ASSUME NEW f \in Files
      PROVE  /\ \A i \in DOMAIN DeclaredFleet(f) :
                   DeclaredFleet(f)[i].placement_class = "cloud" => AsksForCloud(f)
             /\ DeclaredFleet(f) = <<>> => f.providers = <<>>
  <2> DEFINE own  == [i \in DOMAIN f.providers |-> ProviderFrom(f.providers[i])]
             more == IF f.include_sim_cloud THEN <<SimCloud>> ELSE <<>>
             P    == [id : Names, placement_class : Classes, engine : Engines]
  <2>1. f.providers \in Seq(P)
    BY FilesAssumption
  <2>2. Len(f.providers) \in Nat /\ DOMAIN f.providers = 1..Len(f.providers)
        /\ \A i \in 1..Len(f.providers) : f.providers[i] \in P
    BY <2>1, LenProperties, ElementOfSeq
  <2>3. own \in [1..Len(f.providers) -> Declared]
    BY <2>2 DEF Declared, ProviderFrom
  <2>4. own \in Seq(Declared) /\ Len(own) = Len(f.providers)
    BY <2>2, <2>3, SeqDef
  <2>5. \A i \in 1..Len(own) : own[i].placement_class = f.providers[i].placement_class
    BY <2>2, <2>4 DEF ProviderFrom
  <2>6. more \in Seq(Declared) /\ (~ f.include_sim_cloud => Len(more) = 0)
    <3>1. SimCloud \in Declared
      BY NamesAssumption DEF SimCloud, Declared
    <3>2. <<SimCloud>> \in Seq(Declared) /\ <<>> \in Seq(Declared) /\ Len(<<>>) = 0
      BY <3>1
    <3>3. CASE f.include_sim_cloud
      BY <3>2, <3>3
    <3>4. CASE ~ f.include_sim_cloud
      BY <3>2, <3>4
    <3> QED BY <3>3, <3>4
  <2>7. DeclaredFleet(f) = own \o more
    BY DEF DeclaredFleet
  <2> HIDE DEF own, more
  <2>8. /\ own \o more \in Seq(Declared)
        /\ Len(own \o more) = Len(own) + Len(more)
        /\ \A i \in 1..(Len(own) + Len(more)) :
             (own \o more)[i] = IF i <= Len(own) THEN own[i] ELSE more[i - Len(own)]
    BY <2>4, <2>6, ConcatProperties
  <2>9. ASSUME NEW i \in DOMAIN DeclaredFleet(f),
               DeclaredFleet(f)[i].placement_class = "cloud"
        PROVE  AsksForCloud(f)
    <3>1. i \in 1..(Len(own) + Len(more)) /\ Len(own) \in Nat /\ Len(more) \in Nat
      BY <2>4, <2>6, <2>7, <2>8, <2>9, LenProperties
    <3>2. CASE i <= Len(own)
      <4>1. f.providers[i].placement_class = "cloud" /\ i \in DOMAIN f.providers
        BY <2>2, <2>4, <2>5, <2>7, <2>8, <2>9, <3>1, <3>2
      <4> QED BY <4>1 DEF AsksForCloud
    <3>3. CASE ~ i <= Len(own)
      <4>1. Len(more) # 0
        BY <3>1, <3>3
      <4> QED BY <2>6, <4>1 DEF AsksForCloud
    <3> QED BY <3>2, <3>3
  <2>10. ASSUME DeclaredFleet(f) = <<>>
         PROVE  f.providers = <<>>
    <3>1. Len(own) + Len(more) = 0 /\ Len(own) \in Nat /\ Len(more) \in Nat
      BY <2>4, <2>6, <2>7, <2>8, <2>10, LenProperties
    <3>2. Len(f.providers) = 0
      BY <2>4, <3>1
    <3> QED BY <2>1, <3>2, EmptySeq
  <2> QED BY <2>9, <2>10
<1>2. ASSUME NEW b \in BOOLEAN, NEW i \in DOMAIN DefaultFleet(b),
             DefaultFleet(b)[i].placement_class = "cloud"
      PROVE  ~ b
  <2> SUFFICES ASSUME b PROVE FALSE
    OBVIOUS
  <2>1. LocalUpstream \in Declared
    BY NamesAssumption DEF LocalUpstream, Declared
  <2>2. <<LocalUpstream>> \in Seq(Declared)
    BY <2>1
  <2>3. DefaultFleet(b) = <<LocalUpstream>>
    BY <2>2, ConcatEmptySeq DEF DefaultFleet
  <2>4. DOMAIN <<LocalUpstream>> = 1..1 /\ <<LocalUpstream>>[1] = LocalUpstream
    OBVIOUS
  <2>5. i = 1
    <3>1. i \in DOMAIN <<LocalUpstream>>
      BY <2>3
    <3>2. i \in 1..1
      BY <2>4, <3>1
    <3> QED BY <3>2
  <2>6. LocalUpstream.placement_class = "cloud"
    BY <1>2, <2>3, <2>4, <2>5
  <2> QED BY <2>6 DEF LocalUpstream
<1> QED BY <1>1, <1>2

(* No server serves a cloud provider that neither its file nor the shipped  *)
(* fleet, where the command line leaves it, has asked for.                  *)
THEOREM CloudIsOptIn == Spec => []CloudIsAskedFor
<1>1. IInv => CloudIsAskedFor
  <2> SUFFICES ASSUME IInv, stage = "serving", NEW i \in DOMAIN config.fleet,
                      config.fleet[i].placement_class = "cloud"
               PROVE  \/ setup.file # None /\ AsksForCloud(setup.file)
                      \/ /\ ~ setup.no_sim_cloud
                         /\ setup.file # None => setup.file.providers = <<>>
    BY DEF CloudIsAskedFor
  <2>1. /\ setup.file \in {None} \cup Files /\ setup.no_sim_cloud \in BOOLEAN
        /\ config.fleet = IF setup.file = None \/ DeclaredFleet(setup.file) = <<>>
                          THEN DefaultFleet(setup.no_sim_cloud) ELSE DeclaredFleet(setup.file)
    BY DEF IInv, TypeOK, Setups, FleetIsDeclared
  <2>2. CASE setup.file = None \/ DeclaredFleet(setup.file) = <<>>
    <3>1. ~ setup.no_sim_cloud
      BY <2>1, <2>2, WhereCloudComesFrom
    <3> QED BY <2>1, <2>2, <3>1, WhereCloudComesFrom
  <2>3. CASE ~ (setup.file = None \/ DeclaredFleet(setup.file) = <<>>)
    BY <2>1, <2>3, WhereCloudComesFrom
  <2> QED BY <2>2, <2>3
<1> QED BY <1>1, Invariance, PTL
=============================================================================
