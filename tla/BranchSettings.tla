---------------------------- MODULE BranchSettings ----------------------------
(* The Postgres settings of a branch as the projects API keeps them:            *)
(* CreateBranch and UpdateBranch (projects/api/handler.go, projects/branch) work *)
(* out the parameters, preload libraries, instance type and image of a branch    *)
(* from a request, from what the cell describes, and from the parameters that    *)
(* exist (internal/postgrescfg), and send the difference to the cell.            *)
(* Two requests may work on the branch at once: each describes the cluster in    *)
(* one call and updates it in another, within a transaction of the store that    *)
(* locks the row of the branch only when it renames it.                          *)
EXTENDS Integers, FiniteSets

CONSTANTS
    Clients,                \* concurrent requests
    configurableParameters, \* parameters.yaml: [name -> ParameterSpec]
    InstanceOverrides,      \* instance type -> parameter -> [default, max]
    PreloadRequired,        \* offering -> extensions that have to be preloaded
    DefaultLibraries,       \* offering -> libraries preloaded by default
    Bodies,                 \* bodies of updates, see KeepBody
    Configurations,         \* configurations of new branches
    BackupsEnabled,         \* whether the region has backups
    MinInstances,           \* limits of the organization, 0 for no limit on storage
    MaxInstances,
    MaxStorage,
    MaxVcpus,               \* MaxAllowedInstanceType of the organization, 0 for none
    Vcpus,                  \* instance type -> its size
    MaxSettingRequests      \* bound on the requests

FallbackInstanceType == "custom"
InternalPreloadLibraries == {"xatautils"}

(* A value is a number with what follows it, or one of the words of its unit. *)
NoBound == [n |-> -1, unit |-> "none"]
EmptyText == [n |-> 0, unit |-> "empty"]
NoParams == [p \in {} |-> NoBound]

(* What set says comes first (maps.Copy). *)
Over(set, params) ==
    [p \in DOMAIN set \cup DOMAIN params |-> IF p \in DOMAIN set THEN set[p] ELSE params[p]]

Image == [offering : {"postgres", "analytics"}, major : Nat, minor : Nat]
KeepImage == [offering |-> "keep", major |-> 0, minor |-> 0]

(* ParameterType, and the fields of PostgresParameterSpec that decide. *)
Measured == {"int", "float", "bytes", "duration"}
ParameterTypes == Measured \cup {"string", "enum", "boolean"}
SpecFields == {"kind", "default", "min", "max", "values", "ext", "since", "allowEmpty"}

ASSUME SettingsAssumption ==
    /\ \A p \in DOMAIN configurableParameters :
         /\ DOMAIN configurableParameters[p] = SpecFields
         /\ configurableParameters[p].kind \in ParameterTypes
    /\ FallbackInstanceType \notin DOMAIN InstanceOverrides
    /\ DOMAIN Vcpus = DOMAIN InstanceOverrides
    /\ \A t \in DOMAIN InstanceOverrides :
         DOMAIN InstanceOverrides[t] \subseteq DOMAIN configurableParameters
    /\ \A c \in Configurations : c.image \in Image

VARIABLES
    pgCluster,       \* what the Branch object of the cell says
    branchRow,       \* the row of the branch: its name, and the request that has it locked
    update,          \* the requests
    mixed,           \* two updates of the settings have overlapped
    settingRequests  \* requests so far

settingsVars == <<pgCluster, branchRow, update, mixed, settingRequests>>

-----------------------------------------------------------------------------
(* internal/postgrescfg. *)

(* What a number may be followed by, in each kind of parameter. *)
NumberUnit == [none |-> 1]

(* parseBytes: a number alone is in bytes. *)
ByteUnit == [none |-> 1, kB |-> 1024, MB |-> 1024 * 1024]

(* parseDuration: a number alone is multiplied by a unit that was never set. *)
DurationUnit == [none |-> 0, s |-> 1, min |-> 60, h |-> 3600]

UnitsOf(kind) ==
    CASE kind \in {"int", "float"} -> NumberUnit
      [] kind = "bytes" -> ByteUnit
      [] kind = "duration" -> DurationUnit

Parses(units, v) == v.unit \in DOMAIN units
Quantity(units, v) == v.n * units[v.unit]

(* GetConfigurableParameters: the parameters of the version, and of extensions   *)
(* that the image has and that are loaded if they have to be.                    *)
GetConfigurableParameters(image, libs) ==
    { p \in DOMAIN configurableParameters :
        LET spec == configurableParameters[p] IN
        /\ spec.since <= image.major
        /\ spec.ext # "none" =>
             /\ spec.ext \in DOMAIN PreloadRequired[image.offering]
             /\ PreloadRequired[image.offering][spec.ext] => spec.ext \in libs }

(* MergeParametersMaps: what the instance type says comes first. *)
MergeParametersMaps(p, t) ==
    IF p \notin DOMAIN InstanceOverrides[t] THEN configurableParameters[p]
    ELSE LET over == InstanceOverrides[t][p] IN
         [configurableParameters[p] EXCEPT
            !.default = over.default,
            !.max = IF over.max = NoBound THEN @ ELSE over.max]

(* GetParametersSpec; it fails for an instance type that is not known. *)
GetParametersSpec(t, image, libs) ==
    [p \in GetConfigurableParameters(image, libs) |-> MergeParametersMaps(p, t)]

(* GetDefaultPostgresParameters. *)
GetDefaultPostgresParameters(t, image, libs) ==
    LET specs == GetParametersSpec(t, image, libs) IN
    [p \in DOMAIN specs |-> specs[p].default]

InBounds(units, spec, v) ==
    /\ Parses(units, v)
    /\ spec.min # NoBound => ~(Quantity(units, v) < Quantity(units, spec.min))
    /\ spec.max # NoBound => ~(Quantity(units, v) > Quantity(units, spec.max))

validateNumberValue(spec, v) == InBounds(NumberUnit, spec, v)
validateBytesValue(spec, v) == InBounds(ByteUnit, spec, v)
validateDurationValue(spec, v) == InBounds(DurationUnit, spec, v)
validateEnumValue(spec, v) == v \in spec.values
validateBooleanValue(v) == v.unit = "boolean"

(* ValidateParameterValue. *)
ValidateParameterValue(spec, v) ==
    CASE spec.kind \in {"int", "float"} -> validateNumberValue(spec, v)
      [] spec.kind = "bytes" -> validateBytesValue(spec, v)
      [] spec.kind = "duration" -> validateDurationValue(spec, v)
      [] spec.kind = "enum" -> validateEnumValue(spec, v)
      [] spec.kind = "boolean" -> validateBooleanValue(v)
      [] spec.kind = "string" -> v # EmptyText \/ spec.allowEmpty

(* ValidateSettings, for an instance type that is known. *)
ValidateSettings(t, params, image, libs) ==
    LET specs == GetParametersSpec(t, image, libs) IN
    \A p \in DOMAIN params :
        p \in DOMAIN specs /\ ValidateParameterValue(specs[p], params[p])

(* adjust...ToBounds: the bound as it is written in the spec; a value that does  *)
(* not parse stays.                                                              *)
NearestInBounds(units, spec, v) ==
    CASE ~Parses(units, v) -> v
      [] Parses(units, v) /\ spec.max # NoBound /\ Quantity(units, v) > Quantity(units, spec.max) -> spec.max
      [] Parses(units, v) /\ spec.min # NoBound /\ Quantity(units, v) < Quantity(units, spec.min) -> spec.min
      [] OTHER -> v

(* AdjustValueToBounds. *)
AdjustValueToBounds(v, spec) ==
    IF spec.kind \in Measured THEN NearestInBounds(UnitsOf(spec.kind), spec, v) ELSE v

(* Every default is valid and the bounds are in order, for every instance type;  *)
(* instance types say nothing about the parameters of extensions.                *)
ASSUME ParametersAssumption ==
    \A p \in DOMAIN configurableParameters :
      LET base == configurableParameters[p] IN
      /\ base.ext # "none" =>
           /\ \A t \in DOMAIN InstanceOverrides : p \notin DOMAIN InstanceOverrides[t]
           /\ ValidateParameterValue(base, base.default)
      /\ \A t \in DOMAIN InstanceOverrides :
           LET spec == MergeParametersMaps(p, t) IN
           /\ ValidateParameterValue(spec, spec.default)
           /\ spec.kind \in Measured =>
                \A b \in {spec.min, spec.max} \ {NoBound} : InBounds(UnitsOf(spec.kind), spec, b)

(* FilterConfigurableParameters. *)
FilterConfigurableParameters(params, image, libs) ==
    [p \in DOMAIN params \cap GetConfigurableParameters(image, libs) |-> params[p]]

(* ValidatePreloadLibraries. *)
ValidatePreloadLibraries(image, libs) ==
    \A l \in libs : /\ l \in DOMAIN PreloadRequired[image.offering]
                    /\ PreloadRequired[image.offering][l]

-----------------------------------------------------------------------------
(* projects/branch. *)

(* InstanceTypeByName: known, and within the limit of the organization. *)
InstanceTypeByName(t) == t \in DOMAIN Vcpus /\ (MaxVcpus # 0 => Vcpus[t] <= MaxVcpus)

(* ValidateImageUpgrade. *)
ValidateImageUpgrade(new, current) ==
    /\ new.offering = current.offering
    /\ new.major = current.major
    /\ new.minor >= current.minor

(* PayloadFromConfiguration: given libraries or the default ones, parameters on   *)
(* top of the default ones.                                                       *)
PayloadLibraries(c) == IF c.libs = {} THEN DefaultLibraries[c.image.offering] ELSE c.libs

PayloadFromConfiguration(c) ==
    [there |-> TRUE, type |-> c.type, image |-> c.image, storage |-> c.storage,
     instances |-> c.replicas + 1, schedule |-> "default",
     libs |-> PayloadLibraries(c) \cup InternalPreloadLibraries,
     params |-> Over(c.params, GetDefaultPostgresParameters(c.type, c.image, PayloadLibraries(c)))]

(* ValidateStorage and ValidateReplicaCount, for storage and replicas that are given. *)
ValidStorage(gb) == MaxStorage # 0 => gb <= MaxStorage
ValidReplicas(n) == n + 1 \in MinInstances..MaxInstances

ValidConfiguration(c) ==
    /\ ValidStorage(c.storage)
    /\ ValidReplicas(c.replicas)
    /\ InstanceTypeByName(c.type)
    /\ ValidatePreloadLibraries(c.image, c.libs)
    /\ ValidateSettings(c.type, c.params, c.image, PayloadLibraries(c))

NoPgCluster == [there |-> FALSE, type |-> "none", image |-> KeepImage, storage |-> 0,
                instances |-> 0, schedule |-> "none", libs |-> {}, params |-> NoParams]

-----------------------------------------------------------------------------
(* UpdateBranch. *)

(* What the body leaves out is "keep", 0, NoReplicas, or not given. *)
NoReplicas == -1
KeepBody == [name |-> "keep", type |-> "keep", storage |-> 0, image |-> KeepImage,
             replicas |-> NoReplicas, schedule |-> "keep",
             withParams |-> FALSE, params |-> NoParams, withLibs |-> FALSE, libs |-> {}]

Touches(b) == b.type # "keep" \/ b.withParams \/ b.withLibs

hasClusterConfigChanged(b) ==
    \/ Touches(b) \/ b.storage # 0 \/ b.image # KeepImage
    \/ b.replicas # NoReplicas \/ b.schedule # "keep"

(* The checks before anything is read. *)
ValidBody(b) ==
    /\ b.name # "keep" \/ hasClusterConfigChanged(b)
    /\ b.replicas # NoReplicas => ValidReplicas(b.replicas)
    /\ b.storage # 0 => ValidStorage(b.storage)
    /\ b.image # KeepImage => ~Touches(b)
    /\ b.schedule # "bad"

ChangesType(b) == b.type \notin {"keep", FallbackInstanceType}

(* Mutant of ParamsForType: values that are not at their default are kept. *)
ParamsForTypeUnclamped(b, c) ==
    LET old == GetParametersSpec(c.type, c.image, c.libs)
        new == GetParametersSpec(b.type, c.image, c.libs)
        updated == [p \in DOMAIN c.params |->
                      IF p \in DOMAIN old \cap DOMAIN new /\ c.params[p] = old[p].default
                      THEN new[p].default ELSE c.params[p]]
    IN Over(updated, [p \in DOMAIN new |-> new[p].default])

(* The settings of another instance type: a parameter at its default goes to     *)
(* the new default, any other one is brought within the new bounds, and the       *)
(* parameters that were not set get their defaults.                               *)
ParamsForType(b, c) ==
    LET old == GetParametersSpec(c.type, c.image, c.libs)
        new == GetParametersSpec(b.type, c.image, c.libs)
        updated == [p \in DOMAIN c.params |->
                      CASE p \notin DOMAIN old \cap DOMAIN new -> c.params[p]
                        [] p \in DOMAIN old \cap DOMAIN new /\ c.params[p] = old[p].default -> new[p].default
                        [] OTHER -> AdjustValueToBounds(c.params[p], new[p])]
    IN Over(updated, [p \in DOMAIN new |-> new[p].default])

(* The instance type that given parameters are validated for.  When the body     *)
(* has one, it is overwritten by the fallback.                                    *)
TypeForValidation(b, c) == IF b.type # "keep" THEN FallbackInstanceType ELSE c.type

Refusal(b, c) ==
    CASE ChangesType(b) /\ ~InstanceTypeByName(b.type) -> "invalid"
      [] ~c.there -> "missing"
      [] b.storage # 0 /\ b.storage < c.storage -> "invalid"
      [] b.withLibs /\ ~ValidatePreloadLibraries(c.image, b.libs) -> "invalid"
      [] ChangesType(b) /\ b.type # c.type /\ c.type = FallbackInstanceType -> "internal"
      [] b.withParams /\ TypeForValidation(b, c) = FallbackInstanceType -> "internal"
      [] b.withParams /\ ~ValidateSettings(TypeForValidation(b, c), b.params, c.image,
                                           IF b.withLibs THEN b.libs ELSE c.libs) -> "invalid"
      [] b.schedule # "keep" /\ ~BackupsEnabled -> "invalid"
      [] b.image # KeepImage /\ ~ValidateImageUpgrade(b.image, c.image) -> "invalid"
      [] OTHER -> "none"

(* Libraries: the parameters of the ones that are not loaded any more are left    *)
(* out, and the extensions that are loaded get their defaults.                    *)
ParamsForLibraries(params, image, libs) ==
    Over(FilterConfigurableParameters(params, image, libs),
         [p \in {q \in GetConfigurableParameters(image, libs) : configurableParameters[q].ext # "none"}
            |-> configurableParameters[p].default])

(* The parameters that are sent, none if they do not change. *)
ConfigParams(b, c) ==
    LET libs == b.libs \cup InternalPreloadLibraries
        otherType == ChangesType(b) /\ b.type # c.type
        set == CASE b.withParams -> b.params
                 [] ~b.withParams /\ otherType -> ParamsForType(b, c)
                 [] OTHER -> IF b.withLibs THEN c.params ELSE NoParams
    IN IF b.withLibs THEN ParamsForLibraries(set, c.image, libs) ELSE set

Config(b, c) ==
    [type |-> IF ChangesType(b) THEN b.type ELSE "keep",
     image |-> b.image, storage |-> b.storage, params |-> ConfigParams(b, c),
     instances |-> b.replicas + 1, schedule |-> b.schedule,
     libs |-> IF b.withLibs THEN b.libs \cup InternalPreloadLibraries ELSE {}]

(* UpdatePostgresCluster, WithUpdatesFrom: parameters are merged, libraries are   *)
(* replaced; the Branch object refuses less storage.                              *)
MergedUpdates(c, config) ==
    [c EXCEPT !.type = IF config.type = "keep" THEN @ ELSE config.type,
              !.image = IF config.image = KeepImage THEN @ ELSE config.image,
              !.storage = IF config.storage = 0 THEN @ ELSE config.storage,
              !.instances = IF config.instances = 0 THEN @ ELSE config.instances,
              !.schedule = IF config.schedule = "keep" THEN @ ELSE config.schedule,
              !.params = Over(config.params, @),
              !.libs = IF config.libs = {} THEN @ ELSE config.libs]

-----------------------------------------------------------------------------
NoCall == [pc |-> "idle", body |-> KeepBody, config |-> Config(KeepBody, NoPgCluster),
           answer |-> "none"]

SettingsInit ==
    /\ pgCluster = NoPgCluster
    /\ branchRow = [name |-> "main", locked |-> "none"]
    /\ update = [c \in Clients |-> NoCall]
    /\ mixed = FALSE
    /\ settingRequests = 0

UpdateAt(c, pc) == update' = [update EXCEPT ![c].pc = pc]

(* The request returns, and its transaction ends. *)
EndUpdate(c, a) ==
    /\ update' = [update EXCEPT ![c] = [NoCall EXCEPT !.answer = a, !.body = update[c].body]]
    /\ branchRow' = [branchRow EXCEPT !.locked = IF @ = c THEN "none" ELSE @]

(* CreateBranch, from a configuration. *)
CreateRootBranch(config) ==
    /\ ~pgCluster.there
    /\ settingRequests < MaxSettingRequests
    /\ settingRequests' = settingRequests + 1
    /\ pgCluster' = IF ValidConfiguration(config) THEN PayloadFromConfiguration(config) ELSE pgCluster
    /\ UNCHANGED <<branchRow, update, mixed>>

(* Someone amends the resources of the cluster by hand: they match no type. *)
AmendResources ==
    /\ pgCluster.there
    /\ pgCluster' = [pgCluster EXCEPT !.type = FallbackInstanceType]
    /\ UNCHANGED <<branchRow, update, mixed, settingRequests>>

(* A body that is not valid is refused at once. *)
StartUpdate(c, b) ==
    /\ update[c].pc = "idle"
    /\ pgCluster.there
    /\ settingRequests < MaxSettingRequests
    /\ settingRequests' = settingRequests + 1
    /\ IF ValidBody(b)
       THEN /\ update' = [update EXCEPT ![c] = [NoCall EXCEPT !.pc = "branchRow", !.body = b]]
            /\ UNCHANGED branchRow
       ELSE EndUpdate(c, "invalid")
    /\ UNCHANGED <<pgCluster, mixed>>

(* UpdateBranch of the store: the row is read, or changed and so locked; another *)
(* branch may have the name.                                                     *)
ReadRow(c) ==
    /\ update[c].pc = "branchRow"
    /\ LET b == update[c].body
           next == IF hasClusterConfigChanged(b) THEN "describe" ELSE "commit" IN
       \/ b.name = "keep" /\ UpdateAt(c, next) /\ UNCHANGED branchRow
       \/ /\ b.name # "keep" /\ branchRow.locked = "none"
          /\ \/ UpdateAt(c, next) /\ branchRow' = [branchRow EXCEPT !.locked = c]
             \/ EndUpdate(c, "exists")
    /\ UNCHANGED <<pgCluster, mixed, settingRequests>>

(* DescribePostgresCluster, and all that follows from it; any call may fail. *)
DescribePostgresCluster(c) ==
    /\ update[c].pc = "describe"
    /\ LET b == update[c].body r == Refusal(b, pgCluster) IN
       \/ /\ r = "none"
          /\ update' = [update EXCEPT ![c].pc = "write", ![c].config = Config(b, pgCluster)]
          /\ UNCHANGED branchRow
       \/ /\ r # "none"
          /\ EndUpdate(c, r)
       \/ EndUpdate(c, "failed")
    /\ UNCHANGED <<pgCluster, mixed, settingRequests>>

Writing == {c \in Clients : update[c].pc = "write" /\ Touches(update[c].body)}

(* UpdatePostgresCluster; when it fails, it may have taken effect. *)
SendUpdate(c) ==
    /\ update[c].pc = "write"
    /\ LET config == update[c].config IN
       \/ /\ config.storage = 0 \/ config.storage >= pgCluster.storage
          /\ pgCluster' = MergedUpdates(pgCluster, config)
          /\ mixed' = (mixed \/ (Touches(update[c].body) /\ Writing # {c}))
          /\ \/ UpdateAt(c, "commit") /\ UNCHANGED branchRow
             \/ EndUpdate(c, "failed")
       \/ /\ EndUpdate(c, "failed")
          /\ UNCHANGED <<pgCluster, mixed>>
    /\ UNCHANGED settingRequests

(* The commit of the row. *)
CommitBranchUpdate(c) ==
    /\ update[c].pc = "commit"
    /\ LET named == IF update[c].body.name = "keep" THEN branchRow.name ELSE update[c].body.name IN
       \/ /\ update' = [update EXCEPT ![c] = [NoCall EXCEPT !.answer = "ok", !.body = update[c].body]]
          /\ branchRow' = [name |-> named, locked |-> IF branchRow.locked = c THEN "none" ELSE branchRow.locked]
       \/ EndUpdate(c, "failed")
    /\ UNCHANGED <<pgCluster, mixed, settingRequests>>

SettingsNext ==
    \/ \E config \in Configurations : CreateRootBranch(config)
    \/ AmendResources
    \/ \E c \in Clients :
         \/ \E b \in Bodies : StartUpdate(c, b)
         \/ ReadRow(c) \/ DescribePostgresCluster(c) \/ SendUpdate(c) \/ CommitBranchUpdate(c)

SettingsSpec == SettingsInit /\ [][SettingsNext]_settingsVars

-----------------------------------------------------------------------------
(* Properties *)

Known(type) == type # FallbackInstanceType

(* Whatever sequence of requests has been answered, every parameter of a branch   *)
(* that its image and libraries have is within the bounds of its instance type:   *)
(* parameters that were set for a larger type follow when the type changes, and   *)
(* the ones a request brings are held to the type that the branch then has         *)
(* (UpdateBranch, PayloadFromConfiguration).  Only two updates that describe the  *)
(* cluster before either of them writes can leave it otherwise.                   *)
SettingsFit ==
    (pgCluster.there /\ ~mixed /\ Known(pgCluster.type)) =>
        LET specs == GetParametersSpec(pgCluster.type, pgCluster.image, pgCluster.libs) IN
        \A p \in DOMAIN pgCluster.params \cap DOMAIN specs :
            ValidateParameterValue(specs[p], pgCluster.params[p])
=============================================================================
