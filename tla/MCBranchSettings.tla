-------------------------- MODULE MCBranchSettings --------------------------
(* Instances of BranchSettings for TLC. *)
EXTENDS BranchSettings, TLC

Number(n, unit) == [n |-> n, unit |-> unit]
Mode(m) == [n |-> m, unit |-> "mode"]

ParameterSpec(kind, default, min, max, ext, since) ==
    [kind |-> kind, default |-> default, min |-> min, max |-> max, ext |-> ext,
     since |-> since, values |-> {Mode(1), Mode(2)}, allowEmpty |-> kind = "string"]

MCConfigurableParameters ==
    [work_mem |-> ParameterSpec("bytes", Number(1, "MB"), Number(512, "kB"), Number(4, "MB"), "none", 1),
     wal_level |-> ParameterSpec("enum", Mode(1), NoBound, NoBound, "none", 18),
     timeout |-> ParameterSpec("duration", Number(1, "min"), Number(10, "s"), Number(1, "h"), "none", 1),
     jit |-> ParameterSpec("boolean", [n |-> 1, unit |-> "boolean"], NoBound, NoBound, "none", 1),
     role |-> ParameterSpec("string", EmptyText, NoBound, NoBound, "audit", 1),
     stat_max |-> ParameterSpec("int", Number(5, "none"), Number(1, "none"), NoBound, "stat", 1)]

MCInstanceOverrides ==
    [micro |-> [work_mem |-> [default |-> Number(1, "MB"), max |-> NoBound]],
     small |-> [work_mem |-> [default |-> Number(2, "MB"), max |-> Number(8, "MB")]],
     large |-> [work_mem |-> [default |-> Number(4, "MB"), max |-> Number(16, "MB")]]]

MCVcpus == [micro |-> 1, small |-> 2, large |-> 4]
MCPreloadRequired == [postgres |-> [stat |-> TRUE, audit |-> TRUE, hash |-> FALSE], analytics |-> [stat |-> TRUE]]
MCDefaultLibraries == [postgres |-> {"stat"}, analytics |-> {"stat"}]

PostgresImage(major, minor) == [offering |-> "postgres", major |-> major, minor |-> minor]

Settings(type, params, libs) ==
    [type |-> type, image |-> PostgresImage(17, 5), storage |-> 10, replicas |-> 0, params |-> params, libs |-> libs]

MCConfigurations ==
    { Settings("small", "work_mem" :> Number(6, "MB"), {}),
      Settings("micro", "work_mem" :> Number(6, "MB"), {}),
      Settings("micro", NoParams, {"audit"}),
      [Settings("micro", "wal_level" :> Mode(2), {"stat"}) EXCEPT !.image = PostgresImage(18, 0)] }

MCBodies ==
    { KeepBody, [KeepBody EXCEPT !.name = "dev"],
      [KeepBody EXCEPT !.type = "micro"], [KeepBody EXCEPT !.type = "small", !.name = "dev"],
      [KeepBody EXCEPT !.type = "large"],
      [KeepBody EXCEPT !.type = "micro", !.withParams = TRUE, !.params = "work_mem" :> Number(2, "MB")],
      [KeepBody EXCEPT !.withParams = TRUE, !.params = "work_mem" :> Number(8192, "kB")],
      [KeepBody EXCEPT !.withParams = TRUE, !.params = "stat_max" :> Number(7, "none"), !.name = "old"],
      [KeepBody EXCEPT !.withParams = TRUE, !.params = "work_mem" :> Number(1, "lot")],
      [KeepBody EXCEPT !.withLibs = TRUE, !.libs = {"audit"}],
      [KeepBody EXCEPT !.withLibs = TRUE, !.libs = {"stat"}, !.type = "micro"],
      [KeepBody EXCEPT !.withLibs = TRUE, !.libs = {"hash"}],
      [KeepBody EXCEPT !.image = PostgresImage(17, 6), !.storage = 20],
      [KeepBody EXCEPT !.image = PostgresImage(18, 1)], [KeepBody EXCEPT !.storage = 5],
      [KeepBody EXCEPT !.image = PostgresImage(17, 4), !.type = "micro"],
      [KeepBody EXCEPT !.type = "custom", !.storage = 15, !.replicas = 1],
      [KeepBody EXCEPT !.replicas = 4], [KeepBody EXCEPT !.schedule = "daily"] }
=============================================================================
