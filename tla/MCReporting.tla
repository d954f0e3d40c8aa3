----------------------------- MODULE MCReporting -----------------------------
(* Instance of Reporting: what a shell runs, and the bounds it runs in.    *)
(* Watched and failing are kept apart where both together would only       *)
(* multiply.  In the plan with no range only a run of mine-once that fails *)
(* early is followed by another command.                                   *)
EXTENDS Reporting

Limits(faultCount, rotationCount, ranges, losses, watched) ==
    [faults |-> faultCount, rotations |-> rotationCount, ranges |-> ranges,
     losses |-> losses, turns |-> 0, watched |-> watched, inputs |-> "plain"]

Turns(count, bounds) == [bounds EXCEPT !.turns = count]

AllInputs == [Limits(0, 0, 0, 0, FALSE) EXCEPT !.inputs = "all"]

(* Layers of controls that name a device, a list, a whole configuration or *)
(* one control only.                                                       *)
Nothing == [c \in {} |-> 0]

Layers ==
    {Nothing,
     [backend_name |-> "native"],
     [backend_name |-> "cpu"],
     [worker_count |-> 3],
     [chunk_size |-> 7],
     [cuda_device |-> 1],
     [cuda_devices |-> {1}],
     [cuda_devices |-> {0, 1}],
     [backend_name |-> "native-parallel", worker_count |-> 40, chunk_size |-> 9],
     [backend_name |-> "cuda", cuda_device |-> 1, cuda_threads_per_block |-> 512,
      chunk_size |-> 8],
     [backend_name |-> "cuda-multi", cuda_devices |-> {1, 2},
      cuda_threads_per_block |-> 64]}

Asked(profile, env) ==
    [profile |-> "none", environment_profile |-> profile, cli |-> Nothing, env |-> env]

(* Plainly: no profile, one that resolves, and one that is refused.        *)
MCRequests ==
    [plain |-> {Asked("none", [backend_name |-> "native"]), Asked("auto", Nothing),
                Asked("lite", [backend_name |-> "native"])},
     all |-> [profile : {"none", "lite", "auto", "max", "custom"},
              environment_profile : {"none", "auto", "custom"},
              cli : Layers, env : Layers]]

MCMachines ==
    LET Machine == [cpus : {0, 5, 40}, native : BOOLEAN,
                    devices : {{}, {0}, {1}, {0, 1}, {0, 1, 2}}]
    IN  [plain |-> {[cpus |-> 5, native |-> TRUE, devices |-> {}]}, all |-> Machine]

Plan(commands, bounds) == [commands |-> commands, limits |-> bounds]

MCSchedules ==
    {Plan(<<"stratum-mine">>, Turns(1, Limits(1, 0, 1, 1, FALSE))),
     Plan(<<"stratum-mine">>, Turns(2, Limits(0, 0, 1, 1, FALSE))),
     Plan(<<"stratum-mine">>, Turns(2, Limits(0, 0, 2, 0, FALSE))),
     Plan(<<"stratum-mine-once">>, Limits(2, 0, 1, 0, FALSE)),
     Plan(<<"stratum-mine">>, Turns(1, Limits(0, 0, 1, 0, TRUE))),
     Plan(<<"stratum-mine-chunks">>, Limits(1, 0, 2, 0, FALSE)),
     Plan(<<"stratum-observe">>, Limits(1, 0, 0, 0, FALSE)),
     Plan(<<"stratum-handshake", "stratum-mine-once">>, Limits(1, 0, 1, 0, FALSE)),
     Plan(<<"stratum-mine-once">>, Limits(1, 0, 1, 0, TRUE)),
     Plan(<<"stratum-mine-once", "stratum-handshake">>, Limits(0, 1, 0, 0, TRUE)),
     Plan(<<"stratum-mine-once", "stratum-mine-once">>, Limits(1, 0, 1, 0, FALSE)),
     Plan(<<"bitcoin-core-check">>, Limits(1, 0, 0, 0, FALSE)),
     Plan(<<"solo-hash">>, Limits(1, 0, 1, 1, FALSE)),
     Plan(<<"solo-mine">>, Limits(1, 0, 1, 0, FALSE)),
     Plan(<<"solo-mine">>, Limits(0, 0, 2, 0, FALSE)),
     Plan(<<"stratum-mine">>, AllInputs)}
=============================================================================
