--------------------------- MODULE ComputeProfiles ---------------------------
(***************************************************************************)
(* From what a user asks for to the backend a search command builds: the   *)
(* controls given on the command line and in the environment, the profile  *)
(* that resolves them against what the machine offers, and the settings    *)
(* the registry of backends is made from.                                  *)
(*                                                                         *)
(* A layer of controls is a function defined on the controls that were     *)
(* given.  An operator that may refuse returns a set: of its one result,   *)
(* or empty.  A device list is the set of its ordinals, a delay counts     *)
(* milliseconds.                                                           *)
(***************************************************************************)
EXTENDS Integers, FiniteSets, FiniteSetsExt

NoControls == [c \in {} |-> 0]

Setting(controls, c, default) ==
    IF c \in DOMAIN controls THEN controls[c] ELSE default

(* What over says, and what only under says. *)
Layered(over, under) ==
    [c \in DOMAIN over \cup DOMAIN under |->
       IF c \in DOMAIN over THEN over[c] ELSE under[c]]

(* Mutant: what the environment says wins. *)
MergedUnder(layer, fallback) == Layered(fallback, layer)

MergedOver(layer, fallback) == Layered(layer, fallback)

Profiles == {"lite", "auto", "max", "custom"}

-----------------------------------------------------------------------------
(* What the probes of a profile see: the devices that open and close, the  *)
(* native extension, and the number of processors, 0 when not known.       *)
CudaAvailable(machine, devices) == devices \subseteq machine.devices

CpuCount(machine) == IF machine.cpus = 0 THEN 1 ELSE Min({machine.cpus, 256})

(* Half of the processors but not more than 8, or all but not more than 32.*)
Workers(profile, machine) ==
    IF profile = "auto" THEN Min({CpuCount(machine) \div 2, 8})
    ELSE Min({CpuCount(machine), 32})

Cuda(device) ==
    [backend_name |-> "cuda", cuda_device |-> device, cuda_threads_per_block |-> 256]

CudaMulti(devices) ==
    [backend_name |-> "cuda-multi", cuda_devices |-> devices,
     cuda_threads_per_block |-> 256]

(* The chunk and the pacing of a preset. *)
PresetChunk(profile, backend_name) ==
    CASE backend_name \in {"cuda", "cuda-multi"} ->
           IF profile = "lite" THEN 100000000 ELSE 500000000
      [] backend_name \notin {"cuda", "cuda-multi"} /\ profile = "lite" -> 250000
      [] backend_name = "native-parallel" /\ profile # "lite" ->
           IF profile = "auto" THEN 5000000 ELSE 10000000
      [] backend_name = "native" /\ profile # "lite" ->
           IF profile = "auto" THEN 1000000 ELSE 2000000
      [] backend_name = "python" /\ profile # "lite" ->
           IF profile = "auto" THEN 100000 ELSE 250000

PresetDelay(profile, backend_name) ==
    CASE profile = "lite" -> 50
      [] profile = "auto" /\ backend_name \in {"cuda", "cuda-multi"} -> 80
      [] OTHER -> 0

Preset(profile, backend) ==
    Layered(backend, [chunk_size |-> PresetChunk(profile, backend.backend_name),
                      delay |-> PresetDelay(profile, backend.backend_name)])

RequireCuda(device, machine) ==
    IF CudaAvailable(machine, {device}) THEN {Cuda(device)} ELSE {}

ResolveLite(machine) ==
    CASE CudaAvailable(machine, {0}) -> {Cuda(0)}
      [] ~CudaAvailable(machine, {0}) /\ machine.native ->
           {[backend_name |-> "native"]}
      [] OTHER -> {[backend_name |-> "python"]}

(* Without a device: the first device, the native workers, the interpreter.*)
ResolveUnnamed(profile, machine) ==
    CASE CudaAvailable(machine, {0}) -> {Cuda(0)}
      [] ~CudaAvailable(machine, {0}) /\ machine.native ->
           IF CpuCount(machine) >= 2
           THEN {[backend_name |-> "native-parallel",
                  worker_count |-> Workers(profile, machine)]}
           ELSE {[backend_name |-> "native"]}
      [] OTHER -> {[backend_name |-> "python"]}

ResolveAutomatic(profile, overrides, machine) ==
    LET devices == Setting(overrides, "cuda_devices", {})
    IN  CASE Cardinality(devices) = 1 ->
               RequireCuda(CHOOSE d \in devices : TRUE, machine)
          [] Cardinality(devices) > 1 ->
               IF CudaAvailable(machine, devices) THEN {CudaMulti(devices)} ELSE {}
          [] devices = {} /\ "cuda_device" \in DOMAIN overrides ->
               RequireCuda(overrides.cuda_device, machine)
          [] devices = {} /\ "cuda_device" \notin DOMAIN overrides ->
               ResolveUnnamed(profile, machine)

(* The controls a backend needs, and accepts, beside the chunk and delay. *)
ControlsOf(backend) ==
    CASE backend = "native-parallel" -> {"worker_count"}
      [] backend = "cuda" -> {"cuda_device", "cuda_threads_per_block"}
      [] backend = "cuda-multi" -> {"cuda_devices", "cuda_threads_per_block"}
      [] backend \in {"python", "native"} -> {}

ResolveCustom(overrides, machine) ==
    LET backend == Setting(overrides, "backend_name", "none")
    IN  IF /\ backend \in {"python", "native", "native-parallel", "cuda", "cuda-multi"}
           /\ ControlsOf(backend) \cup {"chunk_size"} \subseteq DOMAIN overrides
           /\ DOMAIN overrides \subseteq
                ControlsOf(backend) \cup {"backend_name", "chunk_size", "delay"}
           /\ backend \in {"native", "native-parallel"} => machine.native
           /\ backend = "cuda" => CudaAvailable(machine, {overrides.cuda_device})
           /\ backend = "cuda-multi" => CudaAvailable(machine, overrides.cuda_devices)
        THEN {Layered(overrides, [delay |-> 0])}
        ELSE {}

ProfileConflict(profile, overrides) ==
    \/ {"cuda_device", "cuda_devices"} \subseteq DOMAIN overrides
    \/ profile = "lite" /\ DOMAIN overrides # {}
    \/ /\ profile \in {"auto", "max"}
       /\ ~(DOMAIN overrides \subseteq {"cuda_device", "cuda_devices"})

ResolveComputeProfile(profile, overrides, machine) ==
    CASE ProfileConflict(profile, overrides) -> {}
      [] ~ProfileConflict(profile, overrides) /\ profile = "custom" ->
           ResolveCustom(overrides, machine)
      [] ~ProfileConflict(profile, overrides) /\ profile = "lite" ->
           {Preset(profile, b) : b \in ResolveLite(machine)}
      [] ~ProfileConflict(profile, overrides) /\ profile \in {"auto", "max"} ->
           {Preset(profile, b) : b \in ResolveAutomatic(profile, overrides, machine)}

-----------------------------------------------------------------------------
(* The profile a continuous session asks for: its option, or the           *)
(* environment's unless a chunk size is given.  Without one, the controls  *)
(* on the command line are left aside, and the environment's settings hold.*)
RequestedProfile(request) ==
    CASE request.profile # "none" -> request.profile
      [] request.profile = "none" /\ "chunk_size" \notin DOMAIN request.cli ->
           request.environment_profile
      [] OTHER -> "none"

(* Settings.from_env: a device list is required for several devices, and   *)
(* what the backend does not need is not read.                             *)
SettingsFromEnv(env) ==
    LET backend == Setting(env, "backend_name", "auto")
    IN  IF backend = "cuda-multi" /\ "cuda_devices" \notin DOMAIN env THEN {}
        ELSE {[backend_name |-> backend,
               worker_count |-> Setting(env, "worker_count", 2),
               cuda_device |->
                 IF backend = "cuda" THEN Setting(env, "cuda_device", 0) ELSE 0,
               cuda_devices |->
                 IF backend = "cuda-multi" THEN env.cuda_devices ELSE {0},
               cuda_threads_per_block |->
                 IF backend \in {"cuda", "cuda-multi"}
                 THEN Setting(env, "cuda_threads_per_block", 256) ELSE 256]}

(* The settings and the plan of a session with a resolved profile. *)
ReplaceSettings(settings, resolved) ==
    [backend_name |-> resolved.backend_name,
     worker_count |-> Setting(resolved, "worker_count", settings.worker_count),
     cuda_device |-> Setting(resolved, "cuda_device", 0),
     cuda_devices |->
       Setting(resolved, "cuda_devices", {Setting(resolved, "cuda_device", 0)}),
     cuda_threads_per_block |-> Setting(resolved, "cuda_threads_per_block", 256),
     chunk_size |-> resolved.chunk_size,
     delay |-> resolved.delay]

(* The backend the registry selects: of all it makes, only this one is     *)
(* initialized, with the controls it takes.                                *)
BackendName(settings) ==
    IF settings.backend_name \in {"auto", "cpu"} THEN "python"
    ELSE settings.backend_name

BackendControls(settings) ==
    LET taken == ControlsOf(BackendName(settings)) \cup
                   ({"chunk_size", "delay"} \cap DOMAIN settings)
    IN  Layered([c \in taken |-> settings[c]], [backend_name |-> BackendName(settings)])
=============================================================================
