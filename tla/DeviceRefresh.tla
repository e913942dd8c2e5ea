--------------------------- MODULE DeviceRefresh ---------------------------
(***************************************************************************)
(* One vendor's devices from the start of the program to its end: the      *)
(* library is loaded, the devices are listed, and every refresh asks the   *)
(* driver for the state of the device and of its processes, derives what   *)
(* the driver did not tell (extract_gpuinfo.c) and shows the result        *)
(* (interface.c), either on the screen or as a snapshot (nvtop.c).         *)
(*                                                                         *)
(* One device of the vendor is followed, and one row stands for the rows   *)
(* of its processes.                                                       *)
(***************************************************************************)
EXTENDS GpuVendor, Integers, Sequences

CONSTANTS
    Vendors,        \* the drivers to look at
    DeviceIds,      \* the devices of a vendor that may be there
    TotalMemory,    \* the memory of the device, in some unit
    MemoryDemands,  \* what the processes say they use: sequences of amounts
    MaxRefreshes,   \* bound: refreshes in a behaviour
    MaxFaults       \* bound: calls in a behaviour that do not find everything

\* The device of rknpu, of which there is one, has the number 1.
ASSUME VendorsAssumption == Vendors \subseteq Drivers
ASSUME DeviceIdsAssumption ==
    DeviceIds \subseteq Nat \ {0} /\ IsFiniteSet(DeviceIds) /\ 1 \in DeviceIds
ASSUME MemoryAssumption == TotalMemory \in Nat /\ MemoryDemands \subseteq Seq(Nat)
ASSUME BoundsAssumption == MaxRefreshes \in Nat /\ MaxFaults \in Nat

VARIABLES
    vendor,     \* the driver
    mode,       \* "interactive" or "snapshot"
    phase,      \* what the program does next
    lib,        \* the library of the vendor
    have,       \* the facts found at the start that hold from then on
    listed,     \* the devices in the list
    count,      \* the number of devices the vendor reported
    dev,        \* the device that is followed
    static,     \* valid fields of gpuinfo_static_info
    valid,      \* valid fields of gpuinfo_dynamic_info
    mig,        \* the last multi instance mode that was read
    sampled,    \* the counters of the device that were read before
    last,       \* what the client cache holds of the last refresh
    row,        \* the processes: their valid fields, and the memory they use
    amount,     \* the derived amounts of memory: used, free
    refreshes,  \* number of refreshes begun
    faults,     \* number of calls that did not find everything
    \* Not in the program: what happened in this refresh and before it.
    fresh,      \* fields set in this refresh
    reported,   \* dynamic fields the driver set in this refresh
    counted,    \* rates of the device and counters of the client read in this refresh
    countedBefore, \* the same for earlier refreshes of the device and for the
                   \* previous refresh of the processes
    shown       \* fields whose values are shown

program == <<vendor, mode, lib, have, listed, count, dev>>
device == <<static, valid, mig, sampled, last, row, amount>>
ghosts == <<fresh, reported, counted, countedBefore, shown>>
vars == <<program, phase, device, refreshes, faults, ghosts>>

Phases ==
    {"init", "static", "dynamic", "processes", "utilisation", "fix", "show", "shown",
     "done", "aborted", "undefined"}

NoRow == [listed |-> FALSE, fields |-> {}, memory |-> <<>>]
NoAmount == [used |-> 0, free |-> 0]

TypeOK ==
    /\ vendor \in Vendors /\ mode \in {"interactive", "snapshot"} /\ phase \in Phases
    /\ lib \in LibraryStates /\ listed \subseteq DeviceIds /\ count \in 0 .. Cardinality(DeviceIds)
    /\ static \subseteq static_info_fields /\ valid \subseteq dynamic_info_fields
    /\ fresh \cup shown \subseteq dynamic_info_fields \cup process_info_fields
    /\ reported \subseteq dynamic_info_fields
    /\ row.fields \subseteq process_info_fields /\ row.memory \in Seq(Nat)
    /\ amount.used \in Nat /\ amount.free \in Int
    /\ refreshes \in 0 .. MaxRefreshes /\ faults \in 0 .. MaxFaults

Init ==
    /\ vendor \in Vendors /\ mode \in {"interactive", "snapshot"} /\ phase = "init"
    /\ lib = "closed" /\ have = {} /\ listed = {} /\ count = 0 /\ dev = 0
    /\ static = {} /\ valid = {} /\ mig = FALSE /\ sampled = {} /\ last = {}
    /\ row = NoRow /\ amount = NoAmount /\ refreshes = 0 /\ faults = 0
    /\ fresh = {} /\ reported = {} /\ counted = {} /\ countedBefore = {} /\ shown = {}

\* What a call may find of the facts it looks for: all, none, or all but one.
Outcomes(facts) ==
    {facts} \cup (IF faults < MaxFaults THEN {{}} \cup {facts \ {f} : f \in facts} ELSE {})
Fault(found, all) == faults' = faults + (IF found = all THEN 0 ELSE 1)

(***************************************************************************)
(* The start: the library, the list of devices, what never changes.        *)
(***************************************************************************)

\* A vendor whose init fails is left as it is; one that finds no device is
\* shut down.
InitVendor(v, ok, devices) ==
    LET loaded == InitLibrary(v, ok)
        found  == GetDeviceHandles(v, loaded, DeviceIds, ok, devices)
    IN  CASE loaded # "ready" -> [lib |-> loaded, listed |-> {}, count |-> 0]
          [] loaded = "ready" /\ (~found.returned \/ found.count = 0) ->
                [lib |-> ShutdownLibrary(v, loaded), listed |-> found.listed, count |-> 0]
          [] OTHER -> [lib |-> loaded, listed |-> found.listed, count |-> found.count]

\* Without devices the program ends at once.  The options and the array of windows
\* have count places: a longer list is walked past their end.
gpuinfo_init_info_extraction ==
    /\ phase = "init"
    /\ LET facts   == Facts(vendor)
           library == facts.init \cup facts.options
       IN  \E ok \in Outcomes(library), devices \in Outcomes(HandleFacts(DeviceIds)) :
           \E traits \in SUBSET (facts.traits \cup {"power_max_positive"}) :
             /\ LET start == InitVendor(vendor, ok, devices)
                IN  /\ lib' = start.lib /\ listed' = start.listed /\ count' = start.count
             /\ have' = (ok \cap facts.options) \cup traits
             /\ Fault(<<ok, devices>>, <<library, HandleFacts(DeviceIds)>>)
    /\ \/ count' = 0 /\ phase' = "done" /\ dev' = 0
       \/ count' # 0 /\ count' # Cardinality(listed') /\ phase' = "undefined" /\ dev' = 0
       \/ count' # 0 /\ count' = Cardinality(listed') /\ phase' = "static" /\ dev' \in listed'
    /\ UNCHANGED <<vendor, mode, device, refreshes, ghosts>>

\* The panthor driver asserts that the version in its own slot is its own.
AssertsVersion == vendor = "panthor" /\ mali_version(vendor, listed, dev) # "panthor"

gpuinfo_populate_static_infos ==
    /\ phase = "static"
    /\ \E ok \in Outcomes(Facts(vendor).static) :
          /\ static' = StaticInfo(vendor, ok \cup have)
          /\ Fault(ok, Facts(vendor).static)
    /\ phase' = IF AssertsVersion THEN "aborted" ELSE "dynamic"
    /\ UNCHANGED <<program, valid, mig, sampled, last, row, amount, refreshes, ghosts>>

(***************************************************************************)
(* A refresh.                                                              *)
(***************************************************************************)

\* The rates of a device that are the difference of two readings, with the facts
\* that make a reading.
DeviceRates(v) ==
    [field \in When(v \in IntelDrivers, {"power_draw"})
               \cup When(v = "tenstorrent", {"pcie_rx", "pcie_tx"}) |->
        IF field = "power_draw" THEN {"hwmon", "energy"} ELSE {"rx_counter", "tx_counter"}]
CountedOfDevice(ok) == {f \in DOMAIN DeviceRates(vendor) : DeviceRates(vendor)[f] \subseteq ok}

\* The counters of a client of fdinfo, and the ones any of which makes a usage.
ClientCounters == EngineFields \cup {"client"}
UsageCounters(v) ==
    CASE v = "xe"     -> {"client"}
      [] v = "amdgpu" -> {"gfx_engine_used", "compute_engine_used"}
      [] OTHER        -> {"gfx_engine_used"}
CountedOfClient(ok) ==
    When(Facts(vendor).process \cap {"this_device", "this_driver", "client_id"} \subseteq ok,
         {"client"} \cup (ok \cap EngineFields))

calculate_effective_load(fields) ==
    (fields \ {"effective_load_rate"})
    \cup When(/\ {"gpu_util_rate", "power_draw", "power_draw_max"} \subseteq fields
              /\ "power_max_positive" \in have, {"effective_load_rate"})

gpuinfo_refresh_dynamic_info ==
    /\ phase \in {"dynamic", "shown"} /\ refreshes < MaxRefreshes
    /\ \E ok \in Outcomes(Facts(vendor).dynamic) :
          LET reading == DynamicInfo(vendor, valid, sampled, ok \cup have)
              fields  == calculate_effective_load(reading.kept \cup reading.set)
          IN  /\ valid' = fields
              /\ mig' = IF "multi_instance_mode" \in reading.set THEN "mig_enabled" \in have ELSE mig
              /\ sampled' = sampled \cup DeviceSample(vendor, ok \cup have)
              /\ Fault(ok, Facts(vendor).dynamic)
              /\ reported' = reading.set
              /\ fresh' = reading.set \cup (fields \cap {"effective_load_rate"})
              /\ counted' = (counted \cap ClientCounters) \cup CountedOfDevice(ok)
              /\ countedBefore' = countedBefore \cup (counted \ ClientCounters)
    /\ refreshes' = refreshes + 1
    /\ phase' = "processes" /\ shown' = {}
    /\ UNCHANGED <<program, static, last, row, amount>>

\* In a menu the list of processes is frozen: all that follows is left out.
\* The snapshot has no menus.
interface_freeze_processes ==
    /\ phase = "processes" /\ mode = "interactive"
    /\ phase' = "show"
    /\ UNCHANGED <<program, device, refreshes, faults, ghosts>>

SystemFacts == {"cmdline", "user_name", "process_info"}
ProcessFacts == Facts(vendor).process \cup SystemFacts

\* What the system tells about a process, and its share of the device's memory.  A
\* process that claims more than there is has no usage, and adds nothing to the sum.
gpuinfo_populate_process_info(fields, memory, ok) ==
    LET bounded  == "total_memory" \in valid /\ "gpu_memory_usage" \in fields
        known(k) == bounded => memory[k] <= TotalMemory
        some     == \E k \in DOMAIN memory : known(k)
    IN  [listed |-> TRUE,
         memory |-> [k \in DOMAIN memory |-> IF known(k) THEN memory[k] ELSE 0],
         fields |-> (fields \ When(~some, {"gpu_memory_usage"}))
                    \cup (ok \cap {"cmdline", "user_name"})
                    \cup When("process_info" \in ok,
                              {"cpu_usage", "cpu_memory_res", "cpu_memory_virt"})
                    \cup When(bounded /\ some, {"gpu_memory_percentage"})]

gpuinfo_refresh_processes ==
    /\ phase = "processes"
    /\ \E ok \in Outcomes(ProcessFacts), memory \in MemoryDemands :
          LET known   == ok \cup have
              rows    == RunningProcesses(vendor, valid, mig, last, known)
              demand  == IF "gpu_memory_usage" \in rows.fields THEN memory ELSE <<>>
              clean   == gpuinfo_populate_process_info(rows.fields, demand, ok)
              mali    == When(vendor \in MaliDrivers, mali_fdinfo_dynamic(known))
          IN  \E garbage \in
                     CASE rows.leftover = "none"     -> {{}}
                       [] rows.leftover = "previous" -> {row.fields}
                       [] rows.leftover = "anything" -> {{}, process_info_fields} :
                /\ row' = IF ~rows.listed THEN NoRow
                          ELSE gpuinfo_populate_process_info(rows.fields \cup garbage, demand, ok)
                /\ phase' = IF rows.exits THEN "aborted" ELSE "utilisation"
                /\ last' = When(/\ vendor \in FdinfoVendors /\ rows.listed /\ "client_id" \in ok,
                                CacheEntry(rows.fields))
                /\ valid' = valid \cup mali
                /\ static' = static \cup When(vendor \in MaliDrivers, mali_fdinfo_static(known))
                /\ Fault(ok, ProcessFacts)
                /\ fresh' = fresh \cup mali \cup When(rows.listed, clean.fields)
                /\ counted' = (counted \ ClientCounters) \cup CountedOfClient(ok)
                /\ countedBefore' = (countedBefore \ ClientCounters)
                                    \cup (counted \cap ClientCounters)
    /\ UNCHANGED <<program, mig, sampled, amount, refreshes, reported, shown>>

\* Fault: the snapshot prints its first refresh.
NoPriming(printed) == "fix"

\* The snapshot's first refresh is there to have a first reading of every counter.
AfterUtilisation(printed) == IF printed THEN "fix" ELSE "dynamic"

\* Mali: from the cycles of the processes, if they used any.
gpuinfo_refresh_utilisation_rate(cycles) ==
    When(vendor \in MaliDrivers /\ cycles > 0, {"gpu_util_rate"})

gpuinfo_utilisation_rate ==
    /\ phase = "utilisation"
    /\ \E cycles \in IF "gpu_cycles" \in row.fields THEN {0, 1} ELSE {0} :
          LET rate == gpuinfo_refresh_utilisation_rate(cycles)
          IN  valid' = valid \cup rate /\ fresh' = fresh \cup rate
    /\ phase' = AfterUtilisation(mode = "interactive" \/ refreshes > 1)
    /\ UNCHANGED <<program, static, mig, sampled, last, row, amount, refreshes, faults,
                   reported, counted, countedBefore, shown>>

(***************************************************************************)
(* What the driver did not tell is derived from the processes.             *)
(***************************************************************************)

\* Fault: the reported rate is not put back.
ReportedRateLost(reportedRate) == When("gpu_usage" \in row.fields, {"gpu_util_rate"})

\* The larger of the reported rate and the sum over the processes.
FixedGpuRate(reportedRate) == When("gpu_usage" \in row.fields \/ reportedRate, {"gpu_util_rate"})

FixedCodecRates ==
    When("encode_usage" \in row.fields, {"encoder_rate"})
    \cup When("decode_usage" \in row.fields, {"decoder_rate"})

\* What the processes use together.
MemoryOfProcesses ==
    LET sum[k \in 0 .. Len(row.memory)] == IF k = 0 THEN 0 ELSE sum[k - 1] + row.memory[k]
    IN  sum[Len(row.memory)]

\* The memory in use, if the total is known and not less.
NeedGpuMemory == "used_memory" \notin valid /\ "total_memory" \in valid

FixedMemory(used) ==
    When(/\ NeedGpuMemory /\ "gpu_memory_usage" \in row.fields
         /\ used <= TotalMemory, {"used_memory", "free_memory"})

\* The effective load is computed again, from the rate that was derived.
FixedLoad(fields) == calculate_effective_load(fields)

gpuinfo_fix_dynamic_info_from_process_info ==
    /\ phase = "fix"
    /\ LET used    == MemoryOfProcesses
           derived == (FixedCodecRates \cup FixedMemory(used)) \ valid
           fixed   == (valid \ {"gpu_util_rate"})
                      \cup FixedGpuRate("gpu_util_rate" \in valid) \cup derived
       IN  /\ valid' = FixedLoad(fixed)
           /\ fresh' = fresh \cup derived \cup FixedGpuRate(FALSE)
                       \cup (valid' \cap {"effective_load_rate"})
           /\ amount' = IF "used_memory" \notin derived THEN NoAmount
                        ELSE [used |-> used, free |-> TotalMemory - used]
    /\ phase' = "show"
    /\ UNCHANGED <<program, static, mig, sampled, last, row, refreshes, faults,
                   reported, counted, countedBefore, shown>>

(***************************************************************************)
(* The result is shown.                                                    *)
(***************************************************************************)

\* A meter that was idle for longer than the hiding time is not drawn, and a
\* shared engine has one meter.
encode_decode_show_select(idle) ==
    {"encoder_rate", "decoder_rate"}
        \ (idle \cup When(EncodeDecodeShared(vendor, have), {"encoder_rate"}))

Both(a, b) == When({a, b} \subseteq valid, {a, b})

draw_rates(meters) ==
    (valid \cap ({"gpu_util_rate", "total_memory"} \cup meters))
    \cup Both("gpu_util_rate", "effective_load_rate") \cup Both("total_memory", "used_memory")

draw_sensors ==
    LET fan == IF "fan_speed" \in valid THEN {"fan_speed"}
               ELSE IF IntegratedGraphics(vendor, have) THEN {} ELSE {"fan_rpm"}
    IN  valid \cap (fan \cup {"gpu_temp", "gpu_clock_speed", "mem_clock_speed",
                              "power_draw", "power_draw_max"})

draw_pcie ==
    When(~IntegratedGraphics(vendor, have), Both("pcie_link_gen", "pcie_link_width"))
    \cup (valid \cap {"pcie_rx", "pcie_tx"})

draw_devices ==
    /\ phase = "show" /\ mode = "interactive"
    /\ \E idle \in SUBSET {"encoder_rate", "decoder_rate"} :
          shown' = draw_rates(encode_decode_show_select(idle)) \cup draw_sensors \cup draw_pcie
    /\ phase' = "shown"
    /\ UNCHANGED <<program, device, refreshes, faults, fresh, reported, counted, countedBefore>>

codec(fields, encoded, decoded) ==
    fields \cap ({decoded} \cup When(~EncodeDecodeShared(vendor, have), {encoded}))

print_device ==
    (valid \cap (MemoryFields \cup {"gpu_clock_speed", "mem_clock_speed", "gpu_temp",
                                    "power_draw", "gpu_util_rate", "mem_util_rate"}))
    \cup (valid \cap (IF "fan_speed" \in valid THEN {"fan_speed"} ELSE {"fan_rpm"}))
    \cup codec(valid, "encoder_rate", "decoder_rate")

print_processes ==
    (row.fields \cap {"cmdline", "user_name", "gpu_usage", "gpu_memory_usage",
                      "gpu_memory_percentage"})
    \cup codec(row.fields, "encode_usage", "decode_usage")

\* The processes are left out on request.
print_snapshot ==
    /\ phase = "show" /\ mode = "snapshot"
    /\ \E hide_processes \in BOOLEAN :
          shown' = print_device \cup When(~hide_processes, print_processes)
    /\ phase' = "shown"
    /\ UNCHANGED <<program, device, refreshes, faults, fresh, reported, counted, countedBefore>>

\* The user leaves, or the snapshot was asked for once.
gpuinfo_shutdown_info_extraction ==
    /\ phase = "shown"
    /\ lib' = ShutdownLibrary(vendor, lib) /\ listed' = {} /\ count' = 0
    /\ phase' = "done"
    /\ UNCHANGED <<vendor, mode, have, dev, device, refreshes, faults, ghosts>>

\* The program is over.
Ended == phase \in {"done", "aborted", "undefined"} /\ UNCHANGED vars

Next ==
    \/ gpuinfo_init_info_extraction
    \/ gpuinfo_populate_static_infos
    \/ gpuinfo_refresh_dynamic_info
    \/ interface_freeze_processes
    \/ gpuinfo_refresh_processes
    \/ gpuinfo_utilisation_rate
    \/ gpuinfo_fix_dynamic_info_from_process_info
    \/ draw_devices
    \/ print_snapshot
    \/ gpuinfo_shutdown_info_extraction
    \/ Ended

Spec == Init /\ [][Next]_vars

(***************************************************************************)
(* Properties.                                                             *)
(***************************************************************************)

\* The drivers that never clear the validity bits of the device (ixml, tpu, rknpu)
\* or of the rows (tpu, ascend).
KeepingVendors == {"ixml", "tpu", "rknpu", "ascend"}

\* Nothing is shown that was not read or derived in this very refresh: a sensor
\* that cannot be read any more, a process list that is frozen or a client that is
\* gone leaves no old value behind on the screen or in a snapshot.
NoStaleReadings == phase = "shown" /\ vendor \notin KeepingVendors => shown \subseteq fresh

\* What the driver reported is still there when it is shown.
ReportedSurvives == reported \subseteq valid

\* The effective load goes with the values it is made of, although the rate of the
\* GPU changes after it was computed first.
EffectiveLoadCoherent ==
    "effective_load_rate" \in valid <=>
        /\ {"gpu_util_rate", "power_draw", "power_draw_max"} \subseteq valid
        /\ "power_max_positive" \in have

\* Free memory is the rest of the memory in use, which is not more than there is.
DerivedMemoryFits ==
    /\ amount.used <= TotalMemory /\ amount.free >= 0
    /\ amount # NoAmount => amount.used + amount.free = TotalMemory

\* The derivation from the processes, which resets the rate of the GPU, decides on
\* its own what is missing and adds up what the processes claim, each too much or
\* all together, loses nothing that was reported and adds nothing impossible.
DerivationSound ==
    phase \in {"show", "shown"} =>
        ReportedSurvives /\ EffectiveLoadCoherent /\ DerivedMemoryFits

\* A power or a PCIe rate is there exactly when its counters were read in this
\* refresh and in an earlier one.
DeviceRatesNeedTwoReadings ==
    phase \in {"show", "shown"} =>
        \A f \in DOMAIN DeviceRates(vendor) :
            f \in valid <=> f \in counted \cap countedBefore

\* The usage of a process is only there if its engine was read in this refresh of
\* the processes and in the one before.
UsageNeedsTwoReadings ==
    (vendor \in FdinfoVendors /\ "old_keys" \notin have /\ phase = "utilisation") =>
        ("gpu_usage" \in row.fields => UsageCounters(vendor) \cap counted \cap countedBefore # {})

\* A rate that is the difference of two readings of a counter has both of them,
\* whatever failed in between and with a frozen list of processes or not.
RatesNeedTwoReadings == DeviceRatesNeedTwoReadings /\ UsageNeedsTwoReadings

\* When everything can be read, a snapshot has every rate that is the difference
\* of two readings, already the first one (the comment at nvtop.c:239).
SnapshotHasRates ==
    (phase = "shown" /\ mode = "snapshot" /\ faults = 0 /\ "old_keys" \notin have) =>
        /\ DOMAIN DeviceRates(vendor) \subseteq valid
        /\ vendor \in FdinfoVendors => "gpu_usage" \in row.fields

\* Whatever fails, the number of devices agrees with the list, the program goes on,
\* and no initialised library is left behind.  Three drivers are known not to keep
\* this: a device that panfrost does not count stays in the list, the second
\* device of panthor fails an assertion, and metax ends the program when it cannot
\* list the processes.  (And every variable has its type.)
FaultsAreContained ==
    /\ TypeOK
    /\ phase = "undefined" => vendor = "panfrost"
    /\ phase = "aborted" => vendor \in {"panthor", "metax"}
    /\ phase = "done" => lib # "ready"
=============================================================================
