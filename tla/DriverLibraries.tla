-------------------------- MODULE DriverLibraries --------------------------
(***************************************************************************)
(* The drivers that load a vendor's management library with dlopen:        *)
(* NVIDIA, Iluvatar (ixml), MetaX, Enflame and Ascend.                     *)
(***************************************************************************)
EXTENDS GpuInfo

(***************************************************************************)
(* NVIDIA.                                                                 *)
(***************************************************************************)
nvidia_symbols ==
    { {"nvmlInit_v2", "nvmlInit"}, {"nvmlDeviceGetCount_v2", "nvmlDeviceGetCount"},
      {"nvmlDeviceGetHandleByIndex_v2", "nvmlDeviceGetHandleByIndex"},
      {"nvmlDeviceGetPciInfo_v3", "nvmlDeviceGetPciInfo_v2", "nvmlDeviceGetPciInfo"},
      {"nvmlDeviceGetMemoryInfo_v2", "nvmlDeviceGetMemoryInfo"},
      {"nvmlDeviceGetGraphicsRunningProcesses_v3", "nvmlDeviceGetGraphicsRunningProcesses_v2",
       "nvmlDeviceGetGraphicsRunningProcesses"},
      {"nvmlDeviceGetComputeRunningProcesses_v3", "nvmlDeviceGetComputeRunningProcesses_v2",
       "nvmlDeviceGetComputeRunningProcesses"},
      {"nvmlShutdown"}, {"nvmlErrorString"}, {"nvmlDeviceGetName"},
      {"nvmlDeviceGetMaxPcieLinkGeneration"}, {"nvmlDeviceGetMaxPcieLinkWidth"},
      {"nvmlDeviceGetTemperatureThreshold"}, {"nvmlDeviceGetClockInfo"},
      {"nvmlDeviceGetMaxClockInfo"}, {"nvmlDeviceGetUtilizationRates"},
      {"nvmlDeviceGetCurrPcieLinkGeneration"}, {"nvmlDeviceGetCurrPcieLinkWidth"},
      {"nvmlDeviceGetPcieThroughput"}, {"nvmlDeviceGetFanSpeed"}, {"nvmlDeviceGetTemperature"},
      {"nvmlDeviceGetPowerUsage"}, {"nvmlDeviceGetEnforcedPowerLimit"},
      {"nvmlDeviceGetEncoderUtilization"}, {"nvmlDeviceGetDecoderUtilization"} }

\* Looked up but not required; a driver tests the pointer before each call.
nvidia_optional ==
    {"nvmlDeviceGetMemoryInfo_v2", "nvmlDeviceGetMemoryInfo",
     "nvmlDeviceGetProcessUtilization", "nvmlDeviceGetMigMode"}

gpuinfo_nvidia_init(ok) == LoadLibrary(nvidia_symbols, ok)

\* nvmlShutdown is called whenever the library is loaded.
gpuinfo_nvidia_shutdown(lib) == "closed"

\* Fault: a device is counted before its PCI address is asked for.
nvidia_handles_counted_early(lib, ids, ok) ==
    IF lib = "closed" \/ Listing \notin ok THEN NoHandles
    ELSE [Handles(TRUE, {i \in ids : {<<"handle", i>>, <<"pci", i>>} \subseteq ok})
             EXCEPT !.count = Cardinality({i \in ids : <<"handle", i>> \in ok})]

\* A device is kept when both its handle and its PCI address are known.
gpuinfo_nvidia_get_device_handles(lib, ids, ok) ==
    IF lib = "closed" \/ Listing \notin ok THEN NoHandles
    ELSE Handles(TRUE, {i \in ids : {<<"handle", i>>, <<"pci", i>>} \subseteq ok})

nvml_static ==
    {"device_name", "max_pcie_gen", "max_pcie_link_width",
     "temperature_shutdown_threshold", "temperature_slowdown_threshold"}
gpuinfo_nvidia_populate_static_info(ok) == ok \cap nvml_static

\* /proc/meminfo has both lines and they make sense.
set_unified_system_memory_info(ok) ==
    When("meminfo" \in ok, MemoryFields \cup {"mem_util_rate"})

\* The memory query falls back from v2 to v1; an answer "not supported" or a
\* total of zero means that the device shares the memory of the system.
nvidia_memory(ok) ==
    LET answered(symbol, call) == /\ symbol \in ok
                                  /\ call \in ok \/ "memory_supported" \notin ok
        viaV2 == answered("nvmlDeviceGetMemoryInfo_v2", "memory_v2")
        viaV1 == ~viaV2 /\ answered("nvmlDeviceGetMemoryInfo", "memory_v1")
        own   == /\ "memory_total_nonzero" \in ok
                 /\ (viaV2 /\ "memory_v2" \in ok) \/ (viaV1 /\ "memory_v1" \in ok)
    IN  CASE own                            -> MemoryFields \cup {"mem_util_rate"}
          [] (viaV1 \/ viaV2) /\ ~own       -> set_unified_system_memory_info(ok)
          [] OTHER                          -> {}

nvidia_direct ==
    {"gpu_clock_speed_max", "mem_clock_speed", "mem_clock_speed_max", "gpu_util_rate",
     "encoder_rate", "decoder_rate", "pcie_link_gen", "pcie_link_width", "pcie_rx", "pcie_tx",
     "fan_speed", "gpu_temp", "power_draw", "power_draw_max"}
gpuinfo_nvidia_refresh_dynamic_info(valid, ok) ==
    Reading({},
        (ok \cap nvidia_direct)
        \cup When(ok \cap {"clock_graphics", "clock_sm"} # {}, {"gpu_clock_speed"})
        \cup nvidia_memory(ok)
        \cup When({"nvmlDeviceGetMigMode", "mig_mode"} \subseteq ok, {"multi_instance_mode"}))

\* Without the call every usage is zero; with it, an answer that is not a list
\* of samples leaves the usages unknown.
gpuinfo_nvidia_get_process_utilization(ok) ==
    When("nvmlDeviceGetProcessUtilization" \in ok => "process_samples" \in ok, UsageFields)

\* The newest interface that answers is used; a device known to be in MIG mode
\* has no usage per process.
gpuinfo_nvidia_get_running_processes(valid, mig, ok) ==
    Rows(ok \cap {"processes_v3", "processes_v2", "processes_v1"} # {},
         {"gpu_memory_usage"}
             \cup When(~("multi_instance_mode" \in valid /\ mig),
                       gpuinfo_nvidia_get_process_utilization(ok)))

nvidia_facts ==
    [init    |-> UNION nvidia_symbols \cup {"library", "library_init"},
     options |-> nvidia_optional,
     traits  |-> {"mig_enabled"},
     static  |-> nvml_static,
     dynamic |-> nvidia_direct \cup
                 {"clock_graphics", "clock_sm", "memory_v2", "memory_v1", "memory_supported",
                  "memory_total_nonzero", "meminfo", "mig_mode"},
     process |-> {"processes_v3", "processes_v2", "processes_v1", "process_samples"}]

(***************************************************************************)
(* Iluvatar.  The driver never clears the validity bits.                   *)
(***************************************************************************)
ixml_symbols ==
    { names \in nvidia_symbols :
        names \cap {"nvmlDeviceGetPowerUsage", "nvmlDeviceGetEnforcedPowerLimit",
                    "nvmlDeviceGetGraphicsRunningProcesses",
                    "nvmlDeviceGetComputeRunningProcesses"} = {} }

ixml_optional ==
    {"nvmlDeviceGetMemoryInfo_v2", "nvmlDeviceGetMemoryInfo", "nvmlDeviceGetPowerUsage",
     "nvmlDeviceGetEnforcedPowerLimit", "nvmlDeviceGetGraphicsRunningProcesses",
     "nvmlDeviceGetComputeRunningProcesses", "nvmlDeviceGetProcessUtilization"}

gpuinfo_ixml_init(ok) == LoadLibrary(ixml_symbols, ok)
gpuinfo_ixml_shutdown(lib) == "closed"

\* A device without a PCI address is kept.
gpuinfo_ixml_get_device_handles(lib, ids, ok) ==
    IF lib = "closed" \/ Listing \notin ok THEN NoHandles
    ELSE Handles(TRUE, {i \in ids : <<"handle", i>> \in ok})

gpuinfo_ixml_populate_static_info(ok) == ok \cap nvml_static

\* Powers below 1000 are watts; zero and more than 1000 W are refused.
ixml_power_normalize(raw) ==
    CASE raw = 0                       -> 0
      [] raw \in 1 .. 999              -> raw * 1000
      [] raw \in 1000 .. 1000000       -> raw
      [] OTHER                         -> 0

ixml_direct == nvidia_direct \ {"gpu_clock_speed_max", "gpu_util_rate", "power_draw",
                                 "power_draw_max"}
\* The older memory call is used only when the newer one does not exist.
gpuinfo_ixml_refresh_dynamic_info(valid, ok) ==
    LET memory == IF "nvmlDeviceGetMemoryInfo_v2" \in ok THEN "memory_v2" \in ok
                  ELSE {"nvmlDeviceGetMemoryInfo", "memory_v1"} \subseteq ok
    IN  Reading(valid,
            (ok \cap ixml_direct)
            \cup When("utilization" \in ok, {"gpu_util_rate", "mem_util_rate"})
            \cup When(memory, MemoryFields)
            \cup When({"nvmlDeviceGetPowerUsage", "power_draw", "power_draw_in_range"}
                          \subseteq ok, {"power_draw"})
            \cup When({"nvmlDeviceGetEnforcedPowerLimit", "power_draw_max", "power_max_in_range"}
                          \subseteq ok, {"power_draw_max"})
            \cup When(ok \cap {"clock_graphics", "clock_sm"} # {}, {"gpu_clock_speed"})
            \cup When(ok \cap {"max_clock_graphics", "max_clock_sm"} # {},
                      {"gpu_clock_speed_max"}))

\* The rows are counted first and then fetched; a device whose samples cannot
\* be counted returns before the usages are set to zero.
gpuinfo_ixml_get_running_processes(ok) ==
    LET listed(symbol, count, fetch) == {symbol, count, fetch} \subseteq ok
    IN  Rows(\/ listed("nvmlDeviceGetGraphicsRunningProcesses", "count_graphics", "list_graphics")
             \/ listed("nvmlDeviceGetComputeRunningProcesses", "count_compute", "list_compute"),
             {"gpu_memory_usage"}
                 \cup When("nvmlDeviceGetProcessUtilization" \in ok => "process_samples" \in ok,
                           UsageFields))

ixml_facts ==
    [init    |-> UNION ixml_symbols \cup {"library", "library_init"},
     options |-> ixml_optional,
     traits  |-> {},
     static  |-> nvml_static,
     dynamic |-> ixml_direct \cup
                 {"utilization", "memory_v2", "memory_v1", "power_draw",
                  "power_draw_in_range", "power_draw_max", "power_max_in_range",
                  "clock_graphics", "clock_sm", "max_clock_graphics", "max_clock_sm"},
     process |-> {"count_graphics", "list_graphics", "count_compute", "list_compute",
                  "process_samples"}]

(***************************************************************************)
(* MetaX.                                                                  *)
(***************************************************************************)
metax_symbols ==
    { {s} : s \in {"mxSmlInit", "mxSmlGetDeviceCount", "mxSmlGetErrorString",
                   "mxSmlGetDeviceInfo", "mxSmlGetLimitedDeviceInfo", "mxSmlGetPcieInfo",
                   "mxSmlGetPcieMaxLinkInfo", "mxSmlGetTemperatureInfo", "mxSmlGetClocks",
                   "mxSmlGetDpmIpClockInfo", "mxSmlGetDeviceIpUsage", "mxSmlGetMemoryInfo",
                   "mxSmlGetPcieThroughput", "mxSmlGetBoardPowerInfo",
                   "mxSmlGetNumberOfProcess", "mxSmlGetSingleGpuProcess"} }
metax_optional == {"mxSmlGetFanSpeedInfo", "mxSmlGetBoardPowerLimit"}

gpuinfo_metax_init(ok) == LoadLibrary(metax_symbols, ok)
gpuinfo_metax_shutdown(lib) == "closed"

gpuinfo_metax_get_device_handles(lib, ids, ok) ==
    IF lib = "closed" THEN NoHandles
    ELSE Handles(TRUE, {i \in ids : {<<"info", i>>, <<"limited_info", i>>} \cap ok # {}})

gpuinfo_metax_populate_static_info(ok) ==
    {"device_name"}
    \cup When("max_link" \in ok, {"max_pcie_gen", "max_pcie_link_width"})
    \cup When("hot_limit" \in ok,
              {"temperature_shutdown_threshold", "temperature_slowdown_threshold"})

\* Without the call for the power limit, the limit is the one of the brand.
metax_direct ==
    {"gpu_clock_speed", "gpu_clock_speed_max", "mem_clock_speed", "mem_clock_speed_max",
     "gpu_util_rate", "encoder_rate", "decoder_rate", "gpu_temp", "power_draw"}
gpuinfo_metax_refresh_dynamic_info(valid, ok) ==
    Reading({},
        (ok \cap metax_direct)
        \cup When("memory" \in ok, MemoryFields \cup {"mem_util_rate"})
        \cup When("pcie" \in ok, {"pcie_link_width"})
        \cup When({"pcie", "pcie_known_rate"} \subseteq ok, {"pcie_link_gen"})
        \cup When("pcie_throughput" \in ok, {"pcie_rx", "pcie_tx"})
        \cup When({"mxSmlGetFanSpeedInfo", "fan_speed"} \subseteq ok, {"fan_speed"})
        \cup When(IF "mxSmlGetBoardPowerLimit" \in ok THEN "power_draw_max" \in ok
                  ELSE "known_brand" \in ok, {"power_draw_max"}))

\* A failing call ends the program.
gpuinfo_metax_get_running_processes(ok) ==
    IF {"process_number", "process_list"} \subseteq ok
    THEN Rows("processes" \in ok, {"gpu_memory_usage"})
    ELSE EndsProgram

metax_facts ==
    [init    |-> UNION metax_symbols \cup {"library", "library_init"},
     options |-> metax_optional,
     traits  |-> {"known_brand"},
     static  |-> {"max_link", "hot_limit"},
     dynamic |-> metax_direct \cup
                 {"memory", "pcie", "pcie_known_rate",
                  "pcie_throughput", "fan_speed", "power_draw_max"},
     process |-> {"process_number", "process_list", "processes"}]

(***************************************************************************)
(* Enflame.  The library has NVML's calls under the prefix efml.           *)
(***************************************************************************)
enflame_symbols == nvidia_symbols
gcuinfo_enflame_init(ok) == LoadLibrary(enflame_symbols, ok)
gcuinfo_enflame_shutdown(lib) == "closed"

gcuinfo_enflame_get_device_handles(lib, ids, ok) ==
    IF lib = "closed" \/ Listing \notin ok THEN NoHandles
    ELSE Handles(TRUE, {i \in ids : {<<"handle", i>>, <<"pci", i>>} \subseteq ok})

gcuinfo_enflame_populate_static_info(ok) == ok \cap nvml_static

\* A failing call or a total of zero means unified memory: what the processes
\* use, and the memory of the system that is available.
enflame_memory(ok) ==
    LET call == IF "nvmlDeviceGetMemoryInfo_v2" \in ok THEN "memory_v2" ELSE "memory_v1"
    IN  When({call, "memory_total_nonzero"} \subseteq ok \/ "meminfo" \in ok,
             MemoryFields \cup {"mem_util_rate"})

gcuinfo_enflame_refresh_dynamic_info(valid, ok) ==
    Reading({},
        (ok \cap nvidia_direct)
        \cup When(ok \cap {"clock_graphics", "clock_sm"} # {}, {"gpu_clock_speed"})
        \cup enflame_memory(ok)
        \cup When({"nvmlDeviceGetMigMode", "mig_mode"} \subseteq ok, {"multi_instance_mode"}))

gcuinfo_enflame_get_process_utilization(ok) ==
    When("nvmlDeviceGetProcessUtilization" \in ok => "process_samples" \in ok, UsageFields)

\* The mode is the last one ever read: its validity is not looked at.
gcuinfo_enflame_get_running_processes(mig, ok) ==
    Rows(ok \cap {"processes_v3", "processes_v2", "processes_v1"} # {},
         {"gpu_memory_usage"} \cup When(~mig, gcuinfo_enflame_get_process_utilization(ok)))

(***************************************************************************)
(* Ascend.  The library is linked, and has no call that ends it.           *)
(***************************************************************************)
gpuinfo_ascend_init(ok) == IF "library_init" \in ok THEN "ready" ELSE "closed"
gpuinfo_ascend_shutdown(lib) == "closed"

\* Every card must tell the number of its devices (one here).
gpuinfo_ascend_get_device_handles(lib, ids, ok) ==
    IF Listing \notin ok \/ ids = {} \/ \E i \in ids : <<"handle", i>> \notin ok THEN NoHandles
    ELSE Handles(TRUE, ids)

gpuinfo_ascend_populate_static_info(ok) == ok \cap {"device_name"}

ascend_direct ==
    {"gpu_clock_speed", "gpu_clock_speed_max", "mem_clock_speed", "gpu_util_rate",
     "gpu_temp", "power_draw"}
gpuinfo_ascend_refresh_dynamic_info(valid, ok) ==
    Reading({}, (ok \cap ascend_direct)
                \cup When("memory" \in ok, MemoryFields \cup {"mem_util_rate"}))

\* The rows are in memory fresh from the allocator.
gpuinfo_ascend_get_running_processes(ok) ==
    [Rows({"process_list", "processes"} \subseteq ok, {"gpu_memory_usage"})
        EXCEPT !.leftover = "anything"]

ascend_facts ==
    [init    |-> {"library_init"},
     options |-> {},
     traits  |-> {},
     static  |-> {"device_name"},
     dynamic |-> ascend_direct \cup {"memory"},
     process |-> {"process_list", "processes"}]
=============================================================================
