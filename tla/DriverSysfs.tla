---------------------------- MODULE DriverSysfs ----------------------------
(***************************************************************************)
(* The drivers that read files of the kernel or ask the system: the        *)
(* Tenstorrent, Google TPU and Rockchip accelerators, and Apple's GPUs.    *)
(***************************************************************************)
EXTENDS GpuInfo

(***************************************************************************)
(* Tenstorrent.  The PCIe traffic is the difference of two readings of the *)
(* counters, and sampled tells that there was a first one.                 *)
(***************************************************************************)
gpuinfo_tenstorrent_init(ok) == IF "class_readable" \in ok THEN "ready" ELSE "closed"
gpuinfo_tenstorrent_shutdown(lib) == "closed"

\* The cards of the class in sysfs that lead to a PCI device.
gpuinfo_tenstorrent_get_device_handles(lib, ids, ok) ==
    LET listed == {i \in ids : <<"pci", i>> \in ok}
    IN  IF Listing \notin ok \/ listed = {} THEN NoHandles ELSE Handles(TRUE, listed)

gpuinfo_tenstorrent_populate_static_info(ok) ==
    {"device_name"}
    \cup (ok \cap {"max_pcie_gen", "max_pcie_link_width"})
    \cup When("hwmon" \in ok, ok \cap {"temperature_slowdown_threshold"})

tenstorrent_sample(ok) == When({"rx_counter", "tx_counter"} \subseteq ok, {"pcie_counters"})

gpuinfo_tenstorrent_refresh_dynamic_info(sampled, ok) ==
    Reading({},
        When("hwmon" \in ok, ok \cap {"gpu_temp", "power_draw", "power_draw_max", "fan_rpm"})
        \cup (ok \cap {"gpu_clock_speed", "pcie_link_gen", "pcie_link_width"})
        \cup When("pcie_counters" \in tenstorrent_sample(ok) \cap sampled, {"pcie_rx", "pcie_tx"}))

\* The pids of the processes, of which nothing is known.
gpuinfo_tenstorrent_get_running_processes(ok) ==
    Rows({"pids_file", "processes"} \subseteq ok, {})

tenstorrent_facts ==
    [init    |-> {"class_readable"},
     options |-> {},
     traits  |-> {},
     static  |-> {"max_pcie_gen", "max_pcie_link_width", "hwmon",
                  "temperature_slowdown_threshold"},
     dynamic |-> {"hwmon", "gpu_temp", "power_draw", "power_draw_max", "fan_rpm",
                  "gpu_clock_speed", "pcie_link_gen", "pcie_link_width",
                  "rx_counter", "tx_counter"},
     process |-> {"pids_file", "processes"}]

(***************************************************************************)
(* TPU.  The metrics of all chips come in one call whose answer is kept    *)
(* for a while; the fields are valid from the first refresh on, whether    *)
(* the call answered or not.                                               *)
(***************************************************************************)
tpu_symbols == { {s} : s \in {"tpu_chip_count", "tpu_metrics", "tpu_pids"} }

\* Nothing closes the library, neither a missing symbol or chip nor the end.
gpuinfo_tpu_init(ok) ==
    CASE "library" \notin ok                                       -> "closed"
      [] "library" \in ok /\ Resolved(tpu_symbols \cup {{"chips"}}, ok) -> "ready"
      [] OTHER                                                     -> "open"
gpuinfo_tpu_shutdown(lib) == "open"

\* A negative number of chips is found here.
gpuinfo_tpu_get_device_handles(lib, ids, ok) ==
    IF Listing \notin ok THEN NoHandles ELSE Handles(TRUE, ids)
gpuinfo_tpu_populate_static_info(ok) == {"device_name"}

tpu_fields == {"gpu_util_rate", "total_memory", "used_memory", "free_memory", "mem_util_rate"}
gpuinfo_tpu_refresh_dynamic_info(valid, ok) == Reading(valid, tpu_fields)

\* One row for the process that holds the chip, cleared when it is allocated.
gpuinfo_tpu_get_running_processes(ok) ==
    [Rows("processes" \in ok, {"gpu_memory_usage"}) EXCEPT !.leftover = "previous"]

tpu_facts ==
    [init    |-> UNION tpu_symbols \cup {"library", "chips"},
     options |-> {},
     traits  |-> {},
     static  |-> {},
     dynamic |-> {},
     process |-> {"processes"}]

(***************************************************************************)
(* Rockchip.  One device; an unreadable file reads as zero.                *)
(***************************************************************************)
gpuinfo_rknpu_init(ok) == IF "load_file" \in ok THEN "ready" ELSE "closed"
gpuinfo_rknpu_shutdown(lib) == "closed"
gpuinfo_rknpu_get_device_handles(lib, ids, ok) == Handles(TRUE, {1})
gpuinfo_rknpu_populate_static_info(ok) == {"device_name"}

set_gpuinfo_dynamic_memory(ok) ==
    When("MemTotal" \in ok, {"total_memory"})
    \cup When("MemAvailable" \in ok, {"free_memory"})
    \cup When({"MemTotal", "MemAvailable"} \subseteq ok, {"used_memory", "mem_util_rate"})

\* The bits of an earlier refresh are never cleared.
gpuinfo_rknpu_refresh_dynamic_info(valid, ok) ==
    Reading(valid,
        {"gpu_clock_speed", "gpu_clock_speed_max", "gpu_temp"}
        \cup (ok \cap {"gpu_util_rate"})
        \cup set_gpuinfo_dynamic_memory(ok))

gpuinfo_rknpu_get_running_processes(ok) == Rows(FALSE, {})

rknpu_facts ==
    [init    |-> {"load_file"},
     options |-> {},
     traits  |-> {},
     static  |-> {},
     dynamic |-> {"gpu_util_rate", "MemTotal", "MemAvailable"},
     process |-> {}]

(***************************************************************************)
(* Apple.                                                                  *)
(***************************************************************************)
gpuinfo_apple_init(ok) == "ready"
gpuinfo_apple_shutdown(lib) == "closed"
gpuinfo_apple_get_device_handles(lib, ids, ok) == Handles(TRUE, ids)
gpuinfo_apple_populate_static_info(ok) == {"device_name"}

\* A device with its own memory tells its size only.
gpuinfo_apple_refresh_dynamic_info(valid, ok) ==
    LET amounts == IF "unified" \in ok THEN ok \cap {"used_memory", "total_memory"}
                   ELSE {"total_memory"}
    IN  Reading({}, When({"properties", "statistics"} \subseteq ok,
            (ok \cap {"gpu_util_rate"}) \cup amounts
            \cup When(Cardinality(amounts) = 2, {"free_memory", "mem_util_rate"})))

gpuinfo_apple_get_running_processes(ok) == Rows("processes" \in ok, {})

apple_facts ==
    [init    |-> {},
     options |-> {},
     traits  |-> {"unified", "integrated"},
     static  |-> {},
     dynamic |-> {"properties", "statistics", "gpu_util_rate", "used_memory", "total_memory"},
     process |-> {"processes"}]
=============================================================================
