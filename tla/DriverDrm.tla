----------------------------- MODULE DriverDrm -----------------------------
(***************************************************************************)
(* The drivers that find their devices with libdrm or in sysfs and learn   *)
(* about processes from /proc/<pid>/fdinfo: amdgpu, radeon, Intel (i915    *)
(* and xe), msm, the two Mali drivers and v3d.                             *)
(*                                                                         *)
(* The fdinfo callbacks are given last, the part of a client's entry in    *)
(* the cache that the previous refresh left: "client" when there is an     *)
(* entry, and the engine times it holds.                                   *)
(***************************************************************************)
EXTENDS GpuInfo

drm_symbols ==
    { {"drmGetDevices2", "drmGetDevices"}, {"drmFreeDevices"}, {"drmGetVersion"},
      {"drmFreeVersion"}, {"drmGetMagic"}, {"drmAuthMagic"}, {"drmDropMaster"} }

\* libdrm has no call that initialises it.
LoadDrm(groups, ok) == LoadLibrary(groups, ok \cup {"library_init"})

\* The render or the primary node opens and tells the version of the driver
\* that is looked for.
DrmDevices(ids, ok) == {i \in ids : {<<"node", i>>, <<"driver", i>>} \subseteq ok}

DrmHandles(lib, listed, ok) ==
    IF lib = "closed" \/ Listing \notin ok THEN NoHandles ELSE Handles(TRUE, listed)

EngineFields == {"gfx_engine_used", "compute_engine_used", "enc_engine_used", "dec_engine_used"}

\* The entry a client leaves in the cache for the next refresh.
CacheEntry(fields) == {"client"} \cup (fields \cap EngineFields)

\* The busy time of an engine since the last refresh is known and not longer
\* than the time that passed.
Measured(engine, fields, last, ok) ==
    /\ "client" \in last
    /\ engine \in fields \cap last
    /\ "plausible" \in ok

(***************************************************************************)
(* amdgpu.  A device that libdrm_amdgpu does not open is not kept.         *)
(***************************************************************************)
amdgpu_optional ==
    {"amdgpu_device_initialize", "amdgpu_get_marketing_name", "amdgpu_query_info",
     "amdgpu_query_gpu_info", "amdgpu_query_sensor_info", "amdgpu_query_hw_ip_info"}
gpuinfo_amdgpu_init(ok) == LoadDrm(drm_symbols, ok)
gpuinfo_amdgpu_shutdown(lib) == "closed"

\* The files of the device in sysfs, kept open until the program ends.
initDeviceSysfsPaths(ok) == ok \cap {"hwmon", "fan_file", "power_cap_file", "pcie_bw_file"}

gpuinfo_amdgpu_get_device_handles(lib, ids, options, ok) ==
    DrmHandles(lib,
               {i \in DrmDevices(ids, ok) :
                    "amdgpu_device_initialize" \in options /\ <<"device", i>> \in ok}, ok)

gpuinfo_amdgpu_populate_static_info(ok) ==
    When(\/ {"amdgpu_get_marketing_name", "marketing_name"} \subseteq ok
         \/ {"known_asic", "drm_description"} \cap ok # {}, {"device_name"})
    \cup When("hwmon" \in ok,
              ok \cap {"temperature_slowdown_threshold", "temperature_shutdown_threshold"})
    \cup When("max_link" \in ok, {"max_pcie_gen", "max_pcie_link_width"})

amdgpu_sensors == {"gpu_clock_speed", "mem_clock_speed", "gpu_util_rate", "gpu_temp", "power_draw"}
gpuinfo_amdgpu_refresh_dynamic_info(valid, ok) ==
    LET sysfs == initDeviceSysfsPaths(ok)
    IN  Reading({},
            When("amdgpu_query_sensor_info" \in ok, ok \cap amdgpu_sensors)
            \cup When({"amdgpu_query_gpu_info", "gpu_info"} \subseteq ok,
                      {"gpu_clock_speed_max", "mem_clock_speed_max"})
            \cup When({"amdgpu_query_info", "memory"} \subseteq ok,
                      MemoryFields \cup {"mem_util_rate"})
            \cup When("fan_file" \in sysfs, ok \cap {"fan_speed"})
            \cup When("link" \in ok, {"pcie_link_gen", "pcie_link_width"})
            \cup When("pcie_bw_file" \in sysfs /\ "pcie_bw" \in ok, {"pcie_rx", "pcie_tx"})
            \cup When("power_cap_file" \in sysfs, ok \cap {"power_draw_max"}))

\* VCN 4 and later, if libdrm_amdgpu can tell.
amdgpu_encode_decode_shared(ok) ==
    {"amdgpu_query_hw_ip_info", "encode_decode_shared"} \subseteq ok

\* A file without a client id is a row all the same, without measured usages;
\* the kernels before 5.19 report percentages (old_keys) instead of times.
parse_drm_fdinfo_amd(last, ok) ==
    LET times    == When("old_keys" \notin ok, ok \cap EngineFields)
        busy(e)  == "client_id" \in ok /\ Measured(e, times, last, ok)
        measured == When(busy("gfx_engine_used") \/ busy("compute_engine_used"), {"gpu_usage"})
                    \cup When(busy("dec_engine_used"), {"decode_usage"})
                    \cup When(busy("enc_engine_used"), {"encode_usage"})
        percents == When("old_keys" \in ok, UsageFields)
        shared   == When("client_id" \in ok /\ amdgpu_encode_decode_shared(ok), {"decode_usage"})
    IN  Rows("this_device" \in ok,
             (ok \cap {"gpu_memory_usage"}) \cup times \cup percents \cup measured \cup shared)

amdgpu_facts ==
    [init    |-> UNION drm_symbols \cup {"library"},
     options |-> amdgpu_optional,
     traits  |-> {"old_keys", "encode_decode_shared", "integrated"},
     static  |-> {"marketing_name", "known_asic", "drm_description", "hwmon", "max_link",
                  "temperature_slowdown_threshold", "temperature_shutdown_threshold"},
     dynamic |-> amdgpu_sensors \cup
                 {"gpu_info", "memory", "fan_file", "fan_speed", "link", "pcie_bw_file",
                  "pcie_bw", "power_cap_file", "power_draw_max"},
     process |-> EngineFields \cup
                 {"this_device", "client_id", "gpu_memory_usage", "plausible"}]

(***************************************************************************)
(* radeon.  The kernel's driver has a version: 2.39 added the memory in    *)
(* use, 2.42 the clocks and the temperature.  Those fields are set from    *)
(* the buffer of the request whether it succeeded or not.                  *)
(***************************************************************************)
radeon_symbols == { {"drmGetDevices2", "drmGetDevices"}, {"drmFreeDevices"} }
gpuinfo_radeon_init(ok) == LoadDrm(radeon_symbols, ok)
gpuinfo_radeon_shutdown(lib) == "closed"

gpuinfo_radeon_get_device_handles(lib, ids, ok) == DrmHandles(lib, DrmDevices(ids, ok), ok)

\* The chip set is known by its PCI id, or the name says that it is not.
radeon_get_chipset_name(ok) == {"device_name"}

gpuinfo_radeon_populate_static_info(ok) ==
    radeon_get_chipset_name(ok)
    \cup When("max_link" \in ok, {"max_pcie_gen", "max_pcie_link_width"})
    \cup When("hwmon" \in ok,
              ok \cap {"temperature_slowdown_threshold", "temperature_shutdown_threshold"})
    \cup When("since_2_39" \in ok, {"n_shared_cores"})

gpuinfo_radeon_refresh_dynamic_info(valid, ok) ==
    Reading({},
        {"gpu_util_rate"}
        \cup When({"since_2_39", "since_2_42"} \subseteq ok,
                  {"gpu_clock_speed", "gpu_clock_speed_max", "mem_clock_speed",
                   "mem_clock_speed_max", "gpu_temp"})
        \cup (ok \cap {"total_memory"})
        \cup When("since_2_39" \in ok, {"used_memory", "free_memory", "mem_util_rate"})
        \cup When("fan_file" \in ok, ok \cap {"fan_speed"}))

\* There is nothing to ask for processes.
gpuinfo_radeon_refresh_running_processes(ok) == Rows(FALSE, {})

radeon_facts ==
    [init    |-> UNION radeon_symbols \cup {"library"},
     options |-> {},
     traits  |-> {"since_2_39", "since_2_42", "integrated"},
     static  |-> {"max_link", "hwmon", "temperature_slowdown_threshold",
                  "temperature_shutdown_threshold"},
     dynamic |-> {"total_memory", "fan_file", "fan_speed"},
     process |-> {}]

(***************************************************************************)
(* Intel.  Nothing is loaded; the power is the difference of two readings  *)
(* of an energy counter, and sampled tells that there was a first one.     *)
(***************************************************************************)
gpuinfo_intel_init(ok) == "ready"
gpuinfo_intel_shutdown(lib) == "closed"

\* A card whose parent is an enabled Intel device driven by i915 or xe.
add_intel_cards(ids, ok) ==
    {i \in ids : {<<"node", i>>, <<"driver", i>>, <<"device", i>>} \subseteq ok}
gpuinfo_intel_get_device_handles(lib, ids, ok) ==
    IF Listing \notin ok THEN NoHandles ELSE Handles(TRUE, add_intel_cards(ids, ok))

gpuinfo_intel_populate_static_info(ok) ==
    (ok \cap {"device_name"})
    \cup When("max_link" \in ok, {"max_pcie_gen", "max_pcie_link_width"})

\* The energy counter is read when its file exists.
intel_sample(ok) == When({"hwmon", "energy"} \subseteq ok, {"energy"})

\* Fault: the first reading of the energy counter already gives a power.
intel_sysfs_first(sampled, ok) ==
    (ok \cap {"gpu_clock_speed", "gpu_clock_speed_max"})
    \cup When("integrated" \notin ok /\ "link" \in ok, {"pcie_link_gen", "pcie_link_width"})
    \cup When("hwmon" \in ok, ok \cap {"fan_rpm", "gpu_temp", "power_draw_max"})
    \cup When("energy" \in intel_sample(ok), {"power_draw"})

intel_sysfs(sampled, ok) ==
    (ok \cap {"gpu_clock_speed", "gpu_clock_speed_max"})
    \cup When("integrated" \notin ok /\ "link" \in ok, {"pcie_link_gen", "pcie_link_width"})
    \cup When("hwmon" \in ok, ok \cap {"fan_rpm", "gpu_temp", "power_draw_max"})
    \cup When("energy" \in intel_sample(ok) \cap sampled, {"power_draw"})

\* The regions of i915: what is used is known when the driver may tell it.
gpuinfo_intel_i915_refresh_dynamic_info(ok) ==
    When("regions" \in ok,
         {"total_memory"}
         \cup When("regions_used" \in ok, {"used_memory", "free_memory", "mem_util_rate"}))

\* The regions of xe: without the privilege to see it, what is used reads zero.
gpuinfo_intel_xe_refresh_dynamic_info(ok) ==
    When("regions" \in ok,
         {"total_memory"}
         \cup When("regions_used" \in ok, {"used_memory", "free_memory", "mem_util_rate"}))

gpuinfo_intel_refresh_dynamic_info(driver, sampled, ok) ==
    Reading({},
        intel_sysfs(sampled, ok)
        \cup CASE driver = "i915" -> gpuinfo_intel_i915_refresh_dynamic_info(ok)
               [] driver = "xe"   -> gpuinfo_intel_xe_refresh_dynamic_info(ok))

\* The time of the video engine stands for decoding and encoding; the time of
\* the compute engine only adds to a usage that the render engine gave.
parse_drm_fdinfo_intel_i915(last, ok) ==
    LET video == When("video_engine" \in ok, {"dec_engine_used", "enc_engine_used"})
        times == video \cup (ok \cap {"gfx_engine_used", "compute_engine_used"})
    IN  Rows({"this_device", "client_id"} \subseteq ok,
             (ok \cap {"gpu_memory_usage"}) \cup times
             \cup When(Measured("gfx_engine_used", times, last, ok), {"gpu_usage"})
             \cup When(Measured("dec_engine_used", times, last, ok), {"decode_usage"})
             \cup When(Measured("enc_engine_used", times, last, ok), {"encode_usage"}))

\* xe counts cycles: a cached client always has a usage, zero if no time passed.
parse_drm_fdinfo_intel_xe(last, ok) ==
    Rows({"this_device", "client_id"} \subseteq ok,
         (ok \cap {"gpu_memory_usage"}) \cup {"gpu_cycles"}
         \cup When("client" \in last, {"gpu_usage"})
         \cup When("client" \in last /\ "video_cycles" \in ok, {"decode_usage"}))

parse_drm_fdinfo_intel(driver, last, ok) ==
    CASE driver = "i915" -> parse_drm_fdinfo_intel_i915(last, ok)
      [] driver = "xe"   -> parse_drm_fdinfo_intel_xe(last, ok)

intel_facts ==
    [init    |-> {},
     options |-> {},
     traits  |-> {"integrated"},
     static  |-> {"device_name", "max_link"},
     dynamic |-> {"gpu_clock_speed", "gpu_clock_speed_max", "link", "hwmon", "fan_rpm",
                  "gpu_temp", "power_draw_max", "energy", "regions", "regions_used"},
     process |-> {"this_device", "client_id", "gpu_memory_usage", "gfx_engine_used",
                  "compute_engine_used", "video_engine", "video_cycles", "plausible"}]

(***************************************************************************)
(* msm.  The callback does not compare the device of the file.             *)
(***************************************************************************)
msm_symbols == drm_symbols \cup { {"drmCommandWriteRead"} }
gpuinfo_msm_init(ok) == LoadDrm(msm_symbols, ok)
gpuinfo_msm_shutdown(lib) == "closed"
gpuinfo_msm_get_device_handles(lib, ids, ok) == DrmHandles(lib, DrmDevices(ids, ok), ok)

\* The marketing name of the chip, or its number when the table has no name.
gpuinfo_msm_populate_static_info(ok) == When("chip_id" \in ok, {"device_name"})

\* The memory fields are set whatever was found in /proc/meminfo.
gpuinfo_msm_refresh_dynamic_info(valid, ok) ==
    Reading({},
        MemoryFields \cup {"mem_util_rate"}
        \cup When("max_freq" \in ok, {"gpu_clock_speed", "gpu_clock_speed_max"}))

\* One engine whose time is the one of the graphics engine (msm, v3d).
OneEngineRow(last, ok) ==
    Rows("client_id" \in ok,
         (ok \cap {"gpu_memory_usage", "gfx_engine_used"})
         \cup When(Measured("gfx_engine_used", ok, last, ok), {"gpu_usage"}))

parse_drm_fdinfo_msm(last, ok) == OneEngineRow(last, ok)

msm_facts ==
    [init    |-> UNION msm_symbols \cup {"library"},
     options |-> {},
     traits  |-> {},
     static  |-> {"chip_id"},
     dynamic |-> {"max_freq"},
     process |-> {"client_id", "gpu_memory_usage", "gfx_engine_used", "plausible"}]

(***************************************************************************)
(* Mali: panfrost and panthor.  The version that every later call compares *)
(* is stored in the first slot only; a cleared slot reads as panfrost.     *)
(***************************************************************************)
mali_symbols == msm_symbols \cup { {"drmGetDeviceFromDevId"} }
mali_init_drm_funcs(ok) ==
    IF "meminfo" \in ok THEN LoadDrm(mali_symbols, ok) ELSE "closed"
mali_shutdown_common(lib) == "closed"

\* handle_model runs after the device was appended to the list: a device for
\* which it fails stays there and is not counted.
mali_common_get_device_handles(lib, ids, handled, ok) ==
    LET listed == DrmDevices(ids, ok)
    IN  IF lib = "closed" \/ Listing \notin ok THEN NoHandles
        ELSE [Handles(TRUE, listed) EXCEPT !.count = Cardinality(listed \cap handled)]

mali_version(driver, listed, dev) ==
    IF \A i \in listed : dev <= i THEN driver ELSE "panfrost"

mali_common_refresh_dynamic_info(ok) == MemoryFields \cup {"mem_util_rate"}

\* What a cached client of Mali adds to a row.
mali_common_parse_fdinfo_handle_cache(last, ok) ==
    When("client" \in last, {"sample_delta"} \cup When("gfx_engine_used" \in ok, {"gpu_cycles"}))
    \cup When(Measured("gfx_engine_used", ok, last, ok), {"gpu_usage"})

\* The frequencies in the file are frequencies of the device; they are set even
\* when the file turns out to have no client id.
mali_common_parse_drm_fdinfo(last, ok) ==
    Rows({"this_driver", "client_id"} \subseteq ok,
         (ok \cap {"gpu_memory_usage", "gfx_engine_used"})
         \cup mali_common_parse_fdinfo_handle_cache(last, ok))
mali_fdinfo_dynamic(ok) ==
    When("this_driver" \in ok, ok \cap {"gpu_clock_speed", "gpu_clock_speed_max"})
mali_fdinfo_static(ok) ==
    When({"this_driver", "gfx_engine_used"} \subseteq ok, {"engine_count"})

mali_facts ==
    [init    |-> UNION mali_symbols \cup {"library", "meminfo"},
     options |-> {},
     traits  |-> {},
     static  |-> {"device_name", "n_shared_cores", "l2cache_size", "core_features"},
     dynamic |-> {},
     process |-> {"this_driver", "client_id", "gpu_memory_usage", "gfx_engine_used",
                  "plausible", "gpu_clock_speed", "gpu_clock_speed_max"}]

gpuinfo_panfrost_init(ok) == mali_init_drm_funcs(ok)
gpuinfo_panfrost_shutdown(lib) == mali_shutdown_common(lib)

\* The kernel only counts when the profiling file was set to 1.
panfrost_open_sysfs_profile(ids, ok) == {i \in ids : <<"device", i>> \in ok}
gpuinfo_panfrost_get_device_handles(lib, ids, ok) ==
    mali_common_get_device_handles(lib, ids, panfrost_open_sysfs_profile(ids, ok), ok)

gpuinfo_panfrost_populate_static_info(ok) ==
    (ok \cap {"device_name", "n_shared_cores", "l2cache_size"})
    \cup When({"n_shared_cores", "core_features"} \subseteq ok, {"n_exec_engines"})

gpuinfo_panthor_init(ok) == mali_init_drm_funcs(ok)
gpuinfo_panthor_shutdown(lib) == mali_shutdown_common(lib)
gpuinfo_panthor_get_device_handles(lib, ids, ok) ==
    mali_common_get_device_handles(lib, ids, ids, ok)

\* The name says that the model is unknown when the query fails.
gpuinfo_panthor_populate_static_info(ok) == {"device_name"}

(***************************************************************************)
(* v3d.                                                                    *)
(***************************************************************************)
gpuinfo_v3d_init(ok) == "ready"
gpuinfo_v3d_shutdown(lib) == "closed"
gpuinfo_v3d_get_device_handles(lib, ids, ok) ==
    IF Listing \notin ok THEN NoHandles
    ELSE Handles(TRUE, {i \in ids : {<<"node", i>>, <<"driver", i>>} \subseteq ok})
gpuinfo_v3d_populate_static_info(ok) == {"device_name"}

\* The firmware answers through a mailbox.
set_gpuinfo_from_vcio(ok) ==
    When("mailbox" \in ok, ok \cap {"decoder_rate", "gpu_temp", "gpu_clock_speed"})
set_memory_gpuinfo(ok) == When("bo_stats" \in ok, {"total_memory", "used_memory", "mem_util_rate"})

\* Fault: the bits of the last refresh are not cleared.
v3d_refresh_keeping(valid, ok) ==
    Reading(valid, set_gpuinfo_from_vcio(ok) \cup set_memory_gpuinfo(ok))

gpuinfo_v3d_refresh_dynamic_info(valid, ok) ==
    Reading({}, set_gpuinfo_from_vcio(ok) \cup set_memory_gpuinfo(ok))

parse_drm_fdinfo_v3d(last, ok) == OneEngineRow(last, ok)

v3d_facts ==
    [init    |-> {},
     options |-> {"mailbox"},
     traits  |-> {},
     static  |-> {},
     dynamic |-> {"decoder_rate", "gpu_temp", "gpu_clock_speed", "bo_stats"},
     process |-> msm_facts.process]
=============================================================================
