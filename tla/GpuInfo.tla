------------------------------ MODULE GpuInfo ------------------------------
(***************************************************************************)
(* The vocabulary the vendor drivers share (extract_gpuinfo_common.h): the *)
(* fields of a device and of a process that carry a validity bit, and what *)
(* the calls of struct gpu_vendor hand back.  A driver is modelled by the  *)
(* fields it leaves valid, as a function of the FACTS about the outside    *)
(* world that hold during the call: a library call that succeeds, a file   *)
(* that can be read, a value that passes the driver's check.  A fact that  *)
(* alone makes one field valid has the name of that field.                 *)
(*                                                                         *)
(* Each driver lists its facts by the call that finds them out: init       *)
(* (without which it does not start), options (looked for at the start,    *)
(* and used later when found), traits of the device, and those of the      *)
(* static, dynamic and process calls.                                      *)
(***************************************************************************)
EXTENDS Naturals, FiniteSets

static_info_fields ==
    {"device_name", "max_pcie_gen", "max_pcie_link_width",
     "temperature_shutdown_threshold", "temperature_slowdown_threshold",
     "n_shared_cores", "l2cache_size", "n_exec_engines", "engine_count"}

dynamic_info_fields ==
    {"gpu_clock_speed", "gpu_clock_speed_max", "mem_clock_speed", "mem_clock_speed_max",
     "gpu_util_rate", "mem_util_rate", "encoder_rate", "decoder_rate",
     "total_memory", "free_memory", "used_memory",
     "pcie_link_gen", "pcie_link_width", "pcie_rx", "pcie_tx",
     "fan_speed", "fan_rpm", "gpu_temp", "power_draw", "power_draw_max",
     "effective_load_rate", "multi_instance_mode"}

process_info_fields ==
    {"cmdline", "user_name", "gfx_engine_used", "compute_engine_used", "enc_engine_used",
     "dec_engine_used", "gpu_usage", "encode_usage", "decode_usage", "gpu_memory_usage",
     "gpu_memory_percentage", "cpu_usage", "cpu_memory_virt", "cpu_memory_res",
     "gpu_cycles", "sample_delta"}

MemoryFields == {"total_memory", "free_memory", "used_memory"}
UsageFields == {"gpu_usage", "encode_usage", "decode_usage"}

When(condition, fields) == IF condition THEN fields ELSE {}

(***************************************************************************)
(* The state of a vendor's library: not loaded, loaded but not initialised *)
(* (its initialisation failed and the handle was kept), or usable.         *)
(***************************************************************************)
LibraryStates == {"closed", "open", "ready"}

\* One of the names of every group of symbols is found in the library.
Resolved(groups, ok) == \A names \in groups : names \cap ok # {}

\* dlopen, one dlsym per symbol (a missing one closes the library), and the
\* initialisation call, whose failure returns without closing the library.
LoadLibrary(groups, ok) ==
    IF "library" \notin ok \/ ~Resolved(groups, ok) THEN "closed"
    ELSE IF "library_init" \in ok THEN "ready" ELSE "open"

\* The facts about the devices are pairs; this one is about their enumeration.
Listing == <<"enumeration", 0>>

\* get_device_handles: its return value, the devices it appended to the list
\* and the number it reports.
Handles(returned, listed) ==
    [returned |-> returned, listed |-> listed, count |-> Cardinality(listed)]
NoHandles == Handles(FALSE, {})

\* refresh_dynamic_info: the fields whose bit it leaves alone, and the ones it
\* sets in this call.
Reading(kept, set) == [kept |-> kept, set |-> set]

\* refresh_running_processes: whether there are rows, the fields set in them, what
\* their other bits hold ("none" when they were cleared, the bits of the last
\* refresh, or "anything" in memory nobody wrote), and whether the call ends the
\* program.
Rows(listed, fields) ==
    [listed |-> listed, fields |-> When(listed, fields), leftover |-> "none", exits |-> FALSE]
EndsProgram == [Rows(FALSE, {}) EXCEPT !.exits = TRUE]
=============================================================================
