----------------------------- MODULE GpuVendor -----------------------------
(***************************************************************************)
(* struct gpu_vendor: the calls every driver implements, by vendor.  The   *)
(* two drivers of Intel's kernel modules count as vendors of their own.    *)
(***************************************************************************)
EXTENDS DriverLibraries, DriverDrm, DriverSysfs

Drivers ==
    {"nvidia", "ixml", "metax", "enflame", "ascend", "amdgpu", "radeon", "i915", "xe", "msm",
     "panfrost", "panthor", "v3d", "tenstorrent", "tpu", "rknpu", "apple"}
IntelDrivers == {"i915", "xe"}
MaliDrivers == {"panfrost", "panthor"}

Facts(v) ==
    CASE v \in {"nvidia", "enflame"} -> nvidia_facts
      [] v = "ixml"         -> ixml_facts
      [] v = "metax"        -> metax_facts
      [] v = "ascend"       -> ascend_facts
      [] v = "amdgpu"       -> amdgpu_facts
      [] v = "radeon"       -> radeon_facts
      [] v \in IntelDrivers -> intel_facts
      [] v = "msm"          -> msm_facts
      [] v \in MaliDrivers  -> mali_facts
      [] v = "v3d"          -> v3d_facts
      [] v = "tenstorrent"  -> tenstorrent_facts
      [] v = "tpu"          -> tpu_facts
      [] v = "rknpu"        -> rknpu_facts
      [] v = "apple"        -> apple_facts

HandleFacts(ids) ==
    {Listing} \cup
    ({"handle", "pci", "info", "limited_info", "node", "driver", "device"} \X ids)

InitLibrary(v, ok) ==
    CASE v = "nvidia"       -> gpuinfo_nvidia_init(ok)
      [] v = "ixml"         -> gpuinfo_ixml_init(ok)
      [] v = "metax"        -> gpuinfo_metax_init(ok)
      [] v = "enflame"      -> gcuinfo_enflame_init(ok)
      [] v = "ascend"       -> gpuinfo_ascend_init(ok)
      [] v = "amdgpu"       -> gpuinfo_amdgpu_init(ok)
      [] v = "radeon"       -> gpuinfo_radeon_init(ok)
      [] v \in IntelDrivers -> gpuinfo_intel_init(ok)
      [] v = "msm"          -> gpuinfo_msm_init(ok)
      [] v = "panfrost"     -> gpuinfo_panfrost_init(ok)
      [] v = "panthor"      -> gpuinfo_panthor_init(ok)
      [] v = "v3d"          -> gpuinfo_v3d_init(ok)
      [] v = "tenstorrent"  -> gpuinfo_tenstorrent_init(ok)
      [] v = "tpu"          -> gpuinfo_tpu_init(ok)
      [] v = "rknpu"        -> gpuinfo_rknpu_init(ok)
      [] v = "apple"        -> gpuinfo_apple_init(ok)

GetDeviceHandles(v, lib, ids, options, ok) ==
    CASE v = "nvidia"       -> gpuinfo_nvidia_get_device_handles(lib, ids, ok)
      [] v = "ixml"         -> gpuinfo_ixml_get_device_handles(lib, ids, ok)
      [] v = "metax"        -> gpuinfo_metax_get_device_handles(lib, ids, ok)
      [] v = "enflame"      -> gcuinfo_enflame_get_device_handles(lib, ids, ok)
      [] v = "ascend"       -> gpuinfo_ascend_get_device_handles(lib, ids, ok)
      [] v = "amdgpu"       -> gpuinfo_amdgpu_get_device_handles(lib, ids, options, ok)
      [] v = "radeon"       -> gpuinfo_radeon_get_device_handles(lib, ids, ok)
      [] v \in IntelDrivers -> gpuinfo_intel_get_device_handles(lib, ids, ok)
      [] v = "msm"          -> gpuinfo_msm_get_device_handles(lib, ids, ok)
      [] v = "panfrost"     -> gpuinfo_panfrost_get_device_handles(lib, ids, ok)
      [] v = "panthor"      -> gpuinfo_panthor_get_device_handles(lib, ids, ok)
      [] v = "v3d"          -> gpuinfo_v3d_get_device_handles(lib, ids, ok)
      [] v = "tenstorrent"  -> gpuinfo_tenstorrent_get_device_handles(lib, ids, ok)
      [] v = "tpu"          -> gpuinfo_tpu_get_device_handles(lib, ids, ok)
      [] v = "rknpu"        -> gpuinfo_rknpu_get_device_handles(lib, ids, ok)
      [] v = "apple"        -> gpuinfo_apple_get_device_handles(lib, ids, ok)

StaticInfo(v, ok) ==
    CASE v = "nvidia"       -> gpuinfo_nvidia_populate_static_info(ok)
      [] v = "ixml"         -> gpuinfo_ixml_populate_static_info(ok)
      [] v = "metax"        -> gpuinfo_metax_populate_static_info(ok)
      [] v = "enflame"      -> gcuinfo_enflame_populate_static_info(ok)
      [] v = "ascend"       -> gpuinfo_ascend_populate_static_info(ok)
      [] v = "amdgpu"       -> gpuinfo_amdgpu_populate_static_info(ok)
      [] v = "radeon"       -> gpuinfo_radeon_populate_static_info(ok)
      [] v \in IntelDrivers -> gpuinfo_intel_populate_static_info(ok)
      [] v = "msm"          -> gpuinfo_msm_populate_static_info(ok)
      [] v = "panfrost"     -> gpuinfo_panfrost_populate_static_info(ok)
      [] v = "panthor"      -> gpuinfo_panthor_populate_static_info(ok)
      [] v = "v3d"          -> gpuinfo_v3d_populate_static_info(ok)
      [] v = "tenstorrent"  -> gpuinfo_tenstorrent_populate_static_info(ok)
      [] v = "tpu"          -> gpuinfo_tpu_populate_static_info(ok)
      [] v = "rknpu"        -> gpuinfo_rknpu_populate_static_info(ok)
      [] v = "apple"        -> gpuinfo_apple_populate_static_info(ok)

DynamicInfo(v, valid, sampled, ok) ==
    CASE v = "nvidia"       -> gpuinfo_nvidia_refresh_dynamic_info(valid, ok)
      [] v = "ixml"         -> gpuinfo_ixml_refresh_dynamic_info(valid, ok)
      [] v = "metax"        -> gpuinfo_metax_refresh_dynamic_info(valid, ok)
      [] v = "enflame"      -> gcuinfo_enflame_refresh_dynamic_info(valid, ok)
      [] v = "ascend"       -> gpuinfo_ascend_refresh_dynamic_info(valid, ok)
      [] v = "amdgpu"       -> gpuinfo_amdgpu_refresh_dynamic_info(valid, ok)
      [] v = "radeon"       -> gpuinfo_radeon_refresh_dynamic_info(valid, ok)
      [] v \in IntelDrivers -> gpuinfo_intel_refresh_dynamic_info(v, sampled, ok)
      [] v = "msm"          -> gpuinfo_msm_refresh_dynamic_info(valid, ok)
      [] v \in MaliDrivers  -> Reading({}, mali_common_refresh_dynamic_info(ok))
      [] v = "v3d"          -> gpuinfo_v3d_refresh_dynamic_info(valid, ok)
      [] v = "tenstorrent"  -> gpuinfo_tenstorrent_refresh_dynamic_info(sampled, ok)
      [] v = "tpu"          -> gpuinfo_tpu_refresh_dynamic_info(valid, ok)
      [] v = "rknpu"        -> gpuinfo_rknpu_refresh_dynamic_info(valid, ok)
      [] v = "apple"        -> gpuinfo_apple_refresh_dynamic_info(valid, ok)

DeviceSample(v, ok) ==
    CASE v \in IntelDrivers -> intel_sample(ok)
      [] v = "tenstorrent"  -> tenstorrent_sample(ok)
      [] OTHER              -> {}

RunningProcesses(v, valid, mig, last, ok) ==
    CASE v = "nvidia"       -> gpuinfo_nvidia_get_running_processes(valid, mig, ok)
      [] v = "ixml"         -> gpuinfo_ixml_get_running_processes(ok)
      [] v = "metax"        -> gpuinfo_metax_get_running_processes(ok)
      [] v = "enflame"      -> gcuinfo_enflame_get_running_processes(mig, ok)
      [] v = "ascend"       -> gpuinfo_ascend_get_running_processes(ok)
      [] v = "amdgpu"       -> parse_drm_fdinfo_amd(last, ok)
      [] v = "radeon"       -> gpuinfo_radeon_refresh_running_processes(ok)
      [] v \in IntelDrivers -> parse_drm_fdinfo_intel(v, last, ok)
      [] v = "msm"          -> parse_drm_fdinfo_msm(last, ok)
      [] v \in MaliDrivers  -> mali_common_parse_drm_fdinfo(last, ok)
      [] v = "v3d"          -> parse_drm_fdinfo_v3d(last, ok)
      [] v = "tenstorrent"  -> gpuinfo_tenstorrent_get_running_processes(ok)
      [] v = "tpu"          -> gpuinfo_tpu_get_running_processes(ok)
      [] v = "rknpu"        -> gpuinfo_rknpu_get_running_processes(ok)
      [] v = "apple"        -> gpuinfo_apple_get_running_processes(ok)

ShutdownLibrary(v, lib) ==
    CASE v = "nvidia"        -> gpuinfo_nvidia_shutdown(lib)
      [] v = "ixml"          -> gpuinfo_ixml_shutdown(lib)
      [] v = "metax"         -> gpuinfo_metax_shutdown(lib)
      [] v = "enflame"       -> gcuinfo_enflame_shutdown(lib)
      [] v = "ascend"        -> gpuinfo_ascend_shutdown(lib)
      [] v = "amdgpu"        -> gpuinfo_amdgpu_shutdown(lib)
      [] v = "radeon"        -> gpuinfo_radeon_shutdown(lib)
      [] v \in IntelDrivers  -> gpuinfo_intel_shutdown(lib)
      [] v = "msm"           -> gpuinfo_msm_shutdown(lib)
      [] v = "panfrost"      -> gpuinfo_panfrost_shutdown(lib)
      [] v = "panthor"       -> gpuinfo_panthor_shutdown(lib)
      [] v = "v3d"           -> gpuinfo_v3d_shutdown(lib)
      [] v = "tenstorrent"   -> gpuinfo_tenstorrent_shutdown(lib)
      [] v = "tpu"           -> gpuinfo_tpu_shutdown(lib)
      [] v = "rknpu"         -> gpuinfo_rknpu_shutdown(lib)
      [] v = "apple"         -> gpuinfo_apple_shutdown(lib)

\* The flags of a device the display looks at.
IntegratedGraphics(v, ok) ==
    v \in {"msm", "v3d", "rknpu"} \cup MaliDrivers \/ "integrated" \in ok
EncodeDecodeShared(v, ok) ==
    \/ v \in {"ascend", "msm", "apple"} \cup IntelDrivers \cup MaliDrivers
    \/ v = "amdgpu" /\ amdgpu_encode_decode_shared(ok)

\* The vendors that learn about processes from fdinfo, and keep a cache of clients.
FdinfoVendors == {"amdgpu", "msm", "v3d"} \cup IntelDrivers \cup MaliDrivers
=============================================================================
