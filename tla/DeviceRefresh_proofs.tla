------------------------ MODULE DeviceRefresh_proofs ------------------------
(***************************************************************************)
(* What a refresh leaves on the screen, for every driver, every outcome of *)
(* the calls it makes, any number of devices, amounts of memory, refreshes *)
(* and faults.                                                             *)
(***************************************************************************)
EXTENDS DeviceRefresh, FiniteSetTheorems, WellFoundedInduction, TLAPS

\* The driver has read the device in the present refresh.
DeviceRead == phase \in {"processes", "utilisation", "fix", "show", "shown"}

\* The facts found at the start are ones the driver looks for there.
HaveInv ==
    have \subseteq Facts(vendor).options \cup Facts(vendor).traits \cup {"power_max_positive"}

\* A bit of the device was set in this refresh, and so was a bit of a process once
\* the snapshot has read the processes.
FreshInv ==
    vendor \notin KeepingVendors =>
        /\ valid \subseteq fresh
        /\ (mode = "snapshot" /\ phase \in {"utilisation", "fix", "show", "shown"}) =>
              row.fields \subseteq fresh

\* What the driver reported is still there, the effective load is right except
\* between a change of the rate and the end of the derivation.
DerivationInv ==
    /\ DeviceRead => reported \subseteq valid
    /\ "effective_load_rate" \notin reported
    /\ phase \in {"processes", "show", "shown"} => EffectiveLoadCoherent
    /\ DerivedMemoryFits

\* The driver remembers a reading exactly when there was one, and has a rate exactly
\* when it read the counter now and before.
Sample(f) == IF f = "power_draw" THEN "energy" ELSE "pcie_counters"
RateInv ==
    \A f \in DOMAIN DeviceRates(vendor) :
        /\ Sample(f) \in sampled <=> f \in counted \cup countedBefore
        /\ DeviceRead => (f \in valid <=> f \in counted \cap countedBefore)

\* What the cache holds of a client was counted when the processes were read last.
UsageSources == {"client", "gfx_engine_used", "compute_engine_used"}
ClientInv ==
    /\ vendor \in FdinfoVendors => last \cap UsageSources \subseteq counted
    /\ UsageNeedsTwoReadings

\* Where the snapshot is: it derives and shows from its second refresh on, and if all
\* was found, everything has been counted since the first one.
ReadOfClient(v) == {"client"} \cup When(v # "xe", {"gfx_engine_used"})
SnapshotInv ==
    /\ phase \in {"init", "static"} => refreshes = 0
    /\ DeviceRead => refreshes >= 1
    /\ (mode = "snapshot" /\ phase \in {"fix", "show", "shown"}) => refreshes >= 2
    /\ (mode = "snapshot" /\ faults = 0) =>
        /\ refreshes >= 1 => DOMAIN DeviceRates(vendor) \subseteq counted \cup countedBefore
        /\ (refreshes >= 2 /\ DeviceRead) => DOMAIN DeviceRates(vendor) \subseteq valid
        /\ (vendor \in FdinfoVendors /\ "old_keys" \notin have) =>
            /\ (refreshes >= 2 \/ (refreshes = 1 /\ phase \in {"utilisation", "dynamic"})) =>
                  ReadOfClient(vendor) \subseteq last
            /\ (refreshes >= 2 /\ phase \in {"utilisation", "fix", "show", "shown"}) =>
                  "gpu_usage" \in row.fields

RefreshInv ==
    /\ FaultsAreContained /\ HaveInv
    /\ FreshInv /\ NoStaleReadings
    /\ DerivationInv /\ RateInv /\ ClientInv /\ SnapshotInv

-----------------------------------------------------------------------------
(* What the drivers answer                                                 *)

DeviceFields == dynamic_info_fields \ {"effective_load_rate"}

\* What every driver's reading of the device is like: it sets bits of the device,
\* never the one of the effective load, and leaves alone old ones or none.
GoodReading(r, kept) == r.kept = kept /\ r.set \subseteq DeviceFields

\* The drivers that load a library clear the bits, except ixml.
LEMMA LibraryReadings ==
    ASSUME NEW bits, NEW ok
    PROVE  /\ GoodReading(gpuinfo_nvidia_refresh_dynamic_info(bits, ok), {})
           /\ GoodReading(gpuinfo_ixml_refresh_dynamic_info(bits, ok), bits)
           /\ GoodReading(gpuinfo_metax_refresh_dynamic_info(bits, ok), {})
           /\ GoodReading(gcuinfo_enflame_refresh_dynamic_info(bits, ok), {})
           /\ GoodReading(gpuinfo_ascend_refresh_dynamic_info(bits, ok), {})
<1>1. GoodReading(gpuinfo_nvidia_refresh_dynamic_info(bits, ok), {})
  <2>1. nvidia_memory(ok) \subseteq MemoryFields \cup {"mem_util_rate"}
    BY DEF nvidia_memory, set_unified_system_memory_info, When
  <2>2. nvidia_memory(ok) \subseteq DeviceFields
    BY <2>1 DEF DeviceFields, MemoryFields, dynamic_info_fields
  <2>3. nvidia_direct \subseteq DeviceFields
    BY DEF nvidia_direct, DeviceFields, dynamic_info_fields
  <2>4. {"gpu_clock_speed", "multi_instance_mode"} \subseteq DeviceFields
    BY DEF DeviceFields, dynamic_info_fields
  <2> QED BY <2>2, <2>3, <2>4 DEF gpuinfo_nvidia_refresh_dynamic_info, Reading, GoodReading, When
<1>2. GoodReading(gpuinfo_ixml_refresh_dynamic_info(bits, ok), bits)
  BY DEF gpuinfo_ixml_refresh_dynamic_info, ixml_direct, nvidia_direct, Reading, GoodReading,
         When, MemoryFields, DeviceFields, dynamic_info_fields
<1>3. GoodReading(gpuinfo_metax_refresh_dynamic_info(bits, ok), {})
  BY DEF gpuinfo_metax_refresh_dynamic_info, metax_direct, Reading, GoodReading,
         When, MemoryFields, DeviceFields, dynamic_info_fields
<1>4. GoodReading(gcuinfo_enflame_refresh_dynamic_info(bits, ok), {})
  BY DEF gcuinfo_enflame_refresh_dynamic_info, enflame_memory, nvidia_direct, Reading, GoodReading,
         When, MemoryFields, DeviceFields, dynamic_info_fields
<1>5. GoodReading(gpuinfo_ascend_refresh_dynamic_info(bits, ok), {})
  BY DEF gpuinfo_ascend_refresh_dynamic_info, ascend_direct, Reading, GoodReading,
         When, MemoryFields, DeviceFields, dynamic_info_fields
<1> QED BY <1>1, <1>2, <1>3, <1>4, <1>5

\* The drivers over DRM clear the bits, all of them.
LEMMA DrmReadings ==
    ASSUME NEW bits, NEW read, NEW ok
    PROVE  /\ GoodReading(gpuinfo_amdgpu_refresh_dynamic_info(bits, ok), {})
           /\ GoodReading(gpuinfo_radeon_refresh_dynamic_info(bits, ok), {})
           /\ \A v \in IntelDrivers : GoodReading(gpuinfo_intel_refresh_dynamic_info(v, read, ok), {})
           /\ GoodReading(gpuinfo_msm_refresh_dynamic_info(bits, ok), {})
           /\ GoodReading(Reading({}, mali_common_refresh_dynamic_info(ok)), {})
           /\ GoodReading(gpuinfo_v3d_refresh_dynamic_info(bits, ok), {})
<1>1. GoodReading(gpuinfo_amdgpu_refresh_dynamic_info(bits, ok), {})
  BY DEF gpuinfo_amdgpu_refresh_dynamic_info, amdgpu_sensors, Reading, GoodReading,
         When, MemoryFields, DeviceFields, dynamic_info_fields
<1>2. GoodReading(gpuinfo_radeon_refresh_dynamic_info(bits, ok), {})
  BY DEF gpuinfo_radeon_refresh_dynamic_info, Reading, GoodReading,
         When, DeviceFields, dynamic_info_fields
<1>3. \A v \in IntelDrivers : GoodReading(gpuinfo_intel_refresh_dynamic_info(v, read, ok), {})
  <2>1. intel_sysfs(read, ok) \subseteq DeviceFields
    BY DEF intel_sysfs, When, DeviceFields, dynamic_info_fields
  <2>2. /\ gpuinfo_intel_i915_refresh_dynamic_info(ok) \subseteq DeviceFields
        /\ gpuinfo_intel_xe_refresh_dynamic_info(ok) \subseteq DeviceFields
    BY DEF gpuinfo_intel_i915_refresh_dynamic_info, gpuinfo_intel_xe_refresh_dynamic_info,
           When, DeviceFields, dynamic_info_fields
  <2> QED BY <2>1, <2>2 DEF IntelDrivers, gpuinfo_intel_refresh_dynamic_info, Reading, GoodReading
<1>4. GoodReading(gpuinfo_msm_refresh_dynamic_info(bits, ok), {})
  BY DEF gpuinfo_msm_refresh_dynamic_info, Reading, GoodReading,
         When, MemoryFields, DeviceFields, dynamic_info_fields
<1>5. GoodReading(Reading({}, mali_common_refresh_dynamic_info(ok)), {})
  BY DEF mali_common_refresh_dynamic_info, Reading, GoodReading,
         MemoryFields, DeviceFields, dynamic_info_fields
<1>6. GoodReading(gpuinfo_v3d_refresh_dynamic_info(bits, ok), {})
  BY DEF gpuinfo_v3d_refresh_dynamic_info, set_gpuinfo_from_vcio, set_memory_gpuinfo,
         Reading, GoodReading, When, DeviceFields, dynamic_info_fields
<1> QED BY <1>1, <1>2, <1>3, <1>4, <1>5, <1>6

\* Of the drivers that read files, tpu and rknpu keep the old bits.
LEMMA SysfsReadings ==
    ASSUME NEW bits, NEW read, NEW ok
    PROVE  /\ GoodReading(gpuinfo_tenstorrent_refresh_dynamic_info(read, ok), {})
           /\ GoodReading(gpuinfo_tpu_refresh_dynamic_info(bits, ok), bits)
           /\ GoodReading(gpuinfo_rknpu_refresh_dynamic_info(bits, ok), bits)
           /\ GoodReading(gpuinfo_apple_refresh_dynamic_info(bits, ok), {})
<1>1. GoodReading(gpuinfo_tenstorrent_refresh_dynamic_info(read, ok), {})
  BY DEF gpuinfo_tenstorrent_refresh_dynamic_info, Reading, GoodReading,
         When, DeviceFields, dynamic_info_fields
<1>2. GoodReading(gpuinfo_tpu_refresh_dynamic_info(bits, ok), bits)
  BY DEF gpuinfo_tpu_refresh_dynamic_info, tpu_fields, Reading, GoodReading,
         DeviceFields, dynamic_info_fields
<1>3. GoodReading(gpuinfo_rknpu_refresh_dynamic_info(bits, ok), bits)
  BY DEF gpuinfo_rknpu_refresh_dynamic_info, set_gpuinfo_dynamic_memory, Reading, GoodReading,
         When, DeviceFields, dynamic_info_fields
<1>4. GoodReading(gpuinfo_apple_refresh_dynamic_info(bits, ok), {})
  BY DEF gpuinfo_apple_refresh_dynamic_info, Reading, GoodReading,
         When, DeviceFields, dynamic_info_fields
<1> QED BY <1>1, <1>2, <1>3, <1>4

\* Only ixml, tpu and rknpu keep the bits of an earlier refresh.
LEMMA ReadingOfVendor ==
    ASSUME NEW v \in Drivers, NEW bits, NEW read, NEW ok
    PROVE  LET r == DynamicInfo(v, bits, read, ok) IN
           /\ r.set \subseteq DeviceFields
           /\ r.kept \subseteq bits
           /\ v \notin KeepingVendors => r.kept = {}
<1> DEFINE r == DynamicInfo(v, bits, read, ok)
           keeps == {"ixml", "tpu", "rknpu"}
<1>1. GoodReading(r, IF v \in keeps THEN bits ELSE {})
  <2>1. CASE v \in {"nvidia", "ixml", "metax", "enflame", "ascend"}
    BY <2>1, LibraryReadings DEF DynamicInfo, IntelDrivers, MaliDrivers
  <2>2. CASE v \in {"amdgpu", "radeon", "i915", "xe", "msm", "panfrost", "panthor", "v3d"}
    BY <2>2, DrmReadings DEF DynamicInfo, IntelDrivers, MaliDrivers
  <2>3. CASE v \in {"tenstorrent", "tpu", "rknpu", "apple"}
    BY <2>3, SysfsReadings DEF DynamicInfo, IntelDrivers, MaliDrivers
  <2> QED BY <2>1, <2>2, <2>3 DEF Drivers
<1> QED BY <1>1 DEF GoodReading, KeepingVendors

\* The power of Intel's devices and the PCIe rates of Tenstorrent's are there when
\* their counters can be read and were read before; then they are remembered.
LEMMA ReadingOfRates ==
    ASSUME NEW v \in Drivers, NEW bits, NEW read, NEW ok, NEW f \in DOMAIN DeviceRates(v)
    PROVE  LET r == DynamicInfo(v, bits, read, ok) IN
           /\ f \in r.set <=> DeviceRates(v)[f] \subseteq ok /\ Sample(f) \in read
           /\ Sample(f) \in DeviceSample(v, ok) <=> DeviceRates(v)[f] \subseteq ok
           /\ r.kept = {}
           /\ f \notin ClientCounters /\ f \in DeviceFields \ {"gpu_util_rate"}
           /\ v \notin MaliDrivers
<1> DEFINE r == DynamicInfo(v, bits, read, ok)
<1>1. CASE v \in IntelDrivers
  <2>1. f = "power_draw"
    BY <1>1 DEF DeviceRates, IntelDrivers, When
  <2>2. DeviceRates(v)[f] = {"hwmon", "energy"}
    BY <2>1 DEF DeviceRates
  <2>3. r = gpuinfo_intel_refresh_dynamic_info(v, read, ok) /\ DeviceSample(v, ok) = intel_sample(ok)
    BY <1>1 DEF DynamicInfo, DeviceSample, IntelDrivers, MaliDrivers
  <2>4. f \in r.set <=> "energy" \in intel_sample(ok) \cap read
    BY <1>1, <2>1, <2>3 DEF gpuinfo_intel_refresh_dynamic_info, Reading, IntelDrivers, intel_sysfs, When,
       gpuinfo_intel_i915_refresh_dynamic_info, gpuinfo_intel_xe_refresh_dynamic_info
  <2>5. r.kept = {}
    BY <2>3 DEF gpuinfo_intel_refresh_dynamic_info, Reading
  <2> QED BY <1>1, <2>1, <2>2, <2>3, <2>4, <2>5 DEF intel_sample, Sample, When, ClientCounters,
             EngineFields, DeviceFields, dynamic_info_fields, IntelDrivers, MaliDrivers
<1>2. CASE v = "tenstorrent"
  <2>1. f \in {"pcie_rx", "pcie_tx"}
    BY <1>2 DEF DeviceRates, IntelDrivers, When
  <2>2. DeviceRates(v)[f] = {"rx_counter", "tx_counter"}
    BY <2>1 DEF DeviceRates
  <2>3. r = gpuinfo_tenstorrent_refresh_dynamic_info(read, ok) /\ DeviceSample(v, ok) = tenstorrent_sample(ok)
    BY <1>2 DEF DynamicInfo, DeviceSample, IntelDrivers, MaliDrivers
  <2>4. f \in r.set <=> "pcie_counters" \in tenstorrent_sample(ok) \cap read
    BY <2>1, <2>3 DEF gpuinfo_tenstorrent_refresh_dynamic_info, Reading, When
  <2>5. r.kept = {}
    BY <2>3 DEF gpuinfo_tenstorrent_refresh_dynamic_info, Reading
  <2> QED BY <1>2, <2>1, <2>2, <2>3, <2>4, <2>5 DEF tenstorrent_sample, Sample, When, ClientCounters,
             EngineFields, DeviceFields, dynamic_info_fields, IntelDrivers, MaliDrivers
<1>3. CASE v \notin IntelDrivers /\ v # "tenstorrent"
  BY <1>3 DEF DeviceRates, When
<1> QED BY <1>1, <1>2, <1>3

\* What does not change has a bit of its own.
LEMMA StaticOfVendor ==
    ASSUME NEW v \in Drivers, NEW ok
    PROVE  StaticInfo(v, ok) \subseteq static_info_fields
<1>1. CASE v \in {"nvidia", "ixml", "metax", "enflame", "ascend"}
  BY <1>1 DEF StaticInfo, IntelDrivers, MaliDrivers, gpuinfo_nvidia_populate_static_info,
     gpuinfo_ixml_populate_static_info, gpuinfo_metax_populate_static_info,
     gcuinfo_enflame_populate_static_info, gpuinfo_ascend_populate_static_info,
     nvml_static, When, static_info_fields
<1>2. CASE v \in {"amdgpu", "radeon", "i915", "xe"}
  BY <1>2 DEF StaticInfo, IntelDrivers, MaliDrivers, gpuinfo_amdgpu_populate_static_info,
     gpuinfo_radeon_populate_static_info, radeon_get_chipset_name,
     gpuinfo_intel_populate_static_info, When, static_info_fields
<1>3. CASE v \in {"msm", "panfrost", "panthor", "v3d"}
  BY <1>3 DEF StaticInfo, IntelDrivers, MaliDrivers, gpuinfo_msm_populate_static_info,
     gpuinfo_panfrost_populate_static_info, gpuinfo_panthor_populate_static_info,
     gpuinfo_v3d_populate_static_info, When, static_info_fields
<1>4. CASE v \in {"tenstorrent", "tpu", "rknpu", "apple"}
  BY <1>4 DEF StaticInfo, IntelDrivers, MaliDrivers, gpuinfo_tenstorrent_populate_static_info,
     gpuinfo_tpu_populate_static_info, gpuinfo_rknpu_populate_static_info,
     gpuinfo_apple_populate_static_info, When, static_info_fields
<1> QED BY <1>1, <1>2, <1>3, <1>4 DEF Drivers

\* A library is loaded or not; one that was shut down is not ready any more.
LEMMA LibraryOfVendor ==
    ASSUME NEW v \in Drivers, NEW ok, NEW l
    PROVE  /\ InitLibrary(v, ok) \in LibraryStates
           /\ ShutdownLibrary(v, l) \in LibraryStates \ {"ready"}
<1>1. \A groups, facts : LoadLibrary(groups, facts) \in LibraryStates
  BY DEF LoadLibrary, LibraryStates
<1>2. InitLibrary(v, ok) \in LibraryStates
  <2>1. CASE v \in {"nvidia", "ixml", "metax", "enflame", "ascend"}
    BY <1>1, <2>1 DEF InitLibrary, IntelDrivers, gpuinfo_nvidia_init, gpuinfo_ixml_init,
       gpuinfo_metax_init, gcuinfo_enflame_init, gpuinfo_ascend_init, LibraryStates
  <2>2. CASE v \in {"amdgpu", "radeon", "i915", "xe", "msm", "panfrost", "panthor", "v3d"}
    BY <1>1, <2>2 DEF InitLibrary, IntelDrivers, gpuinfo_amdgpu_init, gpuinfo_radeon_init,
       gpuinfo_intel_init, gpuinfo_msm_init, gpuinfo_panfrost_init, gpuinfo_panthor_init,
       mali_init_drm_funcs, gpuinfo_v3d_init, LoadDrm, LibraryStates
  <2>3. CASE v \in {"tenstorrent", "tpu", "rknpu", "apple"}
    BY <2>3 DEF InitLibrary, IntelDrivers, gpuinfo_tenstorrent_init, gpuinfo_tpu_init,
       gpuinfo_rknpu_init, gpuinfo_apple_init, LibraryStates
  <2> QED BY <2>1, <2>2, <2>3 DEF Drivers
<1>3. ShutdownLibrary(v, l) \in {"closed", "open"}
  BY DEF Drivers, ShutdownLibrary, IntelDrivers, gpuinfo_nvidia_shutdown, gpuinfo_ixml_shutdown,
     gpuinfo_metax_shutdown, gcuinfo_enflame_shutdown, gpuinfo_ascend_shutdown,
     gpuinfo_amdgpu_shutdown, gpuinfo_radeon_shutdown, gpuinfo_intel_shutdown,
     gpuinfo_msm_shutdown, gpuinfo_panfrost_shutdown, gpuinfo_panthor_shutdown,
     mali_shutdown_common, gpuinfo_v3d_shutdown, gpuinfo_tenstorrent_shutdown,
     gpuinfo_tpu_shutdown, gpuinfo_rknpu_shutdown, gpuinfo_apple_shutdown
<1> QED BY <1>2, <1>3 DEF LibraryStates

\* The list holds devices that are there, and apart from panfrost its length is the
\* number that is reported.
GoodHandles(h, ids) ==
    h.listed \subseteq ids /\ h.count \in 0 .. Cardinality(ids)
ExactHandles(h, ids) == GoodHandles(h, ids) /\ h.count = Cardinality(h.listed)

LEMMA HandlesExact ==
    ASSUME NEW ids, IsFiniteSet(ids), NEW returned, NEW list \in SUBSET ids
    PROVE  ExactHandles(Handles(returned, list), ids)
<1>1. IsFiniteSet(list) /\ Cardinality(list) \in Nat /\ Cardinality(list) <= Cardinality(ids)
  BY FS_Subset, FS_CardinalityType
<1>2. Cardinality(ids) \in Nat
  BY FS_CardinalityType
<1> QED BY <1>1, <1>2 DEF ExactHandles, GoodHandles, Handles

LEMMA HandlesOfVendor ==
    ASSUME NEW v \in Drivers, NEW l, NEW ids, IsFiniteSet(ids), 1 \in ids, NEW options, NEW ok
    PROVE  LET h == GetDeviceHandles(v, l, ids, options, ok) IN
           /\ GoodHandles(h, ids)
           /\ v # "panfrost" => ExactHandles(h, ids)
<1> DEFINE h == GetDeviceHandles(v, l, ids, options, ok)
<1>1. \A returned : \A list \in SUBSET ids : ExactHandles(Handles(returned, list), ids)
  BY HandlesExact
<1>2. ExactHandles(NoHandles, ids)
  BY <1>1 DEF NoHandles
<1>3. \A list \in SUBSET ids : ExactHandles(DrmHandles(l, list, ok), ids)
  BY <1>1, <1>2 DEF DrmHandles
<1>4. CASE v \in {"nvidia", "ixml", "metax", "enflame", "ascend"}
  <2>1. ExactHandles(gpuinfo_nvidia_get_device_handles(l, ids, ok), ids)
    BY <1>1, <1>2 DEF gpuinfo_nvidia_get_device_handles
  <2>2. ExactHandles(gpuinfo_ixml_get_device_handles(l, ids, ok), ids)
    BY <1>1, <1>2 DEF gpuinfo_ixml_get_device_handles
  <2>3. ExactHandles(gpuinfo_metax_get_device_handles(l, ids, ok), ids)
    BY <1>1, <1>2 DEF gpuinfo_metax_get_device_handles
  <2>4. ExactHandles(gcuinfo_enflame_get_device_handles(l, ids, ok), ids)
    BY <1>1, <1>2 DEF gcuinfo_enflame_get_device_handles
  <2>5. ExactHandles(gpuinfo_ascend_get_device_handles(l, ids, ok), ids)
    BY <1>1, <1>2 DEF gpuinfo_ascend_get_device_handles
  <2>6. ExactHandles(h, ids)
    BY <1>4, <2>1, <2>2, <2>3, <2>4, <2>5 DEF GetDeviceHandles, IntelDrivers
  <2> QED BY <2>6 DEF ExactHandles
<1>5. CASE v \in {"amdgpu", "radeon", "i915", "xe", "msm", "v3d"}
  <2>1. DrmDevices(ids, ok) \subseteq ids
    BY DEF DrmDevices
  <2>2. ExactHandles(gpuinfo_amdgpu_get_device_handles(l, ids, options, ok), ids)
    BY <1>3, <2>1 DEF gpuinfo_amdgpu_get_device_handles
  <2>3. ExactHandles(gpuinfo_radeon_get_device_handles(l, ids, ok), ids)
    BY <1>3, <2>1 DEF gpuinfo_radeon_get_device_handles
  <2>4. ExactHandles(gpuinfo_intel_get_device_handles(l, ids, ok), ids)
    BY <1>1, <1>2 DEF gpuinfo_intel_get_device_handles, add_intel_cards
  <2>5. ExactHandles(gpuinfo_msm_get_device_handles(l, ids, ok), ids)
    BY <1>3, <2>1 DEF gpuinfo_msm_get_device_handles
  <2>6. ExactHandles(gpuinfo_v3d_get_device_handles(l, ids, ok), ids)
    BY <1>1, <1>2 DEF gpuinfo_v3d_get_device_handles
  <2>7. ExactHandles(h, ids)
    BY <1>5, <2>2, <2>3, <2>4, <2>5, <2>6 DEF GetDeviceHandles, IntelDrivers
  <2> QED BY <2>7 DEF ExactHandles
<1>6. CASE v \in MaliDrivers
  <2> DEFINE list == DrmDevices(ids, ok)
  <2>1. list \in SUBSET ids
    BY DEF DrmDevices
  <2>2. ASSUME NEW handled
        PROVE  GoodHandles(mali_common_get_device_handles(l, ids, handled, ok), ids)
    <3>1. GoodHandles(NoHandles, ids)
      BY <1>2 DEF ExactHandles
    <3>2. list \cap handled \in SUBSET ids
      BY <2>1
    <3>3. ExactHandles(Handles(TRUE, list \cap handled), ids)
      BY <1>1, <3>2
    <3>4. Cardinality(list \cap handled) \in 0 .. Cardinality(ids)
      BY <3>3 DEF ExactHandles, GoodHandles, Handles
    <3>5. GoodHandles([Handles(TRUE, list) EXCEPT !.count = Cardinality(list \cap handled)], ids)
      BY <2>1, <3>4 DEF GoodHandles, Handles
    <3> QED BY <3>1, <3>5 DEF mali_common_get_device_handles
  <2>3. list \cap ids = list
    BY <2>1
  <2>4. ExactHandles([Handles(TRUE, list) EXCEPT !.count = Cardinality(list)], ids)
    BY <1>1, <2>1 DEF ExactHandles, GoodHandles, Handles
  <2>5. ExactHandles(gpuinfo_panthor_get_device_handles(l, ids, ok), ids)
    BY <1>2, <2>3, <2>4 DEF gpuinfo_panthor_get_device_handles, mali_common_get_device_handles
  <2>6. GoodHandles(gpuinfo_panfrost_get_device_handles(l, ids, ok), ids)
    BY <2>2 DEF gpuinfo_panfrost_get_device_handles
  <2>7. CASE v = "panthor"
    BY <2>5, <2>7 DEF GetDeviceHandles, IntelDrivers, ExactHandles
  <2>8. CASE v = "panfrost"
    BY <2>6, <2>8 DEF GetDeviceHandles, IntelDrivers
  <2> QED BY <1>6, <2>7, <2>8 DEF MaliDrivers
<1>7. CASE v \in {"tenstorrent", "tpu", "rknpu", "apple"}
  <2>1. ExactHandles(gpuinfo_tenstorrent_get_device_handles(l, ids, ok), ids)
    BY <1>1, <1>2 DEF gpuinfo_tenstorrent_get_device_handles
  <2>2. ExactHandles(gpuinfo_tpu_get_device_handles(l, ids, ok), ids)
    BY <1>1, <1>2 DEF gpuinfo_tpu_get_device_handles
  <2>3. ExactHandles(gpuinfo_rknpu_get_device_handles(l, ids, ok), ids)
    BY <1>1 DEF gpuinfo_rknpu_get_device_handles
  <2>4. ExactHandles(gpuinfo_apple_get_device_handles(l, ids, ok), ids)
    BY <1>1 DEF gpuinfo_apple_get_device_handles
  <2>5. ExactHandles(h, ids)
    BY <1>7, <2>1, <2>2, <2>3, <2>4 DEF GetDeviceHandles, IntelDrivers
  <2> QED BY <2>5 DEF ExactHandles
<1> QED BY <1>4, <1>5, <1>6, <1>7 DEF Drivers, IntelDrivers, MaliDrivers

\* The rows of a driver: bits of a process, no other bits, and the program goes on.
GoodRows(r) == r.fields \subseteq process_info_fields /\ r.leftover = "none" /\ r.exits = FALSE

LEMMA RowsGood ==
    ASSUME NEW some, NEW fields \in SUBSET process_info_fields
    PROVE  GoodRows(Rows(some, fields))
BY DEF GoodRows, Rows, When

\* The libraries: ascend leaves the other bits as they were in memory, metax may end
\* the program.
LEMMA LibraryRows ==
    ASSUME NEW bits, NEW m, NEW ok
    PROVE  /\ GoodRows(gpuinfo_nvidia_get_running_processes(bits, m, ok))
           /\ GoodRows(gpuinfo_ixml_get_running_processes(ok))
           /\ GoodRows(gcuinfo_enflame_get_running_processes(m, ok))
           /\ LET r == gpuinfo_metax_get_running_processes(ok) IN
                 r.fields \subseteq process_info_fields /\ r.leftover = "none" /\ r.exits \in BOOLEAN
           /\ LET r == gpuinfo_ascend_get_running_processes(ok) IN
                 r.fields \subseteq process_info_fields /\ r.leftover = "anything" /\ r.exits = FALSE
<1>1. UsageFields \cup {"gpu_memory_usage"} \subseteq process_info_fields
  BY DEF UsageFields, process_info_fields
<1>2. GoodRows(gpuinfo_nvidia_get_running_processes(bits, m, ok))
  <2>1. gpuinfo_nvidia_get_process_utilization(ok) \subseteq UsageFields
    BY DEF gpuinfo_nvidia_get_process_utilization, When
  <2> QED BY <1>1, <2>1, RowsGood DEF gpuinfo_nvidia_get_running_processes, When
<1>3. GoodRows(gpuinfo_ixml_get_running_processes(ok))
  BY <1>1, RowsGood DEF gpuinfo_ixml_get_running_processes, When
<1>4. GoodRows(gcuinfo_enflame_get_running_processes(m, ok))
  <2>1. gcuinfo_enflame_get_process_utilization(ok) \subseteq UsageFields
    BY DEF gcuinfo_enflame_get_process_utilization, When
  <2> QED BY <1>1, <2>1, RowsGood DEF gcuinfo_enflame_get_running_processes, When
<1>5. LET r == gpuinfo_metax_get_running_processes(ok) IN
         r.fields \subseteq process_info_fields /\ r.leftover = "none" /\ r.exits \in BOOLEAN
  BY <1>1 DEF gpuinfo_metax_get_running_processes, EndsProgram, Rows, When
<1>6. LET r == gpuinfo_ascend_get_running_processes(ok) IN
         r.fields \subseteq process_info_fields /\ r.leftover = "anything" /\ r.exits = FALSE
  BY <1>1 DEF gpuinfo_ascend_get_running_processes, Rows, When
<1> QED BY <1>2, <1>3, <1>4, <1>5, <1>6

LEMMA DrmRows ==
    ASSUME NEW l, NEW ok
    PROVE  /\ GoodRows(parse_drm_fdinfo_amd(l, ok))
           /\ GoodRows(gpuinfo_radeon_refresh_running_processes(ok))
           /\ \A v \in IntelDrivers : GoodRows(parse_drm_fdinfo_intel(v, l, ok))
           /\ GoodRows(OneEngineRow(l, ok))
           /\ GoodRows(mali_common_parse_drm_fdinfo(l, ok))
<1>1. EngineFields \cup UsageFields \cup {"gpu_memory_usage", "gpu_cycles", "sample_delta"}
         \subseteq process_info_fields
  BY DEF EngineFields, UsageFields, process_info_fields
<1>2. GoodRows(parse_drm_fdinfo_amd(l, ok))
  BY <1>1, RowsGood DEF parse_drm_fdinfo_amd, When, UsageFields
<1>3. GoodRows(gpuinfo_radeon_refresh_running_processes(ok))
  BY RowsGood DEF gpuinfo_radeon_refresh_running_processes
<1>4. GoodRows(parse_drm_fdinfo_intel_i915(l, ok))
  BY <1>1, RowsGood DEF parse_drm_fdinfo_intel_i915, When, UsageFields, EngineFields
<1>5. GoodRows(parse_drm_fdinfo_intel_xe(l, ok))
  BY <1>1, RowsGood DEF parse_drm_fdinfo_intel_xe, When, UsageFields
<1>6. GoodRows(OneEngineRow(l, ok))
  BY <1>1, RowsGood DEF OneEngineRow, When, UsageFields, EngineFields
<1>7. GoodRows(mali_common_parse_drm_fdinfo(l, ok))
  BY <1>1, RowsGood DEF mali_common_parse_drm_fdinfo, mali_common_parse_fdinfo_handle_cache,
     When, UsageFields, EngineFields
<1> QED BY <1>2, <1>3, <1>4, <1>5, <1>6, <1>7 DEF parse_drm_fdinfo_intel, IntelDrivers

LEMMA SysfsRows ==
    ASSUME NEW ok
    PROVE  /\ GoodRows(gpuinfo_tenstorrent_get_running_processes(ok))
           /\ GoodRows(gpuinfo_rknpu_get_running_processes(ok))
           /\ GoodRows(gpuinfo_apple_get_running_processes(ok))
           /\ LET r == gpuinfo_tpu_get_running_processes(ok) IN
                 r.fields \subseteq process_info_fields /\ r.leftover = "previous" /\ r.exits = FALSE
<1>1. LET r == gpuinfo_tpu_get_running_processes(ok) IN
         r.fields \subseteq process_info_fields /\ r.leftover = "previous" /\ r.exits = FALSE
  BY DEF gpuinfo_tpu_get_running_processes, Rows, When, process_info_fields
<1> QED BY <1>1, RowsGood DEF gpuinfo_tenstorrent_get_running_processes,
        gpuinfo_rknpu_get_running_processes, gpuinfo_apple_get_running_processes

\* Only the rows of tpu and ascend have bits that the driver did not set, only metax ends
\* the program.
LEMMA RowsOfVendor ==
    ASSUME NEW v \in Drivers, NEW bits, NEW m, NEW l, NEW ok
    PROVE  LET r == RunningProcesses(v, bits, m, l, ok) IN
           /\ r.fields \subseteq process_info_fields
           /\ r.leftover \in {"none", "previous", "anything"}
           /\ v \notin KeepingVendors => r.leftover = "none"
           /\ r.exits \in BOOLEAN
           /\ r.exits => v = "metax"
<1> DEFINE r == RunningProcesses(v, bits, m, l, ok)
           claim == /\ r.fields \subseteq process_info_fields
                    /\ r.leftover \in {"none", "previous", "anything"}
                    /\ v \notin KeepingVendors => r.leftover = "none"
                    /\ r.exits \in BOOLEAN
                    /\ r.exits => v = "metax"
<1> SUFFICES claim
  OBVIOUS
<1>1. CASE v \in {"nvidia", "ixml", "enflame"}
  <2>1. GoodRows(r)
    BY <1>1, LibraryRows DEF RunningProcesses, IntelDrivers, MaliDrivers
  <2> QED BY <2>1 DEF GoodRows
<1>2. CASE v \in {"metax", "ascend"}
  <2>1. CASE v = "metax"
    <3>1. r = gpuinfo_metax_get_running_processes(ok)
      BY <2>1 DEF RunningProcesses, IntelDrivers, MaliDrivers
    <3> HIDE DEF r
    <3> QED BY <2>1, <3>1, LibraryRows
  <2>2. CASE v = "ascend"
    <3>1. r = gpuinfo_ascend_get_running_processes(ok)
      BY <2>2 DEF RunningProcesses, IntelDrivers, MaliDrivers
    <3> HIDE DEF r
    <3> QED BY <2>2, <3>1, LibraryRows DEF KeepingVendors
  <2> QED BY <1>2, <2>1, <2>2
<1>3. CASE v \in {"amdgpu", "radeon", "i915", "xe", "msm", "panfrost", "panthor", "v3d"}
  <2>1. GoodRows(r)
    BY <1>3, DrmRows DEF RunningProcesses, IntelDrivers, MaliDrivers, parse_drm_fdinfo_msm, parse_drm_fdinfo_v3d
  <2> QED BY <2>1 DEF GoodRows
<1>4. CASE v \in {"tenstorrent", "tpu", "rknpu", "apple"}
  BY <1>4, SysfsRows DEF RunningProcesses, IntelDrivers, MaliDrivers, KeepingVendors, GoodRows
<1> QED BY <1>1, <1>2, <1>3, <1>4 DEF Drivers

-----------------------------------------------------------------------------
(* Usage from the counters of a client                                     *)

\* What is in the files of fdinfo and not in the device or the library.
ReadInFiles ==
    EngineFields \cup {"this_device", "this_driver", "client_id", "plausible"}

\* A file that names a client, and the device where the driver looks for it.
Identified(v, found) ==
    Facts(v).process \cap {"this_device", "this_driver", "client_id"} \subseteq found

\* A row is offered to the cache when the client is known, with engines that were read.
OffersWhatWasRead(v, r, found) ==
    /\ r.listed /\ "client_id" \in found => Identified(v, found)
    /\ r.fields \cap {"gfx_engine_used", "compute_engine_used"} \subseteq found

\* A usage is the difference of what was read to what the cache holds.
UsageIsDifference(v, r, l, found) ==
    "gpu_usage" \in r.fields =>
        /\ Identified(v, found)
        /\ \E u \in UsageCounters(v) : u \in l /\ (u = "client" \/ u \in found)

\* When all is found the row is listed and goes into the cache, and has a usage if
\* the cache held one before.
CompleteRow(v, r, l, found) ==
    found = Facts(v).process \cup SystemFacts =>
        /\ r.listed /\ "client_id" \in found
        /\ ReadOfClient(v) \subseteq CacheEntry(r.fields)
        /\ ReadOfClient(v) \subseteq l => "gpu_usage" \in r.fields

GoodUsage(v, r, l, found) ==
    /\ OffersWhatWasRead(v, r, found)
    /\ UsageIsDifference(v, r, l, found)
    /\ CompleteRow(v, r, l, found)

\* The facts of a call are what it finds and what was found at the start, which is
\* not in the files.
Extends(ok, found) == \A x \in ReadInFiles : x \in ok <=> x \in found

\* msm and v3d have one engine.
LEMMA OneEngineUsage ==
    ASSUME NEW v \in {"msm", "v3d"}, NEW l, NEW found \in SUBSET (Facts(v).process \cup SystemFacts),
           NEW ok, Extends(ok, found)
    PROVE  GoodUsage(v, OneEngineRow(l, ok), l, found)
<1> DEFINE r == OneEngineRow(l, ok)
<1>1. Facts(v).process = {"client_id", "gpu_memory_usage", "gfx_engine_used", "plausible"}
  BY DEF Facts, IntelDrivers, MaliDrivers, msm_facts, v3d_facts
<1>2. \A x \in {"client_id", "gfx_engine_used", "compute_engine_used", "plausible"} : x \in ok <=> x \in found
  BY DEF Extends, ReadInFiles, EngineFields
<1>3. /\ UsageCounters(v) = {"gfx_engine_used"} /\ ReadOfClient(v) = {"client", "gfx_engine_used"}
      /\ Identified(v, found) <=> "client_id" \in found
  BY <1>1 DEF UsageCounters, ReadOfClient, When, Identified
<1>4. /\ r.listed <=> "client_id" \in found
      /\ "gfx_engine_used" \in r.fields <=> {"client_id", "gfx_engine_used"} \subseteq found
      /\ "compute_engine_used" \notin r.fields
      /\ "gpu_usage" \in r.fields <=> /\ {"client_id", "gfx_engine_used", "plausible"} \subseteq found
                                      /\ {"client", "gfx_engine_used"} \subseteq l
  BY <1>2 DEF OneEngineRow, Rows, Measured, When
<1> HIDE DEF r
<1>5. OffersWhatWasRead(v, r, found)
  BY <1>3, <1>4 DEF OffersWhatWasRead
<1>6. UsageIsDifference(v, r, l, found)
  BY <1>3, <1>4 DEF UsageIsDifference
<1>7. CompleteRow(v, r, l, found)
  <2> SUFFICES ASSUME found = Facts(v).process \cup SystemFacts
               PROVE  /\ r.listed /\ "client_id" \in found
                      /\ {"client", "gfx_engine_used"} \subseteq CacheEntry(r.fields)
                      /\ {"client", "gfx_engine_used"} \subseteq l => "gpu_usage" \in r.fields
    BY <1>3 DEF CompleteRow
  <2>1. {"client_id", "plausible", "gfx_engine_used"} \subseteq found
    BY <1>1
  <2> QED BY <1>4, <2>1 DEF CacheEntry, EngineFields
<1> QED BY <1>5, <1>6, <1>7 DEF GoodUsage, r

\* Mali tells the driver of the file.
LEMMA MaliUsage ==
    ASSUME NEW v \in MaliDrivers, NEW l, NEW found \in SUBSET (Facts(v).process \cup SystemFacts),
           NEW ok, Extends(ok, found)
    PROVE  GoodUsage(v, mali_common_parse_drm_fdinfo(l, ok), l, found)
<1> DEFINE r == mali_common_parse_drm_fdinfo(l, ok)
<1>1. Facts(v).process = {"this_driver", "client_id", "gpu_memory_usage", "gfx_engine_used",
                          "plausible", "gpu_clock_speed", "gpu_clock_speed_max"}
  BY DEF Facts, IntelDrivers, MaliDrivers, mali_facts
<1>2. \A x \in {"this_driver", "client_id", "gfx_engine_used", "compute_engine_used", "plausible"} :
         x \in ok <=> x \in found
  BY DEF Extends, ReadInFiles, EngineFields
<1>3. /\ UsageCounters(v) = {"gfx_engine_used"} /\ ReadOfClient(v) = {"client", "gfx_engine_used"}
      /\ Identified(v, found) <=> {"this_driver", "client_id"} \subseteq found
  BY <1>1 DEF UsageCounters, ReadOfClient, When, Identified, MaliDrivers
<1>4. /\ r.listed <=> {"this_driver", "client_id"} \subseteq found
      /\ "gfx_engine_used" \in r.fields <=>
             {"this_driver", "client_id", "gfx_engine_used"} \subseteq found
      /\ "compute_engine_used" \notin r.fields
      /\ "gpu_usage" \in r.fields <=>
             /\ {"this_driver", "client_id", "gfx_engine_used", "plausible"} \subseteq found
             /\ {"client", "gfx_engine_used"} \subseteq l
  BY <1>2 DEF mali_common_parse_drm_fdinfo, mali_common_parse_fdinfo_handle_cache, Rows, Measured, When
<1> HIDE DEF r
<1>5. OffersWhatWasRead(v, r, found)
  BY <1>3, <1>4 DEF OffersWhatWasRead
<1>6. UsageIsDifference(v, r, l, found)
  BY <1>3, <1>4 DEF UsageIsDifference
<1>7. CompleteRow(v, r, l, found)
  <2> SUFFICES ASSUME found = Facts(v).process \cup SystemFacts
               PROVE  /\ r.listed /\ "client_id" \in found
                      /\ {"client", "gfx_engine_used"} \subseteq CacheEntry(r.fields)
                      /\ {"client", "gfx_engine_used"} \subseteq l => "gpu_usage" \in r.fields
    BY <1>3 DEF CompleteRow
  <2>1. {"this_driver", "client_id", "plausible", "gfx_engine_used"} \subseteq found
    BY <1>1
  <2> QED BY <1>4, <2>1 DEF CacheEntry, EngineFields
<1> QED BY <1>5, <1>6, <1>7 DEF GoodUsage, r

\* Intel: i915 measures times, xe whether there is a client in the cache.
LEMMA IntelUsage ==
    ASSUME NEW v \in IntelDrivers, NEW l, NEW found \in SUBSET (Facts(v).process \cup SystemFacts),
           NEW ok, Extends(ok, found)
    PROVE  GoodUsage(v, parse_drm_fdinfo_intel(v, l, ok), l, found)
<1>1. Facts(v).process =
        {"this_device", "client_id", "gpu_memory_usage", "gfx_engine_used",
         "compute_engine_used", "video_engine", "video_cycles", "plausible"}
  BY DEF Facts, IntelDrivers, MaliDrivers, intel_facts
<1>2. \A x \in {"this_device", "client_id", "gfx_engine_used", "compute_engine_used", "plausible"} :
         x \in ok <=> x \in found
  BY DEF Extends, ReadInFiles, EngineFields
<1>3. Identified(v, found) <=> {"this_device", "client_id"} \subseteq found
  BY <1>1 DEF Identified
<1>4. CASE v = "i915"
  <2>1. UsageCounters(v) = {"gfx_engine_used"} /\ ReadOfClient(v) = {"client", "gfx_engine_used"}
    BY <1>4 DEF UsageCounters, ReadOfClient, When
  <2> DEFINE r == parse_drm_fdinfo_intel_i915(l, ok)
  <2>2. parse_drm_fdinfo_intel(v, l, ok) = r
    BY <1>4 DEF parse_drm_fdinfo_intel
  <2>3. /\ r.listed <=> {"this_device", "client_id"} \subseteq found
        /\ \A e \in {"gfx_engine_used", "compute_engine_used"} :
              e \in r.fields <=> {"this_device", "client_id", e} \subseteq found
        /\ "gpu_usage" \in r.fields <=>
              /\ {"this_device", "client_id", "gfx_engine_used", "plausible"} \subseteq found
              /\ {"client", "gfx_engine_used"} \subseteq l
    BY <1>2 DEF parse_drm_fdinfo_intel_i915, Rows, Measured, When
  <2> HIDE DEF r
  <2>4. OffersWhatWasRead(v, r, found) /\ UsageIsDifference(v, r, l, found)
    BY <1>3, <2>1, <2>3 DEF OffersWhatWasRead, UsageIsDifference
  <2>5. CompleteRow(v, r, l, found)
    <3> SUFFICES ASSUME found = Facts(v).process \cup SystemFacts
                 PROVE  /\ r.listed /\ "client_id" \in found
                        /\ {"client", "gfx_engine_used"} \subseteq CacheEntry(r.fields)
                        /\ {"client", "gfx_engine_used"} \subseteq l => "gpu_usage" \in r.fields
      BY <2>1 DEF CompleteRow
    <3>1. {"this_device", "client_id", "plausible", "gfx_engine_used"} \subseteq found
      BY <1>1
    <3> QED BY <2>3, <3>1 DEF CacheEntry, EngineFields
  <2> QED BY <2>2, <2>4, <2>5 DEF GoodUsage
<1>5. CASE v = "xe"
  <2>1. UsageCounters(v) = {"client"} /\ ReadOfClient(v) = {"client"}
    BY <1>5 DEF UsageCounters, ReadOfClient, When
  <2> DEFINE r == parse_drm_fdinfo_intel_xe(l, ok)
  <2>2. parse_drm_fdinfo_intel(v, l, ok) = r
    BY <1>5 DEF parse_drm_fdinfo_intel
  <2>3. /\ r.listed <=> {"this_device", "client_id"} \subseteq found
        /\ r.fields \cap {"gfx_engine_used", "compute_engine_used"} = {}
        /\ "gpu_usage" \in r.fields <=>
              {"this_device", "client_id"} \subseteq found /\ "client" \in l
    BY <1>2 DEF parse_drm_fdinfo_intel_xe, Rows, When
  <2> HIDE DEF r
  <2>4. OffersWhatWasRead(v, r, found) /\ UsageIsDifference(v, r, l, found)
    BY <1>3, <2>1, <2>3 DEF OffersWhatWasRead, UsageIsDifference
  <2>5. CompleteRow(v, r, l, found)
    <3> SUFFICES ASSUME found = Facts(v).process \cup SystemFacts
                 PROVE  /\ r.listed /\ "client_id" \in found
                        /\ {"client"} \subseteq CacheEntry(r.fields)
                        /\ {"client"} \subseteq l => "gpu_usage" \in r.fields
      BY <2>1 DEF CompleteRow
    <3>1. {"this_device", "client_id"} \subseteq found
      BY <1>1
    <3> QED BY <2>3, <3>1 DEF CacheEntry
  <2> QED BY <2>2, <2>4, <2>5 DEF GoodUsage
<1> QED BY <1>4, <1>5 DEF IntelDrivers

\* amdgpu, with a kernel that reports times.
LEMMA AmdUsage ==
    ASSUME NEW l, NEW found \in SUBSET (Facts("amdgpu").process \cup SystemFacts),
           NEW ok, Extends(ok, found)
    PROVE  LET r == parse_drm_fdinfo_amd(l, ok) IN
           /\ OffersWhatWasRead("amdgpu", r, found)
           /\ "old_keys" \notin ok => GoodUsage("amdgpu", r, l, found)
<1> DEFINE r == parse_drm_fdinfo_amd(l, ok)
           busy(e) == {"client_id", e, "plausible"} \subseteq found /\ {"client", e} \subseteq l
<1>1. Facts("amdgpu").process =
        EngineFields \cup {"this_device", "client_id", "gpu_memory_usage", "plausible"}
  BY DEF Facts, IntelDrivers, MaliDrivers, amdgpu_facts
<1>2. \A x \in {"this_device", "client_id", "gfx_engine_used", "compute_engine_used", "plausible"} :
         x \in ok <=> x \in found
  BY DEF Extends, ReadInFiles, EngineFields
<1>3. /\ UsageCounters("amdgpu") = {"gfx_engine_used", "compute_engine_used"}
      /\ ReadOfClient("amdgpu") = {"client", "gfx_engine_used"}
      /\ Identified("amdgpu", found) <=> {"this_device", "client_id"} \subseteq found
  <2>1. {"this_device", "client_id"} \subseteq Facts("amdgpu").process
        /\ "this_driver" \notin Facts("amdgpu").process
    BY <1>1 DEF EngineFields
  <2> QED BY <2>1 DEF UsageCounters, ReadOfClient, When, Identified
<1>4. /\ r.listed <=> "this_device" \in found
      /\ \A e \in {"gfx_engine_used", "compute_engine_used"} :
            e \in r.fields <=> "old_keys" \notin ok /\ {"this_device", e} \subseteq found
  BY <1>2 DEF parse_drm_fdinfo_amd, Rows, When, EngineFields, UsageFields
<1>5. ASSUME "old_keys" \notin ok
      PROVE  "gpu_usage" \in r.fields <=>
                "this_device" \in found /\ (busy("gfx_engine_used") \/ busy("compute_engine_used"))
  BY <1>2, <1>5 DEF parse_drm_fdinfo_amd, Rows, Measured, When, EngineFields
<1> HIDE DEF r
<1>6. OffersWhatWasRead("amdgpu", r, found)
  BY <1>3, <1>4 DEF OffersWhatWasRead
<1>7. ASSUME "old_keys" \notin ok PROVE UsageIsDifference("amdgpu", r, l, found)
  BY <1>3, <1>5, <1>7 DEF UsageIsDifference
<1>8. ASSUME "old_keys" \notin ok PROVE CompleteRow("amdgpu", r, l, found)
  <2> SUFFICES ASSUME found = Facts("amdgpu").process \cup SystemFacts
               PROVE  /\ r.listed /\ "client_id" \in found
                      /\ {"client", "gfx_engine_used"} \subseteq CacheEntry(r.fields)
                      /\ {"client", "gfx_engine_used"} \subseteq l => "gpu_usage" \in r.fields
    BY <1>3 DEF CompleteRow
  <2>1. {"this_device", "client_id", "plausible", "gfx_engine_used"} \subseteq found
    BY <1>1 DEF EngineFields
  <2> QED BY <1>4, <1>5, <1>8, <2>1 DEF CacheEntry, EngineFields
<1> QED BY <1>6, <1>7, <1>8 DEF GoodUsage, r

\* The rows of a driver that reads fdinfo, with what was found at the start.
LEMMA UsageOfClient ==
    ASSUME NEW v \in FdinfoVendors, NEW bits, NEW m, NEW l,
           NEW found \in SUBSET (Facts(v).process \cup SystemFacts),
           NEW h, h \subseteq Facts(v).options \cup Facts(v).traits \cup {"power_max_positive"}
    PROVE  LET r == RunningProcesses(v, bits, m, l, found \cup h) IN
           /\ OffersWhatWasRead(v, r, found)
           /\ "old_keys" \notin h => GoodUsage(v, r, l, found)
<1>1. h \cap ReadInFiles = {}
  <2>1. CASE v = "amdgpu"
    BY <2>1 DEF Facts, IntelDrivers, MaliDrivers, amdgpu_facts, amdgpu_optional, ReadInFiles, EngineFields
  <2>2. CASE v \in {"msm", "v3d"}
    BY <2>2 DEF Facts, IntelDrivers, MaliDrivers, msm_facts, v3d_facts, ReadInFiles, EngineFields
  <2>3. CASE v \in IntelDrivers
    BY <2>3 DEF Facts, IntelDrivers, MaliDrivers, intel_facts, ReadInFiles, EngineFields
  <2>4. CASE v \in MaliDrivers
    BY <2>4 DEF Facts, IntelDrivers, MaliDrivers, mali_facts, ReadInFiles, EngineFields
  <2> QED BY <2>1, <2>2, <2>3, <2>4 DEF FdinfoVendors
<1> DEFINE ok == found \cup h
           r == RunningProcesses(v, bits, m, l, ok)
<1>6. Extends(ok, found)
  BY <1>1 DEF Extends
<1>7. "old_keys" \in ok => "old_keys" \in h
  BY DEF Facts, IntelDrivers, MaliDrivers, FdinfoVendors, amdgpu_facts, msm_facts, v3d_facts, intel_facts,
     mali_facts, EngineFields, SystemFacts
<1> SUFFICES /\ OffersWhatWasRead(v, r, found)
             /\ "old_keys" \notin h => GoodUsage(v, r, l, found)
  OBVIOUS
<1> HIDE DEF ok, r
<1>2. CASE v = "amdgpu"
  <2>1. r = parse_drm_fdinfo_amd(l, ok)
    BY <1>2 DEF r, RunningProcesses, IntelDrivers, MaliDrivers
  <2> QED BY <1>6, <1>7, <1>2, <2>1, AmdUsage
<1>3. CASE v \in {"msm", "v3d"}
  <2>1. r = OneEngineRow(l, ok)
    BY <1>3 DEF r, RunningProcesses, IntelDrivers, MaliDrivers, parse_drm_fdinfo_msm, parse_drm_fdinfo_v3d
  <2> QED BY <1>6, <1>3, <2>1, OneEngineUsage DEF GoodUsage
<1>4. CASE v \in IntelDrivers
  <2>1. r = parse_drm_fdinfo_intel(v, l, ok)
    BY <1>4 DEF r, RunningProcesses, IntelDrivers, MaliDrivers
  <2> QED BY <1>6, <1>4, <2>1, IntelUsage DEF GoodUsage
<1>5. CASE v \in MaliDrivers
  <2>1. r = mali_common_parse_drm_fdinfo(l, ok)
    BY <1>5 DEF r, RunningProcesses, IntelDrivers, MaliDrivers
  <2> QED BY <1>6, <1>5, <2>1, MaliUsage DEF GoodUsage
<1> QED BY <1>2, <1>3, <1>4, <1>5 DEF FdinfoVendors

-----------------------------------------------------------------------------
(* The sum over the processes                                              *)

\* A set of numbers has a least one.
LEMMA LeastNumber ==
    ASSUME NEW T \in SUBSET Nat, T # {}
    PROVE  \E x \in T : \A y \in T : x <= y
<1> DEFINE Less == OpToRel(<, Nat)
<1>1. IsWellFoundedOn(Less, Nat)
  BY NatLessThanWellFounded
<1>2. \A x, y \in Nat : <<y, x>> \in Less <=> y < x
  BY DEF OpToRel
<1> HIDE DEF Less
<1>3. PICK x \in T : \A y \in T : <<y, x>> \notin Less
  BY <1>1, WFMin
<1>4. x \in Nat /\ \A y \in T : y \in Nat /\ ~(y < x)
  BY <1>2, <1>3
<1> QED BY <1>4

\* The sums of the first amounts, as MemoryOfProcesses defines them.
IsSum(s, sum) == sum = [k \in 0 .. Len(s) |-> IF k = 0 THEN 0 ELSE sum[k - 1] + s[k]]

PartialSum(s, n, sum) ==
    /\ sum \in [0 .. n -> Nat]
    /\ \A k \in 0 .. n : sum[k] = IF k = 0 THEN 0 ELSE sum[k - 1] + s[k]

\* There are such sums: the shortest prefix without them would have one less.
LEMMA SumExists ==
    ASSUME NEW s \in Seq(Nat)
    PROVE  \E sum : PartialSum(s, Len(s), sum)
<1> DEFINE without == {n \in 0 .. Len(s) : ~\E sum : PartialSum(s, n, sum)}
<1>1. without = {}
  <2> SUFFICES ASSUME without # {} PROVE FALSE
    OBVIOUS
  <2>1. without \in SUBSET Nat
    OBVIOUS
  <2>2. PICK n \in without : \A m \in without : n <= m
    BY <2>1, LeastNumber
  <2>3. n \in 0 .. Len(s) /\ ~\E sum : PartialSum(s, n, sum)
    BY <2>2
  <2>4. n # 0
    <3>1. PartialSum(s, 0, [k \in 0 .. 0 |-> 0])
      BY DEF PartialSum
    <3> QED BY <2>3, <3>1
  <2>5. n - 1 \in 0 .. Len(s) /\ n - 1 \notin without
    BY <2>2, <2>3, <2>4
  <2>6. PICK sum : PartialSum(s, n - 1, sum)
    BY <2>5
  <2> DEFINE more == [k \in 0 .. n |-> IF k = n THEN sum[n - 1] + s[n] ELSE sum[k]]
  <2>7. /\ sum \in [0 .. n - 1 -> Nat]
        /\ \A k \in 0 .. n - 1 : sum[k] = IF k = 0 THEN 0 ELSE sum[k - 1] + s[k]
    BY <2>6 DEF PartialSum
  <2>8. s[n] \in Nat
    BY <2>3, <2>4
  <2>9. \A k \in 0 .. n : k = n \/ (k \in 0 .. n - 1 /\ (k = 0 \/ k - 1 \in 0 .. n - 1))
    BY <2>3, <2>4
  <2>10. more \in [0 .. n -> Nat]
    BY <2>3, <2>4, <2>7, <2>8, <2>9
  <2>11. \A k \in 0 .. n : more[k] = IF k = 0 THEN 0 ELSE more[k - 1] + s[k]
    BY <2>3, <2>4, <2>7, <2>9
  <2> QED BY <2>3, <2>10, <2>11 DEF PartialSum
<1>2. Len(s) \in 0 .. Len(s)
  OBVIOUS
<1> QED BY <1>1, <1>2

\* The sum is a number, as the code adds it up in an integer.
LEMMA SumIsNumber ==
    ASSUME row.memory \in Seq(Nat)
    PROVE  MemoryOfProcesses \in Nat
<1> DEFINE s == row.memory
           sums == CHOOSE sum : IsSum(s, sum)
<1>1. PICK f : PartialSum(s, Len(s), f)
  BY SumExists
<1>2. f = [k \in 0 .. Len(s) |-> f[k]]
  BY <1>1 DEF PartialSum
<1>3. [k \in 0 .. Len(s) |-> f[k]] = [k \in 0 .. Len(s) |-> IF k = 0 THEN 0 ELSE f[k - 1] + s[k]]
  BY <1>1 DEF PartialSum
<1>4. IsSum(s, f)
  BY <1>2, <1>3 DEF IsSum
<1>5. IsSum(s, sums)
  BY <1>4, Zenon
<1>6. MemoryOfProcesses = sums[Len(s)]
  BY DEF MemoryOfProcesses, IsSum
<1>7. Len(s) \in Nat /\ \A k \in 1 .. Len(s) : s[k] \in Nat
  OBVIOUS
<1> HIDE DEF sums, s
<1>8. \A k \in 0 .. Len(s) : sums[k] = IF k = 0 THEN 0 ELSE sums[k - 1] + s[k]
  BY <1>5 DEF IsSum
<1> DEFINE odd == {k \in 0 .. Len(s) : sums[k] \notin Nat}
<1>9. odd = {}
  <2> SUFFICES ASSUME odd # {} PROVE FALSE
    OBVIOUS
  <2>1. odd \in SUBSET Nat
    OBVIOUS
  <2>2. PICK n \in odd : \A m \in odd : n <= m
    BY <2>1, LeastNumber
  <2>3. n \in 0 .. Len(s) /\ sums[n] \notin Nat
    BY <2>2
  <2>4. n # 0
    BY <1>8, <2>3
  <2>5. n - 1 \in 0 .. Len(s) /\ n - 1 \notin odd
    BY <2>2, <2>3, <2>4
  <2>6. sums[n - 1] \in Nat /\ s[n] \in Nat
    BY <1>7, <2>3, <2>4, <2>5
  <2>7. sums[n] = sums[n - 1] + s[n]
    BY <1>8, <2>3, <2>4
  <2> QED BY <2>3, <2>6, <2>7
<1>10. Len(s) \in 0 .. Len(s)
  BY <1>7
<1> QED BY <1>6, <1>9, <1>10

-----------------------------------------------------------------------------
(* Facts about single steps                                                *)

\* A call finds some of the facts it looks for, and is counted unless it finds all.
LEMMA FaultCounted ==
    ASSUME NEW facts, NEW found \in Outcomes(facts), faults \in 0 .. MaxFaults, Fault(found, facts)
    PROVE  /\ found \subseteq facts /\ faults' \in 0 .. MaxFaults
           /\ faults' = 0 => faults = 0 /\ found = facts
<1>1. found \subseteq facts /\ (found # facts => faults < MaxFaults)
  BY DEF Outcomes
<1> QED BY <1>1, BoundsAssumption DEF Fault

\* The effective load goes with the values it is made of, and the others stay.
LEMMA EffectiveLoad ==
    ASSUME NEW fields
    PROVE  LET load == calculate_effective_load(fields) IN
           /\ "effective_load_rate" \in load <=>
                 /\ {"gpu_util_rate", "power_draw", "power_draw_max"} \subseteq load
                 /\ "power_max_positive" \in have
           /\ \A f : f # "effective_load_rate" => (f \in load <=> f \in fields)
BY DEF calculate_effective_load, When

\* What was found at the start is no counter of the device, and no driver counts
\* anything else than these.
LEMMA CountersAreRead ==
    ASSUME NEW v \in Drivers, NEW f \in DOMAIN DeviceRates(v), NEW ok, NEW h,
           h \subseteq Facts(v).options \cup Facts(v).traits \cup {"power_max_positive"}
    PROVE  /\ DeviceRates(v)[f] \subseteq ok \cup h <=> DeviceRates(v)[f] \subseteq ok
           /\ DeviceRates(v)[f] \subseteq Facts(v).dynamic
           /\ f \in {"power_draw", "pcie_rx", "pcie_tx"}
<1>1. CASE v \in IntelDrivers
  <2>1. f = "power_draw" /\ DeviceRates(v)[f] = {"hwmon", "energy"}
    BY <1>1 DEF DeviceRates, IntelDrivers, When
  <2>2. Facts(v) = intel_facts
    BY <1>1 DEF Facts, IntelDrivers, MaliDrivers
  <2>3. {"hwmon", "energy"} \cap h = {} /\ {"hwmon", "energy"} \subseteq Facts(v).dynamic
    BY <2>2 DEF intel_facts
  <2> QED BY <2>1, <2>3
<1>2. CASE v = "tenstorrent"
  <2>1. f \in {"pcie_rx", "pcie_tx"}
    BY <1>2 DEF DeviceRates, IntelDrivers, When
  <2>2. DeviceRates(v)[f] = {"rx_counter", "tx_counter"}
    BY <2>1 DEF DeviceRates
  <2>3. Facts(v) = tenstorrent_facts
    BY <1>2 DEF Facts, IntelDrivers, MaliDrivers
  <2>4. {"rx_counter", "tx_counter"} \cap h = {} /\ {"rx_counter", "tx_counter"} \subseteq Facts(v).dynamic
    BY <2>3 DEF tenstorrent_facts
  <2> QED BY <2>1, <2>2, <2>4
<1>3. CASE v \notin IntelDrivers /\ v # "tenstorrent"
  BY <1>3 DEF DeviceRates, When
<1> QED BY <1>1, <1>2, <1>3

\* The amounts of the processes stay a sequence of numbers.
LEMMA KnownAmounts ==
    ASSUME NEW fields, NEW memory \in Seq(Nat), NEW ok
    PROVE  LET known == gpuinfo_populate_process_info(fields, memory, ok) IN
           /\ known.listed = TRUE
           /\ known.memory \in Seq(Nat)
           /\ known.fields \subseteq fields \cup process_info_fields
           /\ "gpu_usage" \in known.fields <=> "gpu_usage" \in fields
<1> DEFINE known == gpuinfo_populate_process_info(fields, memory, ok)
           few(k) == ("total_memory" \in valid /\ "gpu_memory_usage" \in fields)
                        => memory[k] <= TotalMemory
<1>1. known.memory = [k \in 1 .. Len(memory) |-> IF few(k) THEN memory[k] ELSE 0]
  BY DEF gpuinfo_populate_process_info
<1>2. \A k \in 1 .. Len(memory) : (IF few(k) THEN memory[k] ELSE 0) \in Nat
  OBVIOUS
<1>3. known.memory \in Seq(Nat)
  <2> HIDE DEF few
  <2> QED BY <1>1, <1>2
<1>4. /\ known.listed = TRUE
      /\ known.fields \subseteq fields \cup process_info_fields
      /\ "gpu_usage" \in known.fields <=> "gpu_usage" \in fields
  BY DEF gpuinfo_populate_process_info, When, process_info_fields
<1> QED BY <1>3, <1>4

-----------------------------------------------------------------------------
(* Every step keeps the invariant                                          *)

LEMMA InvOfInit == Init => RefreshInv
<1> SUFFICES ASSUME Init PROVE RefreshInv
  OBVIOUS
<1> USE DEF Init
<1>1. FaultsAreContained
  <2>1. 0 \in 0 .. Cardinality(DeviceIds) /\ 0 \in 0 .. MaxRefreshes /\ 0 \in 0 .. MaxFaults
    BY DeviceIdsAssumption, FS_CardinalityType, BoundsAssumption
  <2>2. <<>> \in Seq(Nat)
    OBVIOUS
  <2>3. TypeOK
    BY <2>1, <2>2 DEF TypeOK, Phases, LibraryStates, NoRow, NoAmount
  <2> QED BY <2>3 DEF FaultsAreContained
<1>2. HaveInv /\ FreshInv /\ NoStaleReadings
  BY DEF HaveInv, FreshInv, NoStaleReadings
<1>3. DerivationInv
  BY MemoryAssumption DEF DerivationInv, DeviceRead, DerivedMemoryFits, NoAmount
<1>4. RateInv /\ ClientInv /\ SnapshotInv
  BY DEF RateInv, ClientInv, SnapshotInv, DeviceRead, UsageNeedsTwoReadings
<1> QED BY <1>1, <1>2, <1>3, <1>4 DEF RefreshInv

\* A vendor whose start fails is not left initialised; the number of devices is the
\* length of the list, but for panfrost.
LEMMA StartOfVendor ==
    ASSUME NEW v \in Drivers, NEW ok, NEW devices
    PROVE  LET start == InitVendor(v, ok, devices) IN
           /\ start.lib \in LibraryStates
           /\ start.listed \subseteq DeviceIds
           /\ start.count \in 0 .. Cardinality(DeviceIds)
           /\ start.count = 0 => start.lib # "ready"
           /\ start.count # 0 /\ start.count # Cardinality(start.listed) => v = "panfrost"
<1> DEFINE loaded == InitLibrary(v, ok)
           found  == GetDeviceHandles(v, loaded, DeviceIds, ok, devices)
           start  == InitVendor(v, ok, devices)
<1>1. loaded \in LibraryStates /\ ShutdownLibrary(v, loaded) \in LibraryStates \ {"ready"}
  BY LibraryOfVendor
<1>2. /\ found.listed \subseteq DeviceIds /\ found.count \in 0 .. Cardinality(DeviceIds)
      /\ v # "panfrost" => found.count = Cardinality(found.listed)
  BY HandlesOfVendor, DeviceIdsAssumption DEF GoodHandles, ExactHandles
<1>3. 0 \in 0 .. Cardinality(DeviceIds)
  BY DeviceIdsAssumption, FS_CardinalityType
<1>4. CASE loaded # "ready"
  <2>1. start = [lib |-> loaded, listed |-> {}, count |-> 0]
    BY <1>4 DEF InitVendor
  <2> HIDE DEF loaded, found, start
  <2> QED BY <1>1, <1>3, <1>4, <2>1 DEF start
<1>5. CASE loaded = "ready" /\ (~found.returned \/ found.count = 0)
  <2>1. start = [lib |-> ShutdownLibrary(v, loaded), listed |-> found.listed, count |-> 0]
    BY <1>5 DEF InitVendor
  <2> HIDE DEF loaded, found, start
  <2> QED BY <1>1, <1>2, <1>3, <2>1 DEF start
<1>6. CASE loaded = "ready" /\ found.returned /\ found.count # 0
  <2>1. start = [lib |-> loaded, listed |-> found.listed, count |-> found.count]
    BY <1>6 DEF InitVendor
  <2> HIDE DEF loaded, found, start
  <2> QED BY <1>1, <1>2, <1>6, <2>1 DEF start
<1> QED BY <1>4, <1>5, <1>6

LEMMA InitKeepsInv == RefreshInv /\ gpuinfo_init_info_extraction => RefreshInv'
<1> SUFFICES ASSUME RefreshInv, gpuinfo_init_info_extraction PROVE RefreshInv'
  OBVIOUS
<1> USE DEF gpuinfo_init_info_extraction, program, device, ghosts
<1>1. PICK ok \in Outcomes(Facts(vendor).init \cup Facts(vendor).options),
           devices \in Outcomes(HandleFacts(DeviceIds)) :
         \E traits \in SUBSET (Facts(vendor).traits \cup {"power_max_positive"}) :
            /\ lib' = InitVendor(vendor, ok, devices).lib
            /\ listed' = InitVendor(vendor, ok, devices).listed
            /\ count' = InitVendor(vendor, ok, devices).count
            /\ have' = (ok \cap Facts(vendor).options) \cup traits
            /\ Fault(<<ok, devices>>, <<Facts(vendor).init \cup Facts(vendor).options,
                                        HandleFacts(DeviceIds)>>)
  OBVIOUS
<1>2. TypeOK /\ vendor \in Drivers
  BY VendorsAssumption DEF RefreshInv, FaultsAreContained, TypeOK
<1>3. /\ lib' \in LibraryStates /\ listed' \subseteq DeviceIds
      /\ count' \in 0 .. Cardinality(DeviceIds)
      /\ count' = 0 => lib' # "ready"
      /\ count' # 0 /\ count' # Cardinality(listed') => vendor = "panfrost"
  BY <1>1, <1>2, StartOfVendor
<1>4. faults' \in 0 .. MaxFaults /\ (faults' = 0 => faults = 0)
  <2>1. ok # Facts(vendor).init \cup Facts(vendor).options => faults < MaxFaults
    BY <1>1 DEF Outcomes
  <2>2. devices # HandleFacts(DeviceIds) => faults < MaxFaults
    BY <1>1 DEF Outcomes
  <2> QED BY <1>1, <1>2, <2>1, <2>2, BoundsAssumption DEF Fault, TypeOK
<1>5. FaultsAreContained'
  <2>1. TypeOK'
    BY <1>2, <1>3, <1>4 DEF TypeOK, Phases
  <2> QED BY <1>3, <2>1 DEF FaultsAreContained
<1>6. HaveInv'
  BY <1>1 DEF HaveInv
<1>7. FreshInv' /\ NoStaleReadings'
  BY DEF RefreshInv, FreshInv, NoStaleReadings
<1>8. DerivationInv'
  BY DEF RefreshInv, DerivationInv, DeviceRead, DerivedMemoryFits
<1>9. RateInv'
  BY DEF RefreshInv, RateInv, DeviceRead
<1>10. ClientInv'
  BY DEF RefreshInv, ClientInv, UsageNeedsTwoReadings
<1>11. SnapshotInv'
  BY <1>4 DEF RefreshInv, SnapshotInv, DeviceRead
<1> QED BY <1>5, <1>6, <1>7, <1>8, <1>9, <1>10, <1>11 DEF RefreshInv

LEMMA StaticKeepsInv == RefreshInv /\ gpuinfo_populate_static_infos => RefreshInv'
<1> SUFFICES ASSUME RefreshInv, gpuinfo_populate_static_infos PROVE RefreshInv'
  OBVIOUS
<1> USE DEF gpuinfo_populate_static_infos, program, ghosts
<1>1. TypeOK /\ vendor \in Drivers
  BY VendorsAssumption DEF RefreshInv, FaultsAreContained, TypeOK
<1>2. PICK ok \in Outcomes(Facts(vendor).static) :
         static' = StaticInfo(vendor, ok \cup have) /\ Fault(ok, Facts(vendor).static)
  OBVIOUS
<1>3. static' \subseteq static_info_fields
  BY <1>1, <1>2, StaticOfVendor
<1>4. faults' \in 0 .. MaxFaults /\ (faults' = 0 => faults = 0)
  BY <1>1, <1>2, FaultCounted DEF TypeOK
<1>5. phase' \in {"dynamic", "aborted"} /\ (phase' = "aborted" => vendor = "panthor")
  BY DEF AssertsVersion
<1>6. FaultsAreContained'
  <2>1. TypeOK'
    BY <1>1, <1>3, <1>4, <1>5 DEF TypeOK, Phases
  <2> QED BY <1>5, <2>1 DEF RefreshInv, FaultsAreContained
<1>7. HaveInv'
  BY DEF RefreshInv, HaveInv
<1>8. FreshInv' /\ NoStaleReadings'
  BY <1>5 DEF RefreshInv, FreshInv, NoStaleReadings
<1>9. DerivationInv'
  BY <1>5 DEF RefreshInv, DerivationInv, DeviceRead, DerivedMemoryFits
<1>10. RateInv'
  BY <1>5 DEF RefreshInv, RateInv, DeviceRead
<1>11. ClientInv'
  BY <1>5 DEF RefreshInv, ClientInv, UsageNeedsTwoReadings
<1>12. SnapshotInv'
  BY <1>4, <1>5 DEF RefreshInv, SnapshotInv, DeviceRead
<1> QED BY <1>6, <1>7, <1>8, <1>9, <1>10, <1>11, <1>12 DEF RefreshInv

\* The driver reads the device.  Whatever it says, no bit of the refresh before is left
\* of a driver that clears them, and its rates have two readings.
LEMMA DynamicKeepsInv == RefreshInv /\ gpuinfo_refresh_dynamic_info => RefreshInv'
<1> SUFFICES ASSUME RefreshInv, gpuinfo_refresh_dynamic_info PROVE RefreshInv'
  OBVIOUS
<1>1. TypeOK /\ HaveInv /\ vendor \in Drivers /\ refreshes \in Nat /\ refreshes < MaxRefreshes
  BY VendorsAssumption, BoundsAssumption
     DEF RefreshInv, FaultsAreContained, TypeOK, gpuinfo_refresh_dynamic_info
<1>2. PICK ok \in Outcomes(Facts(vendor).dynamic) :
        LET reading == DynamicInfo(vendor, valid, sampled, ok \cup have)
            fields  == calculate_effective_load(reading.kept \cup reading.set)
        IN  /\ valid' = fields
            /\ mig' = IF "multi_instance_mode" \in reading.set THEN "mig_enabled" \in have ELSE mig
            /\ sampled' = sampled \cup DeviceSample(vendor, ok \cup have)
            /\ Fault(ok, Facts(vendor).dynamic)
            /\ reported' = reading.set
            /\ fresh' = reading.set \cup (fields \cap {"effective_load_rate"})
            /\ counted' = (counted \cap ClientCounters) \cup CountedOfDevice(ok)
            /\ countedBefore' = countedBefore \cup (counted \ ClientCounters)
  BY DEF gpuinfo_refresh_dynamic_info
<1> DEFINE reading == DynamicInfo(vendor, valid, sampled, ok \cup have)
           load    == calculate_effective_load(reading.kept \cup reading.set)
<1>3. /\ reading.set \subseteq DeviceFields /\ reading.kept \subseteq valid
      /\ vendor \notin KeepingVendors => reading.kept = {}
  BY <1>1, ReadingOfVendor
<1>4. /\ "effective_load_rate" \in load <=>
            /\ {"gpu_util_rate", "power_draw", "power_draw_max"} \subseteq load
            /\ "power_max_positive" \in have
      /\ \A f : f # "effective_load_rate" => (f \in load <=> f \in reading.kept \cup reading.set)
  BY EffectiveLoad
<1>5. \A f \in DOMAIN DeviceRates(vendor) :
         /\ f \in reading.set <=> f \in CountedOfDevice(ok) /\ Sample(f) \in sampled
         /\ Sample(f) \in DeviceSample(vendor, ok \cup have) <=> f \in CountedOfDevice(ok)
         /\ reading.kept = {}
         /\ f \notin ClientCounters /\ f # "effective_load_rate"
         /\ ok = Facts(vendor).dynamic => f \in CountedOfDevice(ok)
  <2> SUFFICES ASSUME NEW f \in DOMAIN DeviceRates(vendor)
               PROVE  /\ f \in reading.set <=> f \in CountedOfDevice(ok) /\ Sample(f) \in sampled
                      /\ Sample(f) \in DeviceSample(vendor, ok \cup have) <=> f \in CountedOfDevice(ok)
                      /\ reading.kept = {}
                      /\ f \notin ClientCounters /\ f # "effective_load_rate"
                      /\ ok = Facts(vendor).dynamic => f \in CountedOfDevice(ok)
    OBVIOUS
  <2>1. /\ f \in reading.set <=> DeviceRates(vendor)[f] \subseteq ok \cup have /\ Sample(f) \in sampled
        /\ Sample(f) \in DeviceSample(vendor, ok \cup have) <=> DeviceRates(vendor)[f] \subseteq ok \cup have
        /\ reading.kept = {} /\ f \notin ClientCounters /\ f \in DeviceFields
    <3> DEFINE facts == ok \cup have
    <3>1. reading = DynamicInfo(vendor, valid, sampled, facts)
      OBVIOUS
    <3> HIDE DEF reading, facts
    <3>2. LET r == DynamicInfo(vendor, valid, sampled, facts) IN
          /\ f \in r.set <=> DeviceRates(vendor)[f] \subseteq facts /\ Sample(f) \in sampled
          /\ Sample(f) \in DeviceSample(vendor, facts) <=> DeviceRates(vendor)[f] \subseteq facts
          /\ r.kept = {}
          /\ f \notin ClientCounters /\ f \in DeviceFields \ {"gpu_util_rate"}
      BY <1>1, ReadingOfRates, ZenonT(60)
    <3> QED BY <3>1, <3>2 DEF facts
  <2>2. /\ DeviceRates(vendor)[f] \subseteq ok \cup have <=> DeviceRates(vendor)[f] \subseteq ok
        /\ DeviceRates(vendor)[f] \subseteq Facts(vendor).dynamic
    BY <1>1, CountersAreRead DEF HaveInv
  <2>3. f \in CountedOfDevice(ok) <=> DeviceRates(vendor)[f] \subseteq ok
    BY DEF CountedOfDevice
  <2> HIDE DEF reading
  <2> QED BY <2>1, <2>2, <2>3 DEF DeviceFields
<1>6. /\ valid' = load /\ sampled' = sampled \cup DeviceSample(vendor, ok \cup have)
      /\ reported' = reading.set /\ fresh' = reading.set \cup (load \cap {"effective_load_rate"})
      /\ counted' = (counted \cap ClientCounters) \cup CountedOfDevice(ok)
      /\ countedBefore' = countedBefore \cup (counted \ ClientCounters)
  BY <1>2
<1>7. ok \subseteq Facts(vendor).dynamic /\ faults' \in 0 .. MaxFaults
      /\ (faults' = 0 => faults = 0 /\ ok = Facts(vendor).dynamic)
  BY <1>1, <1>2, FaultCounted DEF TypeOK
<1>8. /\ phase \in {"dynamic", "shown"} /\ phase' = "processes" /\ refreshes' = refreshes + 1
      /\ shown' = {} /\ UNCHANGED <<program, static, last, row, amount>>
  BY DEF gpuinfo_refresh_dynamic_info
<1> HIDE DEF reading, load
<1> USE DEF program
<1>9. FaultsAreContained'
  <2>1. load \subseteq dynamic_info_fields /\ reading.set \subseteq dynamic_info_fields
    BY <1>1, <1>3, <1>4 DEF TypeOK, DeviceFields, dynamic_info_fields
  <2>2. fresh' \subseteq dynamic_info_fields
    BY <1>6, <2>1
  <2>3. refreshes' \in 0 .. MaxRefreshes
    BY <1>1, <1>8, BoundsAssumption
  <2>4. TypeOK'
    BY <1>1, <1>6, <1>7, <1>8, <2>1, <2>2, <2>3 DEF TypeOK, Phases
  <2> QED BY <1>8, <2>4 DEF FaultsAreContained
<1>10. HaveInv'
  BY <1>8 DEF RefreshInv, HaveInv
<1>11. FreshInv' /\ NoStaleReadings'
  <2>1. vendor \notin KeepingVendors => load \subseteq reading.set \cup (load \cap {"effective_load_rate"})
    BY <1>3, <1>4
  <2> QED BY <1>6, <1>8, <2>1 DEF FreshInv, NoStaleReadings
<1>12. DerivationInv'
  <2>1. "effective_load_rate" \notin reading.set
    BY <1>3 DEF DeviceFields
  <2>2. reading.set \subseteq load
    BY <1>4, <2>1
  <2>3. EffectiveLoadCoherent'
    BY <1>4, <1>6, <1>8 DEF EffectiveLoadCoherent
  <2>4. DerivedMemoryFits'
    BY <1>8 DEF RefreshInv, DerivationInv, DerivedMemoryFits
  <2> QED BY <1>6, <2>1, <2>2, <2>3, <2>4 DEF DerivationInv
<1>13. RateInv'
  <2> SUFFICES ASSUME NEW f \in DOMAIN DeviceRates(vendor)
               PROVE  /\ Sample(f) \in sampled' <=> f \in counted' \cup countedBefore'
                      /\ f \in valid' <=> f \in counted' \cap countedBefore'
    BY <1>8 DEF RateInv
  <2>1. Sample(f) \in sampled <=> f \in counted \cup countedBefore
    BY DEF RefreshInv, RateInv
  <2>2. /\ f \in counted' <=> f \in CountedOfDevice(ok)
        /\ f \in countedBefore' <=> f \in counted \cup countedBefore
    BY <1>5, <1>6
  <2>3. f \in valid' <=> f \in CountedOfDevice(ok) /\ Sample(f) \in sampled
    BY <1>4, <1>5, <1>6
  <2> QED BY <1>5, <1>6, <2>1, <2>2, <2>3
<1>14. ClientInv'
  <2>1. UsageSources \subseteq ClientCounters
    BY DEF UsageSources, ClientCounters, EngineFields
  <2>2. vendor \in FdinfoVendors => last \cap UsageSources \subseteq counted
    BY DEF RefreshInv, ClientInv
  <2>3. vendor' = vendor /\ last' = last
    BY <1>8
  <2> QED BY <1>6, <1>8, <2>1, <2>2, <2>3 DEF ClientInv, UsageNeedsTwoReadings
<1>15. SnapshotInv'
  <2>1. /\ refreshes' # 0 /\ refreshes' \in Nat
        /\ refreshes' >= 2 => refreshes >= 1
    BY <1>1, <1>8
  <2>2. ASSUME mode = "snapshot", faults' = 0
        PROVE  DOMAIN DeviceRates(vendor) \subseteq counted' \cup countedBefore'
    BY <1>5, <1>6, <1>7, <2>2
  <2>3. ASSUME mode = "snapshot", faults' = 0, refreshes' >= 2
        PROVE  DOMAIN DeviceRates(vendor) \subseteq valid'
    <3> SUFFICES ASSUME NEW f \in DOMAIN DeviceRates(vendor) PROVE f \in valid'
      OBVIOUS
    <3>1. f \in counted \cup countedBefore
      BY <1>7, <2>1, <2>3 DEF RefreshInv, SnapshotInv
    <3>2. Sample(f) \in sampled
      BY <3>1 DEF RefreshInv, RateInv
    <3> QED BY <1>4, <1>5, <1>6, <1>7, <2>3, <3>2
  <2>4. ASSUME mode = "snapshot", faults' = 0, refreshes' >= 2,
               vendor \in FdinfoVendors, "old_keys" \notin have
        PROVE  ReadOfClient(vendor) \subseteq last
    <3>1. refreshes >= 2 \/ (refreshes = 1 /\ phase = "dynamic")
      BY <1>1, <1>8, <2>1, <2>4 DEF RefreshInv, SnapshotInv
    <3> QED BY <1>7, <2>4, <3>1 DEF RefreshInv, SnapshotInv
  <2> QED BY <1>8, <2>1, <2>2, <2>3, <2>4 DEF SnapshotInv
<1> QED BY <1>9, <1>10, <1>11, <1>12, <1>13, <1>14, <1>15 DEF RefreshInv

\* The driver reads the processes.  A usage has the counters of this reading and of the
\* one before, from the cache.
LEMMA ProcessesKeepInv == RefreshInv /\ gpuinfo_refresh_processes => RefreshInv'
<1> SUFFICES ASSUME RefreshInv, gpuinfo_refresh_processes PROVE RefreshInv'
  OBVIOUS
<1>1. TypeOK /\ HaveInv /\ vendor \in Drivers
  BY VendorsAssumption DEF RefreshInv, FaultsAreContained, TypeOK
<1>2. PICK ok \in Outcomes(ProcessFacts), memory \in MemoryDemands :
        LET known  == ok \cup have
            rows   == RunningProcesses(vendor, valid, mig, last, known)
            demand == IF "gpu_memory_usage" \in rows.fields THEN memory ELSE <<>>
            clean  == gpuinfo_populate_process_info(rows.fields, demand, ok)
            mali   == When(vendor \in MaliDrivers, mali_fdinfo_dynamic(known))
        IN  \E garbage \in
                   CASE rows.leftover = "none"     -> {{}}
                     [] rows.leftover = "previous" -> {row.fields}
                     [] rows.leftover = "anything" -> {{}, process_info_fields} :
              /\ row' = IF ~rows.listed THEN NoRow
                        ELSE gpuinfo_populate_process_info(rows.fields \cup garbage, demand, ok)
              /\ phase' = IF rows.exits THEN "aborted" ELSE "utilisation"
              /\ last' = When(/\ vendor \in FdinfoVendors /\ rows.listed /\ "client_id" \in ok,
                              CacheEntry(rows.fields))
              /\ valid' = valid \cup mali
              /\ static' = static \cup When(vendor \in MaliDrivers, mali_fdinfo_static(known))
              /\ Fault(ok, ProcessFacts)
              /\ fresh' = fresh \cup mali \cup When(rows.listed, clean.fields)
              /\ counted' = (counted \ ClientCounters) \cup CountedOfClient(ok)
              /\ countedBefore' = (countedBefore \ ClientCounters)
                                  \cup (counted \cap ClientCounters)
  BY DEF gpuinfo_refresh_processes
<1> DEFINE known  == ok \cup have
           rows   == RunningProcesses(vendor, valid, mig, last, known)
           demand == IF "gpu_memory_usage" \in rows.fields THEN memory ELSE <<>>
           mali   == When(vendor \in MaliDrivers, mali_fdinfo_dynamic(known))
           kinds  == CASE rows.leftover = "none"     -> {{}}
                       [] rows.leftover = "previous" -> {row.fields}
                       [] rows.leftover = "anything" -> {{}, process_info_fields}
           filled(old) == gpuinfo_populate_process_info(rows.fields \cup old, demand, ok)
<1>3. PICK garbage \in kinds : row' = IF ~rows.listed THEN NoRow ELSE filled(garbage)
  BY <1>2
<1>4. /\ rows.fields \subseteq process_info_fields
      /\ rows.leftover \in {"none", "previous", "anything"}
      /\ vendor \notin KeepingVendors => rows.leftover = "none"
      /\ rows.exits \in BOOLEAN /\ (rows.exits => vendor = "metax")
  BY <1>1, RowsOfVendor
<1>5. /\ garbage \subseteq process_info_fields
      /\ vendor \notin KeepingVendors => garbage = {}
  <2> HIDE DEF rows
  <2> QED BY <1>1, <1>3, <1>4 DEF TypeOK
<1>6. demand \in Seq(Nat)
  <2> HIDE DEF rows
  <2> QED BY MemoryAssumption
<1>7. /\ filled(garbage).listed = TRUE /\ filled(garbage).memory \in Seq(Nat)
      /\ filled(garbage).fields \subseteq process_info_fields
      /\ "gpu_usage" \in filled(garbage).fields <=> "gpu_usage" \in rows.fields \cup garbage
  <2> HIDE DEF rows, demand
  <2>1. LET p == gpuinfo_populate_process_info(rows.fields \cup garbage, demand, ok) IN
        /\ p.listed = TRUE /\ p.memory \in Seq(Nat)
        /\ p.fields \subseteq (rows.fields \cup garbage) \cup process_info_fields
        /\ "gpu_usage" \in p.fields <=> "gpu_usage" \in rows.fields \cup garbage
    BY <1>6, KnownAmounts, Zenon
  <2> QED BY <1>4, <1>5, <2>1
<1>8. /\ phase' = IF rows.exits THEN "aborted" ELSE "utilisation"
      /\ last' = When(/\ vendor \in FdinfoVendors /\ rows.listed /\ "client_id" \in ok,
                      CacheEntry(rows.fields))
      /\ valid' = valid \cup mali
      /\ static' = static \cup When(vendor \in MaliDrivers, mali_fdinfo_static(known))
      /\ fresh' = fresh \cup mali \cup When(rows.listed, filled({}).fields)
      /\ counted' = (counted \ ClientCounters) \cup CountedOfClient(ok)
      /\ countedBefore' = (countedBefore \ ClientCounters) \cup (counted \cap ClientCounters)
  <2>1. rows.fields \cup {} = rows.fields
    OBVIOUS
  <2> QED BY <1>2, <2>1
<1>9. /\ ok \subseteq ProcessFacts /\ faults' \in 0 .. MaxFaults
      /\ faults' = 0 => faults = 0 /\ ok = ProcessFacts
  BY <1>1, <1>2, FaultCounted DEF TypeOK
<1>10. /\ phase = "processes"
       /\ UNCHANGED <<vendor, mode, lib, have, listed, count, dev, mig, sampled, amount,
                      refreshes, reported, shown>>
  BY DEF gpuinfo_refresh_processes, program
<1>11. mali \subseteq {"gpu_clock_speed", "gpu_clock_speed_max"}
  BY DEF mali_fdinfo_dynamic, When
<1>12. vendor \in FdinfoVendors =>
         /\ OffersWhatWasRead(vendor, rows, ok)
         /\ "old_keys" \notin have => GoodUsage(vendor, rows, last, ok)
  <2> SUFFICES ASSUME vendor \in FdinfoVendors
               PROVE  /\ OffersWhatWasRead(vendor, rows, ok)
                      /\ "old_keys" \notin have => GoodUsage(vendor, rows, last, ok)
    OBVIOUS
  <2> HIDE DEF rows
  <2>1. LET r == RunningProcesses(vendor, valid, mig, last, ok \cup have) IN
        /\ OffersWhatWasRead(vendor, r, ok)
        /\ "old_keys" \notin have => GoodUsage(vendor, r, last, ok)
    <3>1. ok \in SUBSET (Facts(vendor).process \cup SystemFacts)
      BY <1>9 DEF ProcessFacts
    <3>2. have \subseteq Facts(vendor).options \cup Facts(vendor).traits \cup {"power_max_positive"}
      BY <1>1 DEF HaveInv
    <3> QED BY <3>1, <3>2, UsageOfClient, Zenon
  <2> QED BY <2>1 DEF rows
<1>13. filled({}).fields \subseteq process_info_fields
  <2> HIDE DEF rows, demand
  <2>1. gpuinfo_populate_process_info(rows.fields \cup {}, demand, ok).fields
           \subseteq (rows.fields \cup {}) \cup process_info_fields
    BY <1>6, KnownAmounts, Zenon
  <2> QED BY <1>4, <2>1
<1> HIDE DEF known, rows, demand, mali, kinds, filled
<1>14. FaultsAreContained'
  <2>1. phase' \in {"aborted", "utilisation"} /\ (phase' = "aborted" => vendor = "metax")
    BY <1>4, <1>8
  <2>2. row'.fields \subseteq process_info_fields /\ row'.memory \in Seq(Nat)
    <3>1. CASE rows.listed
      BY <1>3, <1>7, <3>1
    <3>2. CASE ~rows.listed
      BY <1>3, <3>2 DEF NoRow
    <3> QED BY <3>1, <3>2
  <2>3. valid' \subseteq dynamic_info_fields
    BY <1>1, <1>8, <1>11 DEF TypeOK, dynamic_info_fields
  <2>4. fresh' \subseteq dynamic_info_fields \cup process_info_fields
    BY <1>1, <1>8, <1>11, <1>13 DEF TypeOK, When, dynamic_info_fields
  <2>5. static' \subseteq static_info_fields
    BY <1>1, <1>8 DEF TypeOK, When, mali_fdinfo_static, static_info_fields
  <2>6. TypeOK'
    BY <1>1, <1>9, <1>10, <2>1, <2>2, <2>3, <2>4, <2>5 DEF TypeOK, Phases
  <2> QED BY <1>10, <2>1, <2>6 DEF FaultsAreContained
<1>15. HaveInv'
  BY <1>10 DEF RefreshInv, HaveInv
<1>16. FreshInv' /\ NoStaleReadings'
  <2>1. vendor \notin KeepingVendors => valid' \subseteq fresh'
    BY <1>8 DEF RefreshInv, FreshInv
  <2>2. vendor \notin KeepingVendors => row'.fields \subseteq fresh'
    <3> SUFFICES ASSUME vendor \notin KeepingVendors PROVE row'.fields \subseteq fresh'
      OBVIOUS
    <3>1. CASE rows.listed
      BY <1>3, <1>5, <1>8, <3>1 DEF When
    <3>2. CASE ~rows.listed
      BY <1>3, <3>2 DEF NoRow
    <3> QED BY <3>1, <3>2
  <2>3. phase' # "shown"
    BY <1>4, <1>8
  <2> QED BY <1>10, <2>1, <2>2, <2>3 DEF FreshInv, NoStaleReadings
<1>17. DerivationInv'
  <2>1. phase' \notin {"processes", "show", "shown"}
    BY <1>4, <1>8
  <2>2. DerivedMemoryFits'
    BY <1>10 DEF RefreshInv, DerivationInv, DerivedMemoryFits
  <2>3. reported' \subseteq valid' /\ "effective_load_rate" \notin reported'
    BY <1>8, <1>10 DEF RefreshInv, DerivationInv, DeviceRead
  <2> QED BY <2>1, <2>2, <2>3 DEF DerivationInv
<1>18. \A f \in DOMAIN DeviceRates(vendor) : f \notin ClientCounters /\ f \notin mali
  BY <1>1, <1>11, ReadingOfRates, CountersAreRead
<1>19. CountedOfClient(ok) \subseteq ClientCounters
  BY DEF CountedOfClient, ClientCounters, When
<1>20. RateInv'
  <2> SUFFICES ASSUME NEW f \in DOMAIN DeviceRates(vendor)
               PROVE  /\ Sample(f) \in sampled' <=> f \in counted' \cup countedBefore'
                      /\ f \in valid' <=> f \in counted' \cap countedBefore'
    BY <1>10 DEF RateInv
  <2>1. /\ Sample(f) \in sampled <=> f \in counted \cup countedBefore
        /\ f \in valid <=> f \in counted \cap countedBefore
    BY <1>10 DEF RefreshInv, RateInv, DeviceRead
  <2> QED BY <1>8, <1>10, <1>18, <1>19, <2>1
<1>21. Identified(vendor, ok) => counted' \cap ClientCounters = {"client"} \cup (ok \cap EngineFields)
  BY <1>8 DEF Identified, CountedOfClient, ClientCounters, When
<1>22. ClientInv'
  <2>1. ASSUME vendor \in FdinfoVendors
        PROVE  last' \cap UsageSources \subseteq counted'
    <3> SUFFICES ASSUME rows.listed, "client_id" \in ok
                 PROVE  CacheEntry(rows.fields) \cap UsageSources \subseteq counted'
      BY <1>8 DEF When
    <3>1. Identified(vendor, ok) /\ rows.fields \cap {"gfx_engine_used", "compute_engine_used"} \subseteq ok
      BY <1>12, <2>1 DEF OffersWhatWasRead
    <3> QED BY <1>21, <3>1 DEF CacheEntry, UsageSources, EngineFields
  <2>2. ASSUME vendor \in FdinfoVendors, "old_keys" \notin have, "gpu_usage" \in row'.fields
        PROVE  UsageCounters(vendor) \cap counted' \cap countedBefore' # {}
    <3>1. vendor \notin KeepingVendors
      BY <2>2 DEF FdinfoVendors, KeepingVendors, IntelDrivers, MaliDrivers
    <3>2. rows.listed
      BY <1>3, <2>2 DEF NoRow
    <3>3. "gpu_usage" \in rows.fields
      BY <1>3, <1>5, <1>7, <2>2, <3>1, <3>2
    <3>4. PICK u \in UsageCounters(vendor) : u \in last /\ (u = "client" \/ u \in ok)
      BY <1>12, <2>2, <3>3 DEF GoodUsage, UsageIsDifference
    <3>5. Identified(vendor, ok)
      BY <1>12, <2>2, <3>3 DEF GoodUsage, UsageIsDifference
    <3>6. u \in UsageSources /\ u \in {"client"} \cup EngineFields
      BY DEF UsageCounters, UsageSources, EngineFields
    <3>7. u \in counted'
      BY <1>21, <3>4, <3>5, <3>6
    <3>8. u \in counted /\ u \in ClientCounters
      BY <2>2, <3>4, <3>6 DEF RefreshInv, ClientInv, ClientCounters
    <3> QED BY <1>8, <3>7, <3>8
  <2> QED BY <1>10, <2>1, <2>2 DEF ClientInv, UsageNeedsTwoReadings
<1>23. SnapshotInv'
  <2>1. phase' \in {"aborted", "utilisation"} /\ refreshes' = refreshes /\ refreshes >= 1
    BY <1>4, <1>8, <1>10 DEF RefreshInv, SnapshotInv, DeviceRead
  <2>2. ASSUME mode = "snapshot", faults' = 0
        PROVE  DOMAIN DeviceRates(vendor) \subseteq counted' \cup countedBefore'
    BY <1>8, <1>9, <1>18, <2>1, <2>2 DEF RefreshInv, SnapshotInv
  <2>3. ASSUME mode = "snapshot", faults' = 0, refreshes >= 2
        PROVE  DOMAIN DeviceRates(vendor) \subseteq valid'
    BY <1>8, <1>9, <1>10, <2>3 DEF RefreshInv, SnapshotInv, DeviceRead
  <2>4. ASSUME mode = "snapshot", faults' = 0, vendor \in FdinfoVendors, "old_keys" \notin have
        PROVE  /\ ReadOfClient(vendor) \subseteq last'
               /\ refreshes >= 2 => "gpu_usage" \in row'.fields
    <3>1. CompleteRow(vendor, rows, last, ok) /\ ok = Facts(vendor).process \cup SystemFacts
      BY <1>9, <1>12, <2>4 DEF GoodUsage, ProcessFacts
    <3>2. rows.listed /\ "client_id" \in ok /\ ReadOfClient(vendor) \subseteq CacheEntry(rows.fields)
      BY <3>1 DEF CompleteRow
    <3>3. ReadOfClient(vendor) \subseteq last'
      BY <1>8, <2>4, <3>2 DEF When
    <3>4. refreshes >= 2 => ReadOfClient(vendor) \subseteq last
      BY <1>9, <1>10, <2>4 DEF RefreshInv, SnapshotInv
    <3>5. refreshes >= 2 => "gpu_usage" \in rows.fields
      BY <3>1, <3>4 DEF CompleteRow
    <3> QED BY <1>3, <1>7, <3>2, <3>3, <3>5
  <2> QED BY <1>10, <2>1, <2>2, <2>3, <2>4 DEF SnapshotInv
<1> QED BY <1>14, <1>15, <1>16, <1>17, <1>20, <1>22, <1>23 DEF RefreshInv

\* Mali's rate, from the processes; the first refresh of a snapshot ends here.
LEMMA UtilisationKeepsInv == RefreshInv /\ gpuinfo_utilisation_rate => RefreshInv'
<1> SUFFICES ASSUME RefreshInv, gpuinfo_utilisation_rate PROVE RefreshInv'
  OBVIOUS
<1>1. TypeOK /\ vendor \in Drivers /\ refreshes \in Nat
  BY VendorsAssumption, BoundsAssumption DEF RefreshInv, FaultsAreContained, TypeOK
<1>2. PICK rate \in SUBSET {"gpu_util_rate"} : valid' = valid \cup rate /\ fresh' = fresh \cup rate
  BY DEF gpuinfo_utilisation_rate, gpuinfo_refresh_utilisation_rate, When
<1>3. /\ phase = "utilisation" /\ phase' \in {"fix", "dynamic"}
      /\ mode = "snapshot" /\ phase' = "fix" => refreshes > 1
      /\ UNCHANGED <<program, static, mig, sampled, last, row, amount, refreshes, faults,
                     reported, counted, countedBefore, shown>>
  BY DEF gpuinfo_utilisation_rate, AfterUtilisation
<1> USE DEF program
<1>4. FaultsAreContained'
  <2>1. valid' \subseteq dynamic_info_fields /\ fresh' \subseteq dynamic_info_fields \cup process_info_fields
    BY <1>1, <1>2 DEF TypeOK, dynamic_info_fields
  <2>2. TypeOK'
    BY <1>1, <1>3, <2>1 DEF TypeOK, Phases
  <2> QED BY <1>3, <2>2 DEF FaultsAreContained
<1>5. HaveInv'
  BY <1>3 DEF RefreshInv, HaveInv
<1>6. FreshInv' /\ NoStaleReadings'
  BY <1>2, <1>3 DEF RefreshInv, FreshInv, NoStaleReadings
<1>7. DerivationInv'
  <2>1. DerivedMemoryFits'
    BY <1>3 DEF RefreshInv, DerivationInv, DerivedMemoryFits
  <2> QED BY <1>2, <1>3, <2>1 DEF RefreshInv, DerivationInv, DeviceRead
<1>8. RateInv'
  <2>1. \A f \in DOMAIN DeviceRates(vendor) : f \notin rate
    BY <1>1, CountersAreRead
  <2> QED BY <1>2, <1>3, <2>1 DEF RefreshInv, RateInv, DeviceRead
<1>9. ClientInv'
  BY <1>3 DEF RefreshInv, ClientInv, UsageNeedsTwoReadings
<1>10. SnapshotInv'
  <2>1. refreshes >= 1 /\ refreshes' = refreshes
    BY <1>3 DEF RefreshInv, SnapshotInv, DeviceRead
  <2>2. ASSUME mode = "snapshot", faults = 0
        PROVE  /\ DOMAIN DeviceRates(vendor) \subseteq counted \cup countedBefore
               /\ refreshes >= 2 => DOMAIN DeviceRates(vendor) \subseteq valid'
    BY <1>2, <1>3, <2>1, <2>2 DEF RefreshInv, SnapshotInv, DeviceRead
  <2>3. ASSUME mode = "snapshot", faults = 0, vendor \in FdinfoVendors, "old_keys" \notin have
        PROVE  /\ ReadOfClient(vendor) \subseteq last
               /\ refreshes >= 2 => "gpu_usage" \in row.fields
    BY <1>1, <1>3, <2>1, <2>3 DEF RefreshInv, SnapshotInv
  <2> QED BY <1>1, <1>3, <2>1, <2>2, <2>3 DEF SnapshotInv
<1> QED BY <1>4, <1>5, <1>6, <1>7, <1>8, <1>9, <1>10 DEF RefreshInv

\* What was not told is derived: the rate of the GPU is reset and put back, nothing
\* that was read is lost, and memory is used only as far as there is any.
LEMMA FixKeepsInv == RefreshInv /\ gpuinfo_fix_dynamic_info_from_process_info => RefreshInv'
<1> SUFFICES ASSUME RefreshInv, gpuinfo_fix_dynamic_info_from_process_info PROVE RefreshInv'
  OBVIOUS
<1>1. TypeOK /\ vendor \in Drivers /\ refreshes \in Nat
  BY VendorsAssumption, BoundsAssumption DEF RefreshInv, FaultsAreContained, TypeOK
<1> DEFINE used    == MemoryOfProcesses
           derived == (FixedCodecRates \cup FixedMemory(used)) \ valid
           rate    == FixedGpuRate("gpu_util_rate" \in valid)
           fixed   == (valid \ {"gpu_util_rate"}) \cup rate \cup derived
           load    == calculate_effective_load(fixed)
<1>2. /\ valid' = load
      /\ fresh' = fresh \cup derived \cup FixedGpuRate(FALSE) \cup (valid' \cap {"effective_load_rate"})
      /\ amount' = IF "used_memory" \notin derived THEN NoAmount
                   ELSE [used |-> used, free |-> TotalMemory - used]
  BY DEF gpuinfo_fix_dynamic_info_from_process_info, FixedLoad
<1>3. /\ phase = "fix" /\ phase' = "show"
      /\ UNCHANGED <<program, static, mig, sampled, last, row, refreshes, faults,
                     reported, counted, countedBefore, shown>>
  BY DEF gpuinfo_fix_dynamic_info_from_process_info
<1>4. used \in Nat
  BY <1>1, SumIsNumber DEF TypeOK
<1>5. derived \subseteq {"encoder_rate", "decoder_rate", "used_memory", "free_memory"}
  BY DEF FixedCodecRates, FixedMemory, When
<1>6. "used_memory" \in derived => used <= TotalMemory
  BY DEF FixedCodecRates, FixedMemory, When
<1>7. /\ rate \subseteq {"gpu_util_rate"} /\ FixedGpuRate(FALSE) \subseteq {"gpu_util_rate"}
      /\ "gpu_util_rate" \in valid => "gpu_util_rate" \in rate
      /\ rate \subseteq FixedGpuRate(FALSE) \cup valid
  BY DEF FixedGpuRate, When
<1>8. /\ "effective_load_rate" \in load <=>
            /\ {"gpu_util_rate", "power_draw", "power_draw_max"} \subseteq load
            /\ "power_max_positive" \in have
      /\ \A f : f # "effective_load_rate" => (f \in load <=> f \in fixed)
  BY EffectiveLoad
<1>9. /\ valid \ {"effective_load_rate"} \subseteq load
      /\ load \subseteq valid \cup derived \cup rate \cup {"effective_load_rate"}
  <2> HIDE DEF derived, rate, load
  <2> QED BY <1>7, <1>8
<1> HIDE DEF used, derived, rate, fixed, load
<1> USE DEF program
<1>10. FaultsAreContained'
  <2>1. load \subseteq dynamic_info_fields
    BY <1>1, <1>5, <1>7, <1>9 DEF TypeOK, dynamic_info_fields
  <2>2. fresh' \subseteq dynamic_info_fields \cup process_info_fields
    BY <1>1, <1>2, <1>5, <1>7, <2>1 DEF TypeOK, dynamic_info_fields
  <2>3. amount'.used \in Nat /\ amount'.free \in Int
    BY <1>2, <1>4, MemoryAssumption DEF NoAmount
  <2>4. TypeOK'
    BY <1>1, <1>2, <1>3, <2>1, <2>2, <2>3 DEF TypeOK, Phases
  <2> QED BY <1>3, <2>4 DEF FaultsAreContained
<1>11. HaveInv'
  BY <1>3 DEF RefreshInv, HaveInv
<1>12. FreshInv' /\ NoStaleReadings'
  <2>1. vendor \notin KeepingVendors => load \subseteq fresh'
    BY <1>2, <1>7, <1>9 DEF RefreshInv, FreshInv
  <2>2. (vendor \notin KeepingVendors /\ mode = "snapshot") => row.fields \subseteq fresh'
    BY <1>2, <1>3 DEF RefreshInv, FreshInv
  <2> QED BY <1>2, <1>3, <2>1, <2>2 DEF FreshInv, NoStaleReadings
<1>13. DerivationInv'
  <2>1. reported' \subseteq valid' /\ "effective_load_rate" \notin reported'
    BY <1>2, <1>3, <1>9 DEF RefreshInv, DerivationInv, DeviceRead
  <2>2. EffectiveLoadCoherent'
    BY <1>2, <1>3, <1>8 DEF EffectiveLoadCoherent
  <2>3. DerivedMemoryFits'
    BY <1>2, <1>4, <1>6, MemoryAssumption DEF DerivedMemoryFits, NoAmount
  <2> QED BY <2>1, <2>2, <2>3 DEF DerivationInv
<1>14. RateInv'
  <2> SUFFICES ASSUME NEW f \in DOMAIN DeviceRates(vendor)
               PROVE  /\ Sample(f) \in sampled' <=> f \in counted' \cup countedBefore'
                      /\ f \in valid' <=> f \in counted' \cap countedBefore'
    BY <1>3 DEF RateInv
  <2>1. f \in {"power_draw", "pcie_rx", "pcie_tx"}
    BY <1>1, CountersAreRead
  <2>2. f \in valid' <=> f \in valid
    BY <1>2, <1>5, <1>7, <1>9, <2>1
  <2> QED BY <1>3, <2>2 DEF RefreshInv, RateInv, DeviceRead
<1>15. ClientInv'
  BY <1>3 DEF RefreshInv, ClientInv, UsageNeedsTwoReadings
<1>16. SnapshotInv'
  <2>1. DOMAIN DeviceRates(vendor) \subseteq valid => DOMAIN DeviceRates(vendor) \subseteq valid'
    <3> SUFFICES ASSUME NEW f \in DOMAIN DeviceRates(vendor), f \in valid PROVE f \in valid'
      OBVIOUS
    <3>1. f \in {"power_draw", "pcie_rx", "pcie_tx"}
      BY <1>1, CountersAreRead
    <3> QED BY <1>2, <1>9, <3>1
  <2> QED BY <1>3, <2>1 DEF RefreshInv, SnapshotInv, DeviceRead
<1> QED BY <1>10, <1>11, <1>12, <1>13, <1>14, <1>15, <1>16 DEF RefreshInv

\* In a menu the processes are left as they are.
LEMMA FreezeKeepsInv == RefreshInv /\ interface_freeze_processes => RefreshInv'
<1> SUFFICES ASSUME RefreshInv, interface_freeze_processes PROVE RefreshInv'
  OBVIOUS
<1> USE DEF interface_freeze_processes, program, device, ghosts
<1>1. FaultsAreContained' /\ HaveInv'
  BY DEF RefreshInv, FaultsAreContained, TypeOK, Phases, HaveInv
<1>2. FreshInv' /\ NoStaleReadings'
  BY DEF RefreshInv, FreshInv, NoStaleReadings
<1>3. DerivationInv'
  BY DEF RefreshInv, DerivationInv, DeviceRead, EffectiveLoadCoherent, DerivedMemoryFits
<1>4. RateInv' /\ ClientInv'
  BY DEF RefreshInv, RateInv, ClientInv, UsageNeedsTwoReadings, DeviceRead
<1>5. SnapshotInv'
  BY DEF RefreshInv, SnapshotInv, DeviceRead
<1> QED BY <1>1, <1>2, <1>3, <1>4, <1>5 DEF RefreshInv

\* What is shown has its bit, of the device or, in a snapshot, of a process.
LEMMA ShowKeepsInv ==
    RefreshInv /\ (draw_devices \/ print_snapshot) => RefreshInv'
<1> SUFFICES ASSUME RefreshInv, draw_devices \/ print_snapshot PROVE RefreshInv'
  OBVIOUS
<1>1. TypeOK
  BY DEF RefreshInv, FaultsAreContained
<1>2. /\ phase = "show" /\ phase' = "shown"
      /\ UNCHANGED <<vendor, mode, lib, have, listed, count, dev, static, valid, mig, sampled, last,
                     row, amount, refreshes, faults, fresh, reported, counted, countedBefore>>
  BY DEF draw_devices, print_snapshot, program, device
<1>3. \/ shown' \subseteq valid
      \/ mode = "snapshot" /\ shown' \subseteq valid \cup row.fields
  <2>1. CASE draw_devices
    BY <2>1 DEF draw_devices, draw_rates, draw_sensors, draw_pcie, Both, When
  <2>2. CASE print_snapshot
    <3>1. print_device \subseteq valid /\ print_processes \subseteq row.fields
      BY DEF print_device, print_processes, codec
    <3> QED BY <2>2, <3>1 DEF print_snapshot, When
  <2> QED BY <2>1, <2>2
<1>4. FaultsAreContained' /\ HaveInv'
  <2>1. shown' \subseteq dynamic_info_fields \cup process_info_fields
    BY <1>1, <1>3 DEF TypeOK
  <2>2. TypeOK'
    BY <1>1, <1>2, <2>1 DEF TypeOK, Phases
  <2> QED BY <1>2, <2>2 DEF RefreshInv, FaultsAreContained, HaveInv
<1>5. FreshInv' /\ NoStaleReadings'
  BY <1>2, <1>3 DEF RefreshInv, FreshInv, NoStaleReadings
<1>6. DerivationInv'
  BY <1>2 DEF RefreshInv, DerivationInv, DeviceRead, EffectiveLoadCoherent, DerivedMemoryFits
<1>7. RateInv' /\ ClientInv'
  BY <1>2 DEF RefreshInv, RateInv, ClientInv, UsageNeedsTwoReadings, DeviceRead
<1>8. SnapshotInv'
  BY <1>2 DEF RefreshInv, SnapshotInv, DeviceRead
<1> QED BY <1>4, <1>5, <1>6, <1>7, <1>8 DEF RefreshInv

\* The library is shut down, and the program is over.
LEMMA ShutdownKeepsInv == RefreshInv /\ gpuinfo_shutdown_info_extraction => RefreshInv'
<1> SUFFICES ASSUME RefreshInv, gpuinfo_shutdown_info_extraction PROVE RefreshInv'
  OBVIOUS
<1> USE DEF gpuinfo_shutdown_info_extraction, device, ghosts
<1>1. TypeOK /\ vendor \in Drivers /\ 0 \in 0 .. Cardinality(DeviceIds)
  BY VendorsAssumption, DeviceIdsAssumption, FS_CardinalityType
     DEF RefreshInv, FaultsAreContained, TypeOK
<1>2. lib' \in LibraryStates \ {"ready"}
  BY <1>1, LibraryOfVendor
<1>3. FaultsAreContained' /\ HaveInv'
  <2>1. TypeOK'
    BY <1>1, <1>2 DEF TypeOK, Phases
  <2> QED BY <1>2, <2>1 DEF RefreshInv, FaultsAreContained, HaveInv
<1>4. FreshInv' /\ NoStaleReadings'
  BY DEF RefreshInv, FreshInv, NoStaleReadings
<1>5. DerivationInv'
  BY DEF RefreshInv, DerivationInv, DeviceRead, DerivedMemoryFits
<1>6. RateInv' /\ ClientInv'
  BY DEF RefreshInv, RateInv, ClientInv, UsageNeedsTwoReadings, DeviceRead
<1>7. SnapshotInv'
  BY DEF RefreshInv, SnapshotInv, DeviceRead
<1> QED BY <1>3, <1>4, <1>5, <1>6, <1>7 DEF RefreshInv

LEMMA RefreshInvariance == Spec => []RefreshInv
<1>1. Init => RefreshInv
  BY InvOfInit
<1>2. RefreshInv /\ [Next]_vars => RefreshInv'
  <2> SUFFICES ASSUME RefreshInv, [Next]_vars PROVE RefreshInv'
    OBVIOUS
  <2>1. CASE gpuinfo_init_info_extraction
    BY <2>1, InitKeepsInv
  <2>2. CASE gpuinfo_populate_static_infos
    BY <2>2, StaticKeepsInv
  <2>3. CASE gpuinfo_refresh_dynamic_info
    BY <2>3, DynamicKeepsInv
  <2>4. CASE interface_freeze_processes
    BY <2>4, FreezeKeepsInv
  <2>5. CASE gpuinfo_refresh_processes
    BY <2>5, ProcessesKeepInv
  <2>6. CASE gpuinfo_utilisation_rate
    BY <2>6, UtilisationKeepsInv
  <2>7. CASE gpuinfo_fix_dynamic_info_from_process_info
    BY <2>7, FixKeepsInv
  <2>8. CASE draw_devices \/ print_snapshot
    BY <2>8, ShowKeepsInv
  <2>9. CASE gpuinfo_shutdown_info_extraction
    BY <2>9, ShutdownKeepsInv
  <2>10. CASE UNCHANGED vars
    <3> USE <2>10 DEF vars, program, device, ghosts
    <3>1. FaultsAreContained' /\ HaveInv'
      BY DEF RefreshInv, FaultsAreContained, TypeOK, HaveInv
    <3>2. FreshInv' /\ NoStaleReadings'
      BY DEF RefreshInv, FreshInv, NoStaleReadings
    <3>3. DerivationInv'
      BY DEF RefreshInv, DerivationInv, DeviceRead, EffectiveLoadCoherent, DerivedMemoryFits
    <3>4. RateInv' /\ ClientInv'
      BY DEF RefreshInv, RateInv, ClientInv, UsageNeedsTwoReadings, DeviceRead
    <3>5. SnapshotInv'
      BY DEF RefreshInv, SnapshotInv, DeviceRead
    <3> QED BY <3>1, <3>2, <3>3, <3>4, <3>5 DEF RefreshInv
  <2> QED BY <2>1, <2>2, <2>3, <2>4, <2>5, <2>6, <2>7, <2>8, <2>9, <2>10 DEF Next, Ended
<1> QED BY <1>1, <1>2, PTL DEF Spec

-----------------------------------------------------------------------------
(* What a refresh leaves                                                   *)

\* Whatever a driver fails to read, and however often the list of processes was
\* frozen, gpuinfo_refresh_dynamic_info and gpuinfo_refresh_processes leave nothing
\* of an earlier refresh for draw_devices and print_snapshot to show, unless the
\* driver is one of the four that do not clear their bits.
THEOREM NothingStaleIsShown == Spec => []NoStaleReadings
<1>1. RefreshInv => NoStaleReadings
  BY DEF RefreshInv
<1> QED BY <1>1, RefreshInvariance, PTL

\* gpuinfo_fix_dynamic_info_from_process_info loses nothing that the driver reported,
\* leaves the effective load as its values are, and derives a use of memory that fits
\* the device, for any number of processes and whatever each of them claims.
THEOREM NothingImpossibleIsDerived == Spec => []DerivationSound
<1>1. RefreshInv => DerivationSound
  BY DEF RefreshInv, DerivationInv, DerivationSound, DeviceRead, ReportedSurvives
<1> QED BY <1>1, RefreshInvariance, PTL

\* The power of Intel's devices, the PCIe rates of Tenstorrent's and the usage of a
\* client of fdinfo are never computed from one reading, nor left out when there are two
\* readings of the device: no failed read in between breaks that, and no frozen list.
THEOREM RatesHaveTwoReadings == Spec => []RatesNeedTwoReadings
<1>1. RefreshInv => RatesNeedTwoReadings
  BY DEF RefreshInv, RateInv, ClientInv, DeviceRead, RatesNeedTwoReadings, DeviceRatesNeedTwoReadings
<1> QED BY <1>1, RefreshInvariance, PTL

\* The snapshot, whose first refresh is not printed (nvtop.c), has every rate when
\* nothing failed, and the usage of its processes.
THEOREM FirstSnapshotHasRates == Spec => []SnapshotHasRates
<1>1. RefreshInv => SnapshotHasRates
  <2> SUFFICES ASSUME RefreshInv, phase = "shown", mode = "snapshot", faults = 0, "old_keys" \notin have
               PROVE  /\ DOMAIN DeviceRates(vendor) \subseteq valid
                      /\ vendor \in FdinfoVendors => "gpu_usage" \in row.fields
    BY DEF SnapshotHasRates
  <2>1. refreshes >= 2
    BY DEF RefreshInv, SnapshotInv
  <2> QED BY <2>1 DEF RefreshInv, SnapshotInv, DeviceRead
<1> QED BY <1>1, RefreshInvariance, PTL

\* Whatever library call or file fails, with any number of devices: only panfrost has
\* a list longer than its count, only panthor and metax end the program, and no
\* library is left initialised at the end.
THEOREM NoFaultSpreads == Spec => []FaultsAreContained
<1>1. RefreshInv => FaultsAreContained
  BY DEF RefreshInv
<1> QED BY <1>1, RefreshInvariance, PTL
=============================================================================
