--------------------------- MODULE MC_HookScripts ---------------------------
(* Cards for HookScripts: one of each vendor, and an AMD card on its old driver. *)
EXTENDS HookScripts

Vendors == {[vendor |-> "Nvidia", native |-> "nvidia"], [vendor |-> "Amd", native |-> "amdgpu"],
            [vendor |-> "Amd", native |-> "radeon"], [vendor |-> "Intel", native |-> "i915"],
            [vendor |-> "Unknown", native |-> "other"]}
Geforce == {[vendor |-> "Nvidia", native |-> "nvidia"]}
=============================================================================
