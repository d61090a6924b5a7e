---------------------------- MODULE LinuxDriver ----------------------------
(***************************************************************************)
(* The Linux kernel module of the shared memory (kernel/linux/sharedgl.c): *)
(* pci_probe takes its resources one after the other and, where it fails,  *)
(* jumps to the label that gives back what it has; pci_remove gives back   *)
(* all of them.                                                            *)
(*                                                                         *)
(* The kernel (external) refuses any of them.  ioremap refuses with NULL,  *)
(* which IS_ERR does not take for an error: the region then counts as      *)
(* mapped.  The structure is not cleared when it is allocated: the length  *)
(* of a region holds anything until the loop over the regions sets it.     *)
(***************************************************************************)
EXTENDS Integers

CONSTANT LastBar   \* the number of the last region: 5
ASSUME LastBarAssumption == LastBar \in Nat

Bars == 0 .. LastBar
Resources == {"pchar", "enabled", "regions", "chrdev", "cdev"}

VARIABLES
  at,        \* the step or label of pci_probe, or "unbound", "bound"
  bar,       \* its loop variable
  mem_bars,  \* the device's memory regions
  kept,      \* the resources held, beside:
  remapped,  \* the regions that ioremap mapped
  devices,   \* the device nodes made
  lengths    \* the regions whose length is set, and not to 0

probeVars == <<at, bar, mem_bars, kept, remapped, devices, lengths>>

ProbeInit ==
  /\ at = "unbound" /\ bar = 0
  /\ mem_bars \in SUBSET Bars
  /\ kept = {} /\ remapped = {} /\ devices = {} /\ lengths = {}

(* A step obtains a resource, or the probe jumps to a label                *)
Obtain(from, resource, to, label) ==
  /\ at = from /\ bar' = 0
  /\ \/ kept' = kept \cup {resource} /\ at' = to
     \/ kept' = kept /\ at' = label
  /\ UNCHANGED <<mem_bars, remapped, devices>>

Allocate ==
  /\ Obtain("unbound", "pchar", "enable", "unbound")
  /\ lengths' \in SUBSET Bars
Enable ==
  /\ Obtain("enable", "enabled", "regions", "failure_pci_enable")
  /\ UNCHANGED lengths
Request ==
  /\ Obtain("regions", "regions", "ioremap", "failure_pci_regions")
  /\ UNCHANGED lengths

(* The loop over the regions; an error it could see would end it           *)
Remap ==
  /\ at = "ioremap" /\ bar \in Bars
  /\ bar' = bar + 1
  /\ IF bar \in mem_bars
     THEN /\ lengths' = lengths \cup {bar}
          /\ remapped' \in {remapped, remapped \cup {bar}}        \* NULL
     ELSE lengths' = lengths \ {bar} /\ UNCHANGED remapped
  /\ UNCHANGED <<at, mem_bars, kept, devices>>
RemapFails ==
  /\ at = "ioremap" /\ bar \in Bars \cap mem_bars
  /\ at' = "failure_ioremap"
  /\ remapped' = {b \in remapped : ~(b < bar /\ b \in lengths)}
  /\ UNCHANGED <<bar, mem_bars, kept, devices, lengths>>
Remapped == /\ at = "ioremap" /\ bar \notin Bars
            /\ at' = "chrdev"
            /\ UNCHANGED <<bar, mem_bars, kept, remapped, devices, lengths>>

(* Faulty variant: a failure jumps past the label that unmaps the regions. *)
NumberSkips ==
  /\ Obtain("chrdev", "chrdev", "cdev", "failure_ioremap")
  /\ UNCHANGED lengths
Number ==
  /\ Obtain("chrdev", "chrdev", "cdev", "failure_alloc_chrdev_region")
  /\ UNCHANGED lengths
AddCdev ==
  /\ Obtain("cdev", "cdev", "devices", "failure_cdev_add")
  /\ UNCHANGED lengths

(* The loop over the device nodes                                          *)
CreateDevice ==
  /\ at = "devices" /\ bar \in Bars
  /\ bar' = bar + 1
  /\ devices' = IF bar \in lengths THEN devices \cup {bar} ELSE devices
  /\ UNCHANGED <<at, mem_bars, kept, remapped, lengths>>
CreateFails ==
  /\ at = "devices" /\ bar \in Bars \cap lengths
  /\ at' = "failure_device_create"
  /\ devices' = {b \in devices : ~(b < bar /\ b \in lengths)}
  /\ UNCHANGED <<bar, mem_bars, kept, remapped, lengths>>
Claim ==
  /\ at = "devices" /\ bar \notin Bars
  /\ at' = "bound"
  /\ UNCHANGED <<bar, mem_bars, kept, remapped, devices, lengths>>

-----------------------------------------------------------------------------
(* A label gives one thing back and falls through to the next              *)
Undo(label, resource, next) ==
  /\ at = label /\ at' = next
  /\ kept' = kept \ {resource}
  /\ UNCHANGED <<bar, mem_bars, remapped, devices, lengths>>

UndoCdev == Undo("failure_device_create", "cdev", "failure_cdev_add")
UndoNumber == Undo("failure_cdev_add", "chrdev", "failure_alloc_chrdev_region")
UndoRemap ==
  /\ at = "failure_alloc_chrdev_region" /\ at' = "failure_ioremap"
  /\ remapped' = remapped \ lengths
  /\ UNCHANGED <<bar, mem_bars, kept, devices, lengths>>
UndoRequest == Undo("failure_ioremap", "regions", "failure_pci_regions")
UndoEnable == Undo("failure_pci_regions", "enabled", "failure_pci_enable")
UndoAllocate == Undo("failure_pci_enable", "pchar", "unbound")

(* pci_remove                                                              *)
Remove ==
  /\ at = "bound" /\ at' = "unbound"
  /\ devices' = devices \ lengths
  /\ remapped' = remapped \ lengths
  /\ kept' = kept \ Resources
  /\ UNCHANGED <<bar, mem_bars, lengths>>

ProbeNext ==
  \/ Allocate \/ Enable \/ Request \/ Remap \/ RemapFails \/ Remapped
  \/ Number \/ AddCdev \/ CreateDevice \/ CreateFails \/ Claim
  \/ UndoCdev \/ UndoNumber \/ UndoRemap \/ UndoRequest \/ UndoEnable
  \/ UndoAllocate
  \/ Remove

ProbeSpec == ProbeInit /\ [][ProbeNext]_probeVars

-----------------------------------------------------------------------------
Labels == {"failure_device_create", "failure_cdev_add", "failure_alloc_chrdev_region",
           "failure_ioremap", "failure_pci_regions", "failure_pci_enable"}
ProbeTypeOK ==
  /\ at \in {"unbound", "enable", "regions", "ioremap", "chrdev", "cdev", "devices",
             "bound"} \cup Labels
  /\ bar \in 0 .. LastBar + 1
  /\ mem_bars \subseteq Bars /\ remapped \subseteq Bars
  /\ devices \subseteq Bars /\ lengths \subseteq Bars
  /\ kept \subseteq Resources

(* Wherever a probe fails, and after a removal, the kernel has everything  *)
(* back: no region is left mapped and no device node made, though the      *)
(* lengths that decide it were never cleared.  A probe that succeeds has   *)
(* all of it, with a device node for every region of the device.           *)
ProbeUndoes ==
  /\ at = "unbound" => kept = {} /\ remapped = {} /\ devices = {}
  /\ at = "bound" => /\ kept = Resources
                     /\ devices = mem_bars /\ remapped \subseteq mem_bars
=============================================================================
