---------------------------- MODULE RaucInstall ----------------------------
(***************************************************************************)
(* The two A/B slots of a Home Assistant OS disk and a RAUC installation   *)
(* that runs on top of them: the images of ota/manifest.raucm.gtpl in      *)
(* manifest order (boot, kernel, rootfs, spl), written by RAUC itself or   *)
(* by the hook ota/rauc-hook.  What the installation does to the boot      *)
(* loader's state (mark the target slot bad, make it primary) is added by  *)
(* UBootBoot and GrubBoot, which extend this module.                       *)
(*                                                                         *)
(* Every write is two steps, so that a power loss can fall inside it: the  *)
(* partition is Torn after the first and holds the image after the second. *)
(***************************************************************************)
EXTENDS Naturals, Sequences

CONSTANTS
    Images,     \* releases an update bundle can carry
    Good,       \* the releases that boot and reach the supervisor
    Factory,    \* the release the disk was flashed with
    Torn,       \* content of a partition whose write was cut short
    Empty,      \* content of a partition that was never written
    HasSpl      \* BOOT_SPL: the board's bundle carries an SPL image

ASSUME ImagesAssumption ==
    /\ Good \subseteq Images
    /\ Factory \in Good
    /\ Torn \notin Images
    /\ Empty \notin Images
    /\ Torn # Empty
    /\ HasSpl \in BOOLEAN

VARIABLES
    kernel,     \* content of hassos-kernel0/1
    rootfs,     \* content of hassos-system0/1
    bootfs,     \* the boot files of the one vfat partition hassos-boot are complete
    spl,        \* the second-stage boot loader in front of the partitions is
    settings,   \* the owner's *.txt files on hassos-boot, or the bundle's
    saved,      \* their copy in /tmp/boot-tmp
    rauc,       \* the installation in progress: its stage, target and image
    cut         \* history: an installation ended inside a write of the boot
                \* partition or of the SPL, or could not put the files back

diskVars == <<kernel, rootfs, bootfs, spl, settings>>
installVars == <<kernel, rootfs, bootfs, spl, settings, saved, rauc, cut>>

Slot == {"A", "B"}
Other(s) == IF s = "A" THEN "B" ELSE "A"

NoSlot == "none"
Content == Images \cup {Torn, Empty}

Stages == {"idle", "check", "bad", "backup", "config", "copy", "restore",
           "restoreEnv", "kernel", "kernelWrite", "rootfs", "rootfsWrite",
           "spl", "splWrite", "activate"}

\* The stages in which the target slot's partitions are being replaced.
Replacing == {"backup", "config", "copy", "restore", "restoreEnv", "kernel",
              "kernelWrite", "rootfs", "rootfsWrite", "spl", "splWrite",
              "activate"}

\* The stages in which the parts both slots share are incomplete.
Sharing == {"config", "copy", "restore", "restoreEnv", "splWrite"}

Idle == [stage |-> "idle", target |-> NoSlot, image |-> Factory]

InstallTypeOK ==
    /\ kernel \in [Slot -> Content]
    /\ rootfs \in [Slot -> Content]
    /\ bootfs \in BOOLEAN
    /\ spl \in BOOLEAN
    /\ settings \in {"owner", "bundle"}
    /\ saved \in {"owner", "bundle", "nothing"}
    /\ rauc \in [stage : Stages, target : Slot \cup {NoSlot}, image : Images]
    /\ cut \in BOOLEAN

\* A freshly flashed disk: slot B is an empty partition.
InstallInit ==
    /\ kernel = [s \in Slot |-> IF s = "A" THEN Factory ELSE Empty]
    /\ rootfs = [s \in Slot |-> IF s = "A" THEN Factory ELSE Empty]
    /\ bootfs = TRUE
    /\ spl = TRUE
    /\ settings = "owner"
    /\ saved = "nothing"
    /\ rauc = Idle
    /\ cut = FALSE

\* Slot s holds one complete release.
Whole(s) == kernel[s] \in Images /\ rootfs[s] = kernel[s]

\* Slot s holds a release that comes up.
Bootable(s) == Whole(s) /\ kernel[s] \in Good

\* The parts every boot needs before a slot is even looked at.
BootChainWhole == bootfs /\ spl

Stage(st) == rauc.stage = st
GoTo(st) == rauc' = [rauc EXCEPT !.stage = st]

-----------------------------------------------------------------------------
(***************************************************************************)
(* RAUC starts on a bundle; the slot that is not running is the target.    *)
(***************************************************************************)
Begin(running, img) ==
    /\ Stage("idle")
    /\ rauc' = [stage |-> "check", target |-> Other(running), image |-> img]
    /\ UNCHANGED <<diskVars, saved, cut>>

\* install-check: the bundle is for another board, exit 10.
CheckRejects ==
    /\ Stage("check")
    /\ rauc' = Idle
    /\ UNCHANGED <<diskVars, saved, cut>>

\* install-check: the bundle fits.
CheckAccepts ==
    /\ Stage("check")
    /\ GoTo("bad")
    /\ UNCHANGED <<diskVars, saved, cut>>

\* install_boot: remove the overlays and copy the owner's files to /tmp.
BootBackup ==
    /\ Stage("backup")
    /\ bootfs' = FALSE
    /\ saved' = settings
    /\ GoTo("config")
    /\ UNCHANGED <<kernel, rootfs, spl, settings, cut>>

\* install_boot: cp -rf has replaced the *.txt files and is not done.
BootCopyConfig ==
    /\ Stage("config")
    /\ settings' = "bundle"
    /\ GoTo("copy")
    /\ UNCHANGED <<kernel, rootfs, bootfs, spl, saved, cut>>

\* install_boot: cp -rf is done.
BootCopy ==
    /\ Stage("copy")
    /\ bootfs' = TRUE
    /\ GoTo("restore")
    /\ UNCHANGED <<kernel, rootfs, spl, settings, saved, cut>>

\* Mutant: the copies are taken but not put back.
BootRestoreForgotten ==
    /\ Stage("restore")
    /\ GoTo("restoreEnv")
    /\ UNCHANGED <<diskVars, saved, cut>>

\* install_boot: put the owner's *.txt files back; that neither copy may have
\* succeeded is ignored.
BootRestore ==
    /\ Stage("restore")
    /\ \/ settings' = saved /\ UNCHANGED cut
       \/ UNCHANGED settings /\ cut' = TRUE
    /\ GoTo("restoreEnv")
    /\ UNCHANGED <<kernel, rootfs, bootfs, spl, saved>>

\* install_boot: put grubenv back (GrubBoot adds what that does; without GRUB
\* the file is missing and the copy fails silently); the EXIT trap drops the
\* copies.
BootRestoreEnv ==
    /\ Stage("restoreEnv")
    /\ saved' = "nothing"
    /\ GoTo("kernel")
    /\ UNCHANGED <<diskVars, cut>>

\* RAUC writes hassos-kernel of the target.
KernelBegin ==
    /\ Stage("kernel")
    /\ kernel' = [kernel EXCEPT ![rauc.target] = Torn]
    /\ GoTo("kernelWrite")
    /\ UNCHANGED <<rootfs, bootfs, spl, settings, saved, cut>>

KernelEnd ==
    /\ Stage("kernelWrite")
    /\ kernel' = [kernel EXCEPT ![rauc.target] = rauc.image]
    /\ GoTo("rootfs")
    /\ UNCHANGED <<rootfs, bootfs, spl, settings, saved, cut>>

\* RAUC writes hassos-system of the target.
RootfsBegin ==
    /\ Stage("rootfs")
    /\ rootfs' = [rootfs EXCEPT ![rauc.target] = Torn]
    /\ GoTo("rootfsWrite")
    /\ UNCHANGED <<kernel, bootfs, spl, settings, saved, cut>>

RootfsEnd ==
    /\ Stage("rootfsWrite")
    /\ rootfs' = [rootfs EXCEPT ![rauc.target] = rauc.image]
    /\ GoTo(IF HasSpl THEN "spl" ELSE "activate")
    /\ UNCHANGED <<kernel, bootfs, spl, settings, saved, cut>>

\* install_spl: dd over the raw device.
SplBegin ==
    /\ Stage("spl")
    /\ spl' = FALSE
    /\ GoTo("splWrite")
    /\ UNCHANGED <<kernel, rootfs, bootfs, settings, saved, cut>>

SplEnd ==
    /\ Stage("splWrite")
    /\ spl' = TRUE
    /\ GoTo("activate")
    /\ UNCHANGED <<kernel, rootfs, bootfs, settings, saved, cut>>

\* The installation is over, whatever it was doing, and its copies are gone.
InstallStops ==
    /\ saved' = "nothing"
    /\ rauc' = Idle
    /\ cut' = (cut \/ rauc.stage \in Sharing)
    /\ UNCHANGED diskVars

\* A write or a hook fails (errexit): RAUC gives up, the EXIT trap drops the
\* copy in /tmp and nothing is put back.
InstallFails ==
    /\ rauc.stage \in Replacing \ {"activate"}
    /\ InstallStops

\* The steps that touch only the disk.
InstallStep ==
    \/ BootBackup \/ BootCopyConfig \/ BootCopy
    \/ KernelBegin \/ KernelEnd \/ RootfsBegin \/ RootfsEnd
    \/ SplBegin \/ SplEnd
=============================================================================
