------------------------------ MODULE DataDisk ------------------------------
(***************************************************************************)
(* The data partition, which the system finds by its file system label     *)
(* hassos-data, on the disk it runs from or on an external one.  Before it *)
(* is mounted four units may work on it, in parallel where systemd does    *)
(* not order them: haos-wipe, hassos-data (migration to the external       *)
(* disk), haos-data-disk-detach and hassos-expand.                         *)
(*                                                                         *)
(* When two partitions carry the label, /dev/disk/by-label resolves to     *)
(* either of them, each time anew.                                         *)
(***************************************************************************)
EXTENDS Naturals, FiniteSets

CONSTANTS
    Torn,       \* content of a partition half copied or half formatted
    Foreign,    \* the data of an earlier installation
    Fresh,      \* no data yet
    None,       \* no partition
    MaxWrites,  \* bound: states of the data that are told apart
    MaxLosses   \* bound: unplanned power losses in a behaviour

ASSUME DataDiskAssumption ==
    /\ {Torn, Foreign, Fresh} \cap Nat = {}
    /\ Torn # Foreign /\ Torn # Fresh /\ Foreign # Fresh
    /\ MaxWrites \in Nat /\ MaxLosses \in Nat

\* The partition on the system's own disk and the external one.
Part == {"int", "ext"}

ASSUME NoneAssumption == None \notin Part

Labels == {"data", "old", "fail", "dis", "none"}

VARIABLES
    yellow,     \* VARIANT_ID=yellow, and the external disk is the NVMe disk
    label,      \* file system label: hassos-data, hassos-data-old, ...
    content,    \* which state of the data a partition holds
    attached,   \* the external disk is plugged in
    marker,     \* /mnt/overlay/move-data
    asked,      \* haos.wipe=1 on the kernel command line
    pc,         \* where the machine is
    seen,       \* the external disk has been enumerated on this boot
    firstBoot,  \* ConditionFirstBoot holds on this boot
    unit,       \* progress of the four units
    grown,      \* the partition that hassos-expand worked on
    mounted,    \* the partition mounted on /mnt/data
    writes,     \* states of the data so far
    latest,     \* history: the state of the data the owner counts on
    provisioned,\* history: the system has been up
    losses,     \* unplanned power losses so far
    excused     \* history: what ended the promises, see Excuses

disk == <<label, content, attached>>
boot == <<pc, seen, firstBoot, unit, grown, mounted>>
history == <<writes, latest, provisioned, losses, excused>>
vars == <<yellow, disk, marker, asked, boot, history>>

(***************************************************************************)
(* twin: a migration was cut short or could not rename a partition, so two *)
(*   partitions are left with the label.                                   *)
(* late: the disk of an earlier installation appeared when nothing was     *)
(*   going to detach it.                                                   *)
(* lostId: a boot was taken for the first one although it was not.         *)
(* wipeCut: power was lost while haos-wipe formatted the partition, or     *)
(*   mkfs failed on it.                                                    *)
(***************************************************************************)
Excuses == {"twin", "late", "lostId", "wipeCut"}

Content == 1 .. MaxWrites \cup {Torn, Foreign, Fresh}

Units == [wipe : {"wait", "done"} \cup Part, move : {"wait", "copy", "copied", "done"},
          detach : {"wait", "done"}, expand : {"wait", "done"}]

NotStarted == [wipe |-> "wait", move |-> "wait", detach |-> "wait", expand |-> "wait"]

TypeOK ==
    /\ yellow \in BOOLEAN
    /\ label \in [Part -> Labels] /\ content \in [Part -> Content]
    /\ attached \in BOOLEAN /\ marker \in BOOLEAN /\ asked \in BOOLEAN
    /\ pc \in {"off", "boot", "up", "failed"}
    /\ seen \in BOOLEAN /\ firstBoot \in BOOLEAN
    /\ unit \in Units
    /\ grown \in Part \cup {None} /\ mounted \in Part \cup {None}
    /\ writes \in 0 .. MaxWrites /\ latest \in Content
    /\ provisioned \in BOOLEAN /\ losses \in 0 .. MaxLosses
    /\ excused \subseteq Excuses

\* A flashed disk, and an external disk that is empty or was the data disk of
\* an earlier installation, which Yellow keeps using.
Init ==
    /\ yellow \in BOOLEAN
    /\ \E leftover \in BOOLEAN :
         /\ label = [p \in Part |-> IF p = "int" \/ leftover THEN "data" ELSE "none"]
         /\ content = [p \in Part |-> IF p = "int" THEN Fresh
                                      ELSE IF leftover THEN Foreign ELSE Torn]
         /\ attached \in BOOLEAN /\ (leftover => attached)
         /\ latest = IF yellow /\ leftover THEN Foreign ELSE Fresh
    /\ marker = FALSE /\ asked = FALSE
    /\ pc = "off" /\ seen = FALSE /\ firstBoot = FALSE
    /\ unit = NotStarted
    /\ grown = None /\ mounted = None
    /\ writes = 0
    /\ provisioned = FALSE /\ losses = 0 /\ excused = {}

\* What /dev/disk/by-label/hassos-data can resolve to.
Labelled == {p \in Part : label[p] = "data" /\ (p = "ext" => attached /\ seen)}

Relabel(p, l) == label' = [label EXCEPT ![p] = l]
Done(u) == unit' = [unit EXCEPT ![u] = "done"]
Excuse(e, when) == excused' = excused \cup (IF when THEN {e} ELSE {})

-----------------------------------------------------------------------------
PowerOn ==
    /\ pc = "off"
    /\ pc' = "boot"
    /\ seen' = FALSE
    /\ unit' = NotStarted
    /\ grown' = None
    /\ firstBoot' \in {TRUE, ~provisioned}
    /\ Excuse("lostId", firstBoot' /\ provisioned)
    /\ UNCHANGED <<yellow, disk, marker, asked, mounted, writes, latest,
                   provisioned, losses>>

\* The data of an earlier installation, which nothing has settled about.
LeftOver == label["ext"] = "data" /\ content["ext"] = Foreign /\ label["int"] # "dis"

\* The external disk shows up at any time during the boot.
Enumerate ==
    /\ pc = "boot"
    /\ attached /\ ~seen
    /\ seen' = TRUE
    /\ Excuse("late", LeftOver /\ (~firstBoot \/ unit.detach = "done"))
    /\ UNCHANGED <<yellow, disk, marker, asked, pc, firstBoot, unit, grown,
                   mounted, writes, latest, provisioned, losses>>

-----------------------------------------------------------------------------
(***************************************************************************)
(* haos-wipe, before /mnt/overlay and /mnt/data are mounted.               *)
(***************************************************************************)
WipeSkips ==
    /\ pc = "boot" /\ unit.wipe = "wait"
    /\ ~asked \/ Labelled = {}
    /\ Done("wipe")
    /\ UNCHANGED <<yellow, disk, marker, asked, pc, seen, firstBoot, grown,
                   mounted, history>>

\* mkfs.ext4 on the data partition: the old file system is gone first,
WipeBegin ==
    /\ pc = "boot" /\ unit.wipe = "wait"
    /\ asked
    /\ \E p \in Labelled :
         /\ Relabel(p, "none")
         /\ content' = [content EXCEPT ![p] = Torn]
         /\ unit' = [unit EXCEPT !.wipe = p]
    /\ UNCHANGED <<yellow, attached, marker, asked, pc, seen, firstBoot, grown,
                   mounted, history>>

\* then the new one is complete.  The overlay, with the marker, and the flag
\* follow; the flag stays if one of the two fails (set -e).
WipeEnd ==
    /\ pc = "boot" /\ unit.wipe \in Part
    /\ Relabel(unit.wipe, "data")
    /\ content' = [content EXCEPT ![unit.wipe] = Fresh]
    /\ latest' = Fresh
    /\ marker' = FALSE
    /\ asked' \in {FALSE, asked}
    /\ Done("wipe")
    /\ UNCHANGED <<yellow, attached, pc, seen, firstBoot, grown, mounted,
                   writes, provisioned, losses, excused>>

\* mkfs.ext4 fails on the data partition and the script ends there.
WipeFails ==
    /\ pc = "boot" /\ unit.wipe \in Part
    /\ Done("wipe")
    /\ Excuse("wipeCut", TRUE)
    /\ UNCHANGED <<yellow, disk, marker, asked, pc, seen, firstBoot, grown,
                   mounted, writes, latest, provisioned, losses>>

-----------------------------------------------------------------------------
(***************************************************************************)
(* hassos-data, once /mnt/overlay is mounted.                              *)
(***************************************************************************)
MoveReady == pc = "boot" /\ unit.wipe = "done" /\ unit.move = "wait" /\ Labelled # {}

\* There is nothing to do, or the external disk is missing, has not shown up
\* when its device unit times out, is the one in use already or is too small.
\* The marker is gone in any case.
MoveSkips ==
    /\ MoveReady
    /\ marker' = FALSE
    /\ Done("move")
    /\ UNCHANGED <<yellow, disk, asked, pc, seen, firstBoot, grown, mounted,
                   history>>

\* Mutant: the arguments of e2image are swapped.
CopyBeginBackwards ==
    /\ MoveReady
    /\ marker /\ attached /\ seen
    /\ label["int"] = "data"
    /\ marker' = FALSE
    /\ content' = [content EXCEPT !["int"] = Torn]
    /\ unit' = [unit EXCEPT !.move = "copy"]
    /\ UNCHANGED <<yellow, label, attached, asked, pc, seen, firstBoot, grown,
                   mounted, history>>

\* e2image starts; the label is among the first blocks it copies.
CopyBegin ==
    /\ MoveReady
    /\ marker /\ attached /\ seen
    /\ label["int"] = "data"
    /\ marker' = FALSE
    /\ Relabel("ext", "data")
    /\ content' = [content EXCEPT !["ext"] = Torn]
    /\ unit' = [unit EXCEPT !.move = "copy"]
    /\ UNCHANGED <<yellow, attached, asked, pc, seen, firstBoot, grown, mounted,
                   history>>

CopyEnd ==
    /\ pc = "boot" /\ unit.move = "copy"
    /\ content' = [content EXCEPT !["ext"] = content["int"]]
    /\ unit' = [unit EXCEPT !.move = "copied"]
    /\ UNCHANGED <<yellow, label, attached, marker, asked, pc, seen, firstBoot,
                   grown, mounted, history>>

\* Mutant: the label is none the rest of the system knows.
CopyFailsMisnamed ==
    /\ pc = "boot" /\ unit.move = "copy"
    /\ Relabel("ext", "failed")
    /\ Done("move")
    /\ UNCHANGED <<yellow, content, attached, marker, asked, pc, seen,
                   firstBoot, grown, mounted, history>>

\* e2image fails; the external partition is renamed, if that succeeds.
CopyFails ==
    /\ pc = "boot" /\ unit.move = "copy"
    /\ \/ Relabel("ext", "fail") /\ UNCHANGED excused
       \/ UNCHANGED label /\ Excuse("twin", TRUE)
    /\ Done("move")
    /\ UNCHANGED <<yellow, content, attached, marker, asked, pc, seen,
                   firstBoot, grown, mounted, writes, latest, provisioned,
                   losses>>

\* Mutant: neither is renamed.
MoveEndForgotten ==
    /\ pc = "boot" /\ unit.move = "copied"
    /\ Done("move")
    /\ UNCHANGED <<yellow, disk, marker, asked, pc, seen, firstBoot, grown,
                   mounted, history>>

\* The internal partition is renamed, if that succeeds.
MoveEnd ==
    /\ pc = "boot" /\ unit.move = "copied"
    /\ \/ Relabel("int", "old") /\ UNCHANGED excused
       \/ UNCHANGED label /\ Excuse("twin", TRUE)
    /\ Done("move")
    /\ UNCHANGED <<yellow, content, attached, marker, asked, pc, seen,
                   firstBoot, grown, mounted, writes, latest, provisioned,
                   losses>>

-----------------------------------------------------------------------------
(***************************************************************************)
(* haos-data-disk-detach, in parallel to all of the above, once a device   *)
(* carries the label (Requires= and After= of the unit).                   *)
(***************************************************************************)

\* Mutant: Yellow is not told apart.
DisabledAsUsual == Labelled \cap {"ext"}

\* The partition that a first boot disables: the external one; on Yellow the
\* internal one if there is an NVMe data disk.
Disabled ==
    IF yellow
    THEN IF Labelled = Part THEN {"int"} ELSE {}
    ELSE Labelled \cap {"ext"}

\* Mutant: every boot detaches the external disk.
DetachAlways ==
    /\ pc = "boot" /\ unit.detach = "wait"
    /\ Labelled # {}
    /\ label' = [p \in Part |-> IF p \in Disabled THEN "dis" ELSE label[p]]
    /\ Done("detach")
    /\ UNCHANGED <<yellow, content, attached, marker, asked, pc, seen,
                   firstBoot, grown, mounted, history>>

Detach ==
    /\ pc = "boot" /\ unit.detach = "wait"
    /\ Labelled # {}
    /\ label' = [p \in Part |-> IF firstBoot /\ p \in Disabled THEN "dis" ELSE label[p]]
    /\ Done("detach")
    /\ UNCHANGED <<yellow, content, attached, marker, asked, pc, seen,
                   firstBoot, grown, mounted, history>>

\* Mutant: hassos-expand does not wait for hassos-data.
ExpandUnordered ==
    /\ pc = "boot" /\ unit.expand = "wait"
    /\ \E p \in Labelled : grown' = p
    /\ Done("expand")
    /\ UNCHANGED <<yellow, disk, marker, asked, pc, seen, firstBoot, mounted,
                   history>>

\* hassos-expand, after hassos-data: enlarge the partition, unless there is
\* nothing to gain or a tool fails.
Expand ==
    /\ pc = "boot" /\ unit.expand = "wait" /\ unit.move = "done"
    /\ \E p \in Labelled : grown' \in {p, None}
    /\ Done("expand")
    /\ UNCHANGED <<yellow, disk, marker, asked, pc, seen, firstBoot, mounted,
                   history>>

\* mnt-data.mount, after the other units.
Mount ==
    /\ pc = "boot"
    /\ unit = [u \in DOMAIN unit |-> "done"]
    /\ mounted' \in Labelled
    /\ pc' = "up"
    /\ provisioned' = TRUE
    /\ Excuse("late", LeftOver /\ attached /\ ~seen)
    /\ UNCHANGED <<yellow, disk, marker, asked, seen, firstBoot, unit, grown,
                   writes, latest, losses>>

\* No partition carries the label: the device units time out.
MountFails ==
    /\ pc = "boot"
    /\ unit.wipe = "done" /\ unit.move \in {"wait", "done"}
    /\ attached => seen
    /\ Labelled = {}
    /\ pc' = "failed"
    /\ UNCHANGED <<yellow, disk, marker, asked, seen, firstBoot, unit, grown,
                   mounted, history>>

-----------------------------------------------------------------------------
(***************************************************************************)
(* The running system and its owner.                                       *)
(***************************************************************************)
WriteData ==
    /\ pc = "up"
    /\ writes < MaxWrites
    /\ content' = [content EXCEPT ![mounted] = writes + 1]
    /\ writes' = writes + 1
    /\ latest' = writes + 1
    /\ UNCHANGED <<yellow, label, attached, marker, asked, boot, provisioned,
                   losses, excused>>

\* The external disk gets a fresh partition and the marker is left.
RequestMove ==
    /\ pc = "up"
    /\ attached /\ mounted = "int" /\ ~marker
    /\ Relabel("ext", "none")
    /\ content' = [content EXCEPT !["ext"] = Torn]
    /\ marker' = TRUE
    /\ UNCHANGED <<yellow, attached, asked, boot, history>>

RequestWipe ==
    /\ pc = "up"
    /\ asked' = TRUE
    /\ UNCHANGED <<yellow, disk, marker, boot, history>>

\* The machine is switched off in order.
SwitchOff ==
    /\ pc \in {"up", "failed"}
    /\ pc' = "off"
    /\ mounted' = None
    /\ UNCHANGED <<yellow, disk, marker, asked, seen, firstBoot, unit, grown,
                   history>>

PlugOrUnplug ==
    /\ pc = "off" /\ provisioned
    /\ attached' = ~attached
    /\ UNCHANGED <<yellow, label, content, marker, asked, boot, history>>

PowerLoss ==
    /\ losses < MaxLosses
    /\ pc \in {"boot", "up"}
    /\ losses' = losses + 1
    /\ excused' = excused
         \cup (IF pc = "boot" /\ unit.move \in {"copy", "copied"} THEN {"twin"} ELSE {})
         \cup (IF pc = "boot" /\ unit.wipe \in Part THEN {"wipeCut"} ELSE {})
    /\ pc' = "off"
    /\ mounted' = None
    /\ UNCHANGED <<yellow, disk, marker, asked, seen, firstBoot, unit, grown,
                   writes, latest, provisioned>>

Boot ==
    \/ PowerOn \/ Enumerate
    \/ WipeSkips \/ WipeBegin \/ WipeEnd \/ WipeFails
    \/ MoveSkips \/ CopyBegin \/ CopyEnd \/ CopyFails \/ MoveEnd
    \/ Detach \/ Expand \/ Mount \/ MountFails

Running == WriteData \/ RequestMove \/ RequestWipe \/ SwitchOff

Next == Boot \/ Running \/ PlugOrUnplug \/ PowerLoss

\* A machine that is off is switched on and its start-up goes on.
Fairness == WF_vars(Boot)

Spec == Init /\ [][Next]_vars /\ Fairness

-----------------------------------------------------------------------------
(***************************************************************************)
(* Properties.                                                             *)
(***************************************************************************)

\* The partition that is mounted holds the state of the data the owner counts
\* on: the one last written, across migrations, wipes, disks left over from an
\* earlier installation and power losses outside the copy itself.
RightDataMounted ==
    pc = "up" /\ excused \cap {"twin", "late"} = {} => content[mounted] = latest

\* No step destroys the last copy of that data, except a wipe.
LatestSurvives ==
    excused \cap {"twin", "late", "wipeCut"} = {} =>
        (\E p \in Part : content[p] = latest) \/ unit.wipe \in Part

\* A system that is up leaves one partition with the label, so that the next
\* boot mounts the same one.
NextBootUnambiguous ==
    pc = "up" /\ excused = {} => Labelled = {mounted}

\* hassos-expand works on the partition that is mounted afterwards, because it
\* waits for the migration (a first boot with a left-over disk aside).
ExpandsMounted ==
    pc = "up" /\ excused = {} /\ ~firstBoot => grown \in {mounted, None}

\* What a boot leaves behind: types, one label, and an expansion of the
\* partition that carries it.
BootLeavesOrder == TypeOK /\ NextBootUnambiguous /\ ExpandsMounted

\* With its disks attached a machine finds its data partition again.
DataFound ==
    (pc = "off" /\ attached /\ excused = {}) ~> (pc = "up" \/ ~attached \/ excused # {})

\* hassos-data:39 "make sure HAOS does not try to mount a failed copy attempt".
FailedCopyNotMounted == pc = "up" => content[mounted] # Torn
=============================================================================
