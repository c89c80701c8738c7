-------------------------- MODULE SupervisorStart --------------------------
(***************************************************************************)
(* Starting the Supervisor: hassos-apparmor loads its AppArmor profile,    *)
(* the script hassos-supervisor repairs, creates and starts its container, *)
(* and systemd starts the script again when it ends, StartLimitBurst times *)
(* within StartLimitIntervalSec.                                           *)
(*                                                                         *)
(* A run of the script that does not end with a Supervisor that removes    *)
(* the startup marker makes the next run throw container and image away.   *)
(***************************************************************************)
EXTENDS Naturals

CONSTANTS
    Versions,   \* releases of the Supervisor in the registry
    None,       \* no image, no container, no time stamp
    Burst,      \* StartLimitBurst (3)
    MaxDamage   \* bound: corruptions of image, container and updater.json

ASSUME SupervisorAssumption ==
    /\ None \notin Versions /\ Versions # {}
    /\ Burst \in Nat \ {0} /\ MaxDamage \in Nat

\* The start script of this OS release and of the next.
Scripts == {"script1", "script2"}

Container == [image : Versions, script : Scripts, ok : BOOLEAN]

ASSUME NoneAssumption == None \notin Container /\ None \notin Scripts

VARIABLES
    image,      \* the image tagged latest
    imageOk,    \* ... is not corrupted
    container,  \* hassio_supervisor: what it was made from
    stamp,      \* .hassos-supervisor-version: the script of the last creation
    updater,    \* updater.json: none, a version that can be pulled, or one that cannot
    profile,    \* the AppArmor profile: "none" when its directory is missing too
    script,     \* the start script of the running OS
    marker,     \* /run/supervisor/startup-marker
    loaded,     \* the profile is loaded
    known,      \* the script knows of a container (SUPERVISOR_CONTAINER_ID)
    found,      \* ... and of an image (SUPERVISOR_IMAGE_ID)
    net,        \* the network and the registry are there
    pc,         \* where the unit is
    starts,     \* starts within the interval
    damage,     \* corruptions so far
    disturbed,  \* history: on this boot the network was away, a removal failed or
                \* the Supervisor was stopped before it was ready
    cut         \* history: the machine was restarted between the creation of a
                \* container and the time stamp

data == <<image, imageOk, container, stamp, updater, profile>>
vars == <<data, script, marker, loaded, known, found, net, pc, starts, damage, disturbed, cut>>

TypeOK ==
    /\ image \in Versions \cup {None} /\ imageOk \in BOOLEAN
    /\ container \in Container \cup {None}
    /\ stamp \in Scripts \cup {None}
    /\ updater \in {"none", "known", "gone"}
    /\ profile \in {"none", "missing", "bad", "ok"}
    /\ script \in Scripts
    /\ marker \in BOOLEAN /\ loaded \in BOOLEAN
    /\ known \in BOOLEAN /\ found \in BOOLEAN /\ net \in BOOLEAN
    /\ pc \in {"off", "wait", "image", "stale", "create", "stamp", "launch", "run", "failed"}
    /\ starts \in 0 .. Burst /\ damage \in 0 .. MaxDamage
    /\ disturbed \in BOOLEAN /\ cut \in BOOLEAN

\* The data partition as it is built: images and profile are there.
Init ==
    /\ image \in Versions /\ imageOk = TRUE
    /\ container = None /\ stamp = None
    /\ updater = "none" /\ profile = "ok"
    /\ script = "script1"
    /\ marker = FALSE /\ loaded = FALSE /\ known = FALSE /\ found = FALSE
    /\ net = TRUE
    /\ pc = "off" /\ starts = 0 /\ damage = 0
    /\ disturbed = FALSE /\ cut = FALSE

-----------------------------------------------------------------------------
(***************************************************************************)
(* hassos-apparmor, once per boot.  Only a missing directory makes it      *)
(* download the profile, and the directory is made first.                  *)
(***************************************************************************)
Apparmor ==
    /\ pc = "off"
    /\ \/ profile = "none" /\ net /\ profile' \in {"ok", "bad"}
       \/ profile = "none" /\ ~net /\ profile' = "missing"
       \/ profile # "none" /\ UNCHANGED profile
    /\ loaded' = (profile' = "ok")
    /\ pc' = "wait"
    /\ UNCHANGED <<image, imageOk, container, stamp, updater, script, marker,
                   known, found, net, starts, damage, disturbed, cut>>

-----------------------------------------------------------------------------
(***************************************************************************)
(* The script.                                                             *)
(***************************************************************************)
Exit == pc' = "wait"

\* docker container rm --force and docker image rm --force, whose failures are
\* ignored.
RemoveContainer == container' = None \/ UNCHANGED container
RemoveImages == image' = None \/ UNCHANGED image

\* Mutant: the start limit does not apply.
BeginUnlimited ==
    /\ pc = "wait"
    /\ starts' = starts + 1
    /\ \/ /\ marker /\ RemoveContainer /\ RemoveImages
          /\ known' = FALSE /\ found' = FALSE
          /\ disturbed' = (disturbed \/ container' # None \/ image' # None)
       \/ /\ ~marker /\ UNCHANGED <<image, container, disturbed>>
          /\ known' = (container # None) /\ found' = (image # None)
    /\ marker' = TRUE
    /\ pc' = "image"
    /\ UNCHANGED <<imageOk, stamp, updater, profile, script, loaded, net,
                   damage, cut>>

\* A marker from the previous run: delete container and images.
Begin ==
    /\ pc = "wait" /\ starts < Burst
    /\ starts' = starts + 1
    /\ \/ /\ marker /\ RemoveContainer /\ RemoveImages
          /\ known' = FALSE /\ found' = FALSE
          /\ disturbed' = (disturbed \/ container' # None \/ image' # None)
       \/ /\ ~marker /\ UNCHANGED <<image, container, disturbed>>
          /\ known' = (container # None) /\ found' = (image # None)
    /\ marker' = TRUE
    /\ pc' = "image"
    /\ UNCHANGED <<imageOk, stamp, updater, profile, script, loaded, net,
                   damage, cut>>

HaveImage ==
    /\ pc = "image" /\ found
    /\ pc' = "stale"
    /\ UNCHANGED <<data, script, marker, loaded, known, found, net, starts,
                   damage, disturbed, cut>>

\* Layers of an image that could not be removed are not fetched again.
Pull ==
    /\ pc = "image" /\ ~found
    /\ net /\ updater # "gone"
    /\ image' \in Versions
    /\ imageOk' = TRUE \/ (image # None /\ UNCHANGED imageOk)
    /\ pc' = "stale"
    /\ UNCHANGED <<container, stamp, updater, profile, script, marker, loaded,
                   known, found, net, starts, damage, disturbed, cut>>

\* Mutant: updater.json is kept.
PullFailsKeeping ==
    /\ pc = "image" /\ ~found
    /\ ~net \/ updater = "gone"
    /\ Exit
    /\ UNCHANGED <<data, script, marker, loaded, known, found, net, starts,
                   damage, disturbed, cut>>

\* The version cannot be pulled or, without updater.json, not even be found out.
PullFails ==
    /\ pc = "image" /\ ~found
    /\ ~net \/ updater = "gone"
    /\ updater' = "none"
    /\ Exit
    /\ UNCHANGED <<image, imageOk, container, stamp, profile, script, marker,
                   loaded, known, found, net, starts, damage, disturbed, cut>>

\* Mutant: the time stamp is not compared.
StaleImageOnly == known /\ container.image # image

\* The image or the start script has changed since the container was made.
Stale == known /\ (container.image # image \/ stamp # script)

CheckContainer ==
    /\ pc = "stale"
    /\ \/ /\ Stale /\ RemoveContainer /\ known' = FALSE
          /\ disturbed' = (disturbed \/ container' # None)
       \/ ~Stale /\ UNCHANGED <<container, known, disturbed>>
    /\ pc' = "create"
    /\ UNCHANGED <<image, imageOk, stamp, updater, profile, script, marker,
                   loaded, found, net, starts, damage, cut>>

\* docker container create; the name must be free.
Create ==
    /\ pc = "create"
    /\ \/ known /\ pc' = "launch" /\ UNCHANGED container
       \/ /\ ~known /\ container = None
          /\ container' = [image |-> image, script |-> script, ok |-> imageOk]
          /\ pc' = "stamp"
       \/ ~known /\ container # None /\ Exit /\ UNCHANGED container
    /\ UNCHANGED <<image, imageOk, stamp, updater, profile, script, marker,
                   loaded, known, found, net, starts, damage, disturbed, cut>>

\* touch --reference="$0" .hassos-supervisor-version
Stamp ==
    /\ pc = "stamp"
    /\ stamp' = script
    /\ pc' = "launch"
    /\ UNCHANGED <<image, imageOk, container, updater, profile, script, marker,
                   loaded, known, found, net, starts, damage, disturbed, cut>>

\* docker container start; without its profile the container does not start.
Launch ==
    /\ pc = "launch"
    /\ \/ loaded /\ pc' = "run"
       \/ ~loaded /\ Exit
    /\ UNCHANGED <<data, script, marker, loaded, known, found, net, starts,
                   damage, disturbed, cut>>

-----------------------------------------------------------------------------
(***************************************************************************)
(* The Supervisor in its container, and systemd.                           *)
(***************************************************************************)
Ready ==
    /\ pc = "run" /\ container.ok
    /\ marker' = FALSE
    /\ UNCHANGED <<data, script, loaded, known, found, net, pc, starts, damage, disturbed,
                   cut>>

\* It ends: because it is corrupted, for an update or a crash once it was
\* ready, or because it is stopped before that.
Ends ==
    /\ pc = "run"
    /\ disturbed' = (disturbed \/ (container.ok /\ marker))
    /\ Exit
    /\ UNCHANGED <<data, script, marker, loaded, known, found, net, starts,
                   damage, cut>>

\* It pulls another release of itself and notes the version.
SelfUpdate ==
    /\ pc = "run" /\ ~marker /\ net
    /\ image' \in Versions \ {image}
    /\ imageOk' = TRUE
    /\ updater' = "known"
    /\ UNCHANGED <<container, stamp, profile, script, marker, loaded, known,
                   found, net, pc, starts, damage, disturbed, cut>>

\* The start limit is hit.
GiveUp ==
    /\ pc = "wait" /\ starts = Burst
    /\ pc' = "failed"
    /\ UNCHANGED <<data, script, marker, loaded, known, found, net, starts,
                   damage, disturbed, cut>>

IntervalPasses ==
    /\ pc \in {"run", "failed"}
    /\ starts' = 0
    /\ UNCHANGED <<data, script, marker, loaded, known, found, net, pc, damage, disturbed,
                   cut>>

\* A unit that wants the Supervisor is started (ha-cli@, serial-getty@).
Wanted ==
    /\ pc = "failed" /\ starts < Burst
    /\ pc' = "wait"
    /\ UNCHANGED <<data, script, marker, loaded, known, found, net, starts,
                   damage, disturbed, cut>>

-----------------------------------------------------------------------------
(***************************************************************************)
(* The world around.                                                       *)
(***************************************************************************)
NetworkChanges ==
    /\ net' = ~net
    /\ disturbed' = TRUE
    /\ UNCHANGED <<data, script, marker, loaded, known, found, pc, starts,
                   damage, cut>>

\* The image or the container is corrupted, or the version in updater.json is
\* one that cannot be pulled.
Damage ==
    /\ damage < MaxDamage
    /\ damage' = damage + 1
    /\ \/ imageOk' = FALSE /\ UNCHANGED <<container, updater>>
       \/ /\ container # None /\ container' = [container EXCEPT !.ok = FALSE]
          /\ UNCHANGED <<imageOk, updater>>
       \/ updater' = "gone" /\ UNCHANGED <<imageOk, container>>
    /\ UNCHANGED <<image, stamp, profile, script, marker, loaded, known, found,
                   net, pc, starts, disturbed, cut>>

\* A reboot or power loss, into this OS release or the other; /run is empty.
Restart ==
    /\ pc # "off"
    /\ pc' = "off"
    /\ script' \in Scripts
    /\ marker' = FALSE /\ loaded' = FALSE /\ starts' = 0
    /\ known' = FALSE /\ found' = FALSE
    /\ disturbed' = ~net
    /\ cut' = (cut \/ pc = "stamp")
    /\ UNCHANGED <<data, net, damage>>

\* The data partition is wiped.
Wipe ==
    /\ pc = "off"
    /\ image' = None /\ container' = None /\ stamp' = None
    /\ updater' = "none" /\ profile' = "none"
    /\ UNCHANGED <<imageOk, script, marker, loaded, known, found, net, pc,
                   starts, damage, disturbed, cut>>

Script == Begin \/ HaveImage \/ Pull \/ PullFails \/ CheckContainer \/ Create \/ Stamp \/ Launch

Next ==
    \/ Apparmor \/ Script \/ Ready \/ Ends \/ SelfUpdate
    \/ GiveUp \/ IntervalPasses \/ Wanted
    \/ NetworkChanges \/ Damage \/ Restart \/ Wipe

\* The units run, the Supervisor gets ready or ends.
Fairness == WF_vars(Apparmor) /\ WF_vars(Script) /\ WF_vars(Ready) /\ WF_vars(Ends)

Spec == Init /\ [][Next]_vars /\ Fairness

-----------------------------------------------------------------------------
(***************************************************************************)
(* Properties.                                                             *)
(***************************************************************************)

\* A container is only started when it was made from the image tagged latest
\* by the start script of the running OS, also when a removal failed, the
\* Supervisor updated itself, power was lost, or the OS was updated or rolled
\* back; only power lost just before the time stamp is excused.
StartsCurrentContainer ==
    [][pc = "launch" /\ pc' = "run" =>
          container.image = image /\ (cut \/ container.script = script)]_vars

\* With the network up, a corrupted image or container is repaired within the
\* start limit, even if updater.json names a version that cannot be pulled: a
\* boot leads to a Supervisor that gets ready, unless the machine is restarted,
\* whatever earlier boots left behind.
HealsItself ==
    (pc = "wait" /\ starts = 0 /\ profile = "ok" /\ ~disturbed)
    ~> ((pc = "run" /\ ~marker) \/ pc = "off" \/ disturbed)
=============================================================================
