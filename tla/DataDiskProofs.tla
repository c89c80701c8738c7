--------------------------- MODULE DataDiskProofs ---------------------------
(***************************************************************************)
(* Proofs about DataDisk, for any number of states of the data and of      *)
(* power losses.                                                           *)
(***************************************************************************)
EXTENDS DataDisk, TLAPS

\* No migration was cut short and no left-over disk came late.
Clean == excused \cap {"twin", "late"} = {}

Moving == pc = "boot" /\ unit.move \in {"copy", "copied"}
Wiping == pc = "boot" /\ unit.wipe \in Part

\* At most one partition carries the label, whether it is attached or not, and
\* it holds the data the owner counts on.
Settled ==
    /\ ~(label["int"] = "data" /\ label["ext"] = "data")
    /\ \A p \in Part : label[p] = "data" => content[p] = latest

\* A new machine with the disk of an earlier installation, before the first boot
\* has decided between the two.
Undecided ==
    /\ ~provisioned
    /\ attached
    /\ content["int"] = Fresh
    /\ content["ext"] = Foreign
    /\ label["int"] = "data" /\ label["ext"] = "data"
    /\ latest = IF yellow THEN Foreign ELSE Fresh
    /\ pc = "boot" /\ seen => unit.detach = "wait"

\* Until it is up for the first time, a machine has nothing to move or to wipe.
NewInv ==
    ~provisioned =>
        /\ ~marker /\ ~asked
        /\ pc # "up" /\ (pc = "boot" => firstBoot)
        /\ unit.wipe \notin Part /\ unit.move \notin {"copy", "copied"}

\* The order of the units, and what is left of them after a power loss.
UnitInv ==
    /\ pc = "boot" /\ unit.move # "wait" => unit.wipe = "done"
    /\ pc = "boot" /\ grown # None => unit.move = "done"
    /\ pc # "boot" /\ unit.wipe \in Part => pc = "off" /\ "wipeCut" \in excused
    /\ pc # "boot" /\ unit.move \in {"copy", "copied"} => pc = "off" /\ "twin" \in excused

\* Which partitions carry the label and what they hold.
DataInv ==
    Clean =>
        /\ ~Moving => Settled \/ Undecided
        /\ Wiping => \A p \in Part : label[p] # "data"
        /\ Moving =>
              /\ label["int"] \in {"data", "dis"} /\ label["ext"] \in {"data", "dis"}
              /\ content["int"] = latest
              /\ unit.move = "copied" => content["ext"] = latest

UpInv == pc = "up" => mounted \in Labelled

\* The partition that was enlarged keeps the label.
GrownInv ==
    pc \in {"boot", "up"} /\ excused = {} /\ ~firstBoot =>
        grown = None \/ label[grown] = "data"

IInv ==
    /\ TypeOK
    /\ NewInv
    /\ UnitInv
    /\ DataInv
    /\ LatestSurvives
    /\ UpInv
    /\ GrownInv
-----------------------------------------------------------------------------
\* A flashed disk, with or without a left-over disk, satisfies IInv.
LEMMA InitIInv == Init => IInv
<1> SUFFICES ASSUME Init PROVE IInv
  OBVIOUS
<1> USE DataDiskAssumption, NoneAssumption DEF Init, Part
<1>1. TypeOK
  <2>1. writes \in 0 .. MaxWrites /\ losses \in 0 .. MaxLosses
    OBVIOUS
  <2>2. /\ label \in [Part -> Labels] /\ content \in [Part -> Content] /\ latest \in Content
    BY DEF Labels, Content
  <2>3. unit \in Units /\ yellow \in BOOLEAN /\ attached \in BOOLEAN
    BY DEF Units, NotStarted
  <2> QED BY <2>1, <2>2, <2>3 DEF TypeOK, Excuses
<1>2. NewInv /\ UnitInv /\ UpInv /\ GrownInv
  BY DEF NewInv, UnitInv, UpInv, GrownInv, NotStarted
<1>3. Settled \/ Undecided
  BY DEF Settled, Undecided
<1>4. DataInv
  BY <1>3 DEF DataInv, Moving, Wiping
<1>5. LatestSurvives
  BY DEF LatestSurvives
<1> QED BY <1>1, <1>2, <1>4, <1>5 DEF IInv

\* Every variable keeps its type.
LEMMA TypeStep == TypeOK /\ UpInv /\ [Next]_vars => TypeOK'
<1> SUFFICES ASSUME TypeOK, UpInv, [Next]_vars PROVE TypeOK'
  OBVIOUS
<1> USE DataDiskAssumption DEF TypeOK
<1>1. /\ Torn \in Content /\ Fresh \in Content /\ Labelled \subseteq Part
      /\ {"data", "none", "old", "fail", "dis"} \subseteq Labels
      /\ "int" \in Part /\ "ext" \in Part
  BY DEF Content, Labelled, Labels, Part
<1>2. ASSUME NEW p \in Part, NEW l \in Labels, Relabel(p, l)
      PROVE  label' \in [Part -> Labels]
  BY <1>2 DEF Relabel
<1>3. ASSUME NEW u \in {"wipe", "move", "detach", "expand"}, Done(u) PROVE unit' \in Units
  BY <1>3 DEF Done, Units
<1>4. CASE PowerOn
  <2>1. unit' \in Units /\ firstBoot' \in BOOLEAN
    BY <1>4 DEF PowerOn, NotStarted, Units
  <2>2. excused' \subseteq Excuses
    BY <1>4 DEF PowerOn, Excuse, Excuses
  <2> QED BY <1>4, <2>1, <2>2 DEF PowerOn, disk
<1>5. CASE Enumerate
  <2>1. excused' \subseteq Excuses
    BY <1>5 DEF Enumerate, Excuse, Excuses
  <2> QED BY <1>5, <2>1 DEF Enumerate, disk
<1>6. CASE WipeSkips
  BY <1>3, <1>6 DEF WipeSkips, disk, history
<1>7. CASE WipeBegin
  <2>1. label' \in [Part -> Labels] /\ content' \in [Part -> Content] /\ unit' \in Units
    <3>1. PICK p \in Labelled : /\ Relabel(p, "none") /\ content' = [content EXCEPT ![p] = Torn]
                                /\ unit' = [unit EXCEPT !.wipe = p]
      BY <1>7 DEF WipeBegin
    <3>2. unit' \in Units
      BY <1>1, <3>1 DEF Units
    <3> QED BY <1>1, <1>2, <3>1, <3>2
  <2> QED BY <1>7, <2>1 DEF WipeBegin, history
<1>8. CASE WipeEnd
  <2>1. label' \in [Part -> Labels] /\ unit' \in Units
    BY <1>1, <1>2, <1>3, <1>8 DEF WipeEnd
  <2> QED BY <1>1, <1>8, <2>1 DEF WipeEnd
<1>8a. CASE WipeFails
  <2>1. excused' \subseteq Excuses
    BY <1>8a DEF WipeFails, Excuse, Excuses
  <2> QED BY <1>3, <1>8a, <2>1 DEF WipeFails, disk
<1>9. CASE MoveSkips
  BY <1>3, <1>9 DEF MoveSkips, disk, history
<1>10. CASE CopyBegin
  <2>1. label' \in [Part -> Labels] /\ unit' \in Units
    BY <1>1, <1>2, <1>10 DEF CopyBegin, Units
  <2> QED BY <1>1, <1>10, <2>1 DEF CopyBegin, history
<1>11. CASE CopyEnd
  <2>1. unit' \in Units
    BY <1>11 DEF CopyEnd, Units
  <2> QED BY <1>1, <1>11, <2>1 DEF CopyEnd, history
<1>12. CASE CopyFails \/ MoveEnd
  <2>1. label' \in [Part -> Labels] /\ unit' \in Units
    BY <1>1, <1>2, <1>3, <1>12 DEF CopyFails, MoveEnd
  <2>2. excused' \subseteq Excuses
    BY <1>12 DEF CopyFails, MoveEnd, Excuse, Excuses
  <2> QED BY <1>12, <2>1, <2>2 DEF CopyFails, MoveEnd
<1>13. CASE Detach
  <2>1. label' \in [Part -> Labels] /\ unit' \in Units
    BY <1>1, <1>3, <1>13 DEF Detach
  <2> QED BY <1>13, <2>1 DEF Detach, history
<1>14. CASE Expand
  <2>1. grown' \in Part \cup {None} /\ unit' \in Units
    BY <1>1, <1>3, <1>14 DEF Expand
  <2> QED BY <1>14, <2>1 DEF Expand, disk, history
<1>15. CASE Mount
  <2>1. excused' \subseteq Excuses
    BY <1>15 DEF Mount, Excuse, Excuses
  <2> QED BY <1>1, <1>15, <2>1 DEF Mount, disk
<1>16. CASE MountFails \/ RequestWipe \/ SwitchOff
  BY <1>16 DEF MountFails, RequestWipe, SwitchOff, disk, boot, history
<1>17. CASE WriteData
  <2>1. writes' \in 0 .. MaxWrites /\ writes + 1 \in Content
    BY <1>17 DEF WriteData, Content
  <2> QED BY <1>17, <2>1 DEF WriteData, boot
<1>18. CASE RequestMove
  <2>1. label' \in [Part -> Labels]
    BY <1>1, <1>2, <1>18 DEF RequestMove
  <2> QED BY <1>1, <1>18, <2>1 DEF RequestMove, boot, history
<1>19. CASE PlugOrUnplug
  <2>1. attached' \in BOOLEAN
    BY <1>19 DEF PlugOrUnplug
  <2> QED BY <1>19, <2>1 DEF PlugOrUnplug, boot, history
<1>20. CASE PowerLoss
  <2>1. losses' \in 0 .. MaxLosses
    BY <1>20 DEF PowerLoss
  <2>2. excused' \subseteq Excuses
    BY <1>20 DEF PowerLoss, Excuses
  <2> QED BY <1>20, <2>1, <2>2 DEF PowerLoss, disk
<1>21. CASE UNCHANGED vars
  BY <1>21 DEF vars, disk, boot, history
<1> QED BY <1>4, <1>5, <1>6, <1>7, <1>8, <1>9, <1>10, <1>11, <1>12, <1>13, <1>14, <1>15, <1>16,
           <1>17, <1>18, <1>19, <1>20, <1>21, <1>8a DEF Next, Boot, Running
\* A unit that is done has the others' progress untouched.
LEMMA DoneFacts ==
    ASSUME unit \in Units, NEW u \in {"wipe", "move", "detach", "expand"}, Done(u)
    PROVE  /\ unit'.wipe = IF u = "wipe" THEN "done" ELSE unit.wipe
           /\ unit'.move = IF u = "move" THEN "done" ELSE unit.move
           /\ unit'.detach = IF u = "detach" THEN "done" ELSE unit.detach
BY DEF Done, Units

\* No step of the units, the owner or a power loss leads out of IInv.
LEMMA StepIInv == IInv /\ [Next]_vars => IInv'
<1> SUFFICES ASSUME IInv, [Next]_vars PROVE IInv'
  OBVIOUS
<1> USE DataDiskAssumption, NoneAssumption DEF Part
<1>0. /\ TypeOK /\ NewInv /\ UnitInv /\ DataInv /\ LatestSurvives /\ UpInv /\ GrownInv
      /\ TypeOK' /\ unit \in Units
      /\ label \in [Part -> Labels] /\ content \in [Part -> Content]
  BY TypeStep DEF IInv, TypeOK
\* A machine that is being started or is up, and has been up before.
<1>1. ASSUME Clean, provisioned, ~Moving PROVE Settled
  BY <1>0, <1>1 DEF DataInv, Undecided
<1>2. CASE PowerOn
  <2>1. /\ pc = "off" /\ pc' = "boot" /\ unit' = NotStarted /\ grown' = None /\ ~seen'
        /\ UNCHANGED <<yellow, label, content, attached, marker, asked, latest, provisioned>>
        /\ excused \subseteq excused' /\ excused' \subseteq excused \cup {"lostId"}
    BY <1>2 DEF PowerOn, Excuse, disk
  <2>2. firstBoot' \/ provisioned
    BY <1>2 DEF PowerOn
  <2>3. /\ unit'.wipe = "wait" /\ unit'.move = "wait" /\ unit'.detach = "wait"
    BY <2>1 DEF NotStarted
  <2>4. NewInv' /\ UnitInv' /\ UpInv' /\ GrownInv'
    BY <1>0, <2>1, <2>2, <2>3 DEF NewInv, UnitInv, UpInv, GrownInv
  <2>5. DataInv'
    BY <1>0, <2>1, <2>3 DEF DataInv, Clean, Moving, Wiping, Settled, Undecided
  <2>6. LatestSurvives'
    BY <1>0, <2>1 DEF LatestSurvives, UnitInv
  <2> QED BY <1>0, <2>4, <2>5, <2>6 DEF IInv
<1>3. CASE Enumerate
  <2>1. /\ pc = "boot" /\ ~seen /\ seen'
        /\ UNCHANGED <<yellow, label, content, attached, marker, asked, pc, firstBoot, unit,
                       grown, mounted, latest, provisioned>>
        /\ excused \subseteq excused' /\ excused' \subseteq excused \cup {"late"}
    BY <1>3 DEF Enumerate, Excuse, disk
  <2>2. LeftOver /\ unit.detach = "done" => "late" \in excused'
    BY <1>3 DEF Enumerate, Excuse
  <2>3. NewInv' /\ UnitInv' /\ UpInv' /\ GrownInv'
    BY <1>0, <2>1 DEF NewInv, UnitInv, UpInv, GrownInv
  <2>4. DataInv'
    <3> SUFFICES ASSUME Clean' PROVE DataInv'
      BY DEF DataInv
    <3>1. Clean /\ ~(LeftOver /\ unit.detach = "done")
      BY <2>1, <2>2 DEF Clean
    <3>2. Undecided => unit.detach = "wait"
      BY <1>0, <3>1 DEF Undecided, LeftOver, Units
    <3> QED BY <1>0, <2>1, <3>1, <3>2 DEF DataInv, Moving, Wiping, Settled, Undecided
  <2>5. LatestSurvives'
    BY <1>0, <2>1 DEF LatestSurvives
  <2> QED BY <1>0, <2>3, <2>4, <2>5 DEF IInv
\* A unit that has nothing to do.
<1>4. CASE WipeSkips \/ MoveSkips
  <2>1. /\ pc = "boot" /\ unit'.wipe \in {unit.wipe, "done"} /\ unit'.move \in {unit.move, "done"}
        /\ unit'.detach = unit.detach /\ (marker' => marker)
        /\ UNCHANGED <<yellow, label, content, attached, asked, pc, seen, firstBoot, grown,
                       mounted, history>>
        /\ unit.wipe \notin Part /\ unit.move \notin {"copy", "copied"}
        /\ unit'.move # "wait" => unit'.wipe = "done"
    BY <1>0, <1>4, DoneFacts DEF WipeSkips, MoveSkips, MoveReady, disk, UnitInv
  <2>2. NewInv' /\ UnitInv' /\ UpInv' /\ GrownInv'
    BY <1>0, <2>1 DEF NewInv, UnitInv, UpInv, GrownInv, history
  <2>3. DataInv'
    BY <1>0, <2>1 DEF DataInv, Clean, Moving, Wiping, Settled, Undecided, history
  <2>4. LatestSurvives'
    BY <1>0, <2>1 DEF LatestSurvives, history
  <2> QED BY <1>0, <2>2, <2>3, <2>4 DEF IInv
<1>5. CASE WipeBegin
  <2>1. PICK p \in Labelled :
          /\ label' = [label EXCEPT ![p] = "none"]
          /\ content' = [content EXCEPT ![p] = Torn]
          /\ unit' = [unit EXCEPT !.wipe = p]
    BY <1>5 DEF WipeBegin, Relabel
  <2>2. /\ p \in Part /\ label[p] = "data"
        /\ unit'.wipe = p /\ unit'.move = unit.move /\ unit'.detach = unit.detach
    BY <1>0, <2>1 DEF Labelled, Units
  <2>3. /\ pc = "boot" /\ unit.move = "wait" /\ grown = None /\ provisioned
        /\ UNCHANGED <<yellow, attached, marker, asked, pc, seen, firstBoot, grown, mounted,
                       history>>
    BY <1>0, <1>5 DEF WipeBegin, UnitInv, NewInv
  <2>4. NewInv' /\ UnitInv' /\ UpInv' /\ GrownInv'
    BY <1>0, <2>2, <2>3 DEF NewInv, UnitInv, UpInv, GrownInv, history
  <2>5. DataInv'
    <3> SUFFICES ASSUME Clean PROVE DataInv'
      BY <2>3 DEF DataInv, Clean, history
    <3>1. Settled
      BY <1>1, <2>3 DEF Moving
    <3>2. \A q \in Part : label'[q] # "data"
      BY <1>0, <2>1, <2>2, <3>1 DEF Settled
    <3> QED BY <2>2, <2>3, <3>2 DEF DataInv, Moving, Wiping, Settled, history
  <2>6. LatestSurvives'
    BY <2>2 DEF LatestSurvives
  <2> QED BY <1>0, <2>4, <2>5, <2>6 DEF IInv
<1>6. CASE WipeEnd
  <2>1. PICK p \in Part : p = unit.wipe
    BY <1>6 DEF WipeEnd
  <2>2. /\ pc = "boot" /\ label' = [label EXCEPT ![p] = "data"]
        /\ content' = [content EXCEPT ![p] = Fresh] /\ latest' = Fresh
        /\ unit'.wipe = "done" /\ unit'.move = unit.move /\ unit'.detach = unit.detach
        /\ UNCHANGED <<yellow, attached, pc, seen, firstBoot, grown, mounted, provisioned,
                       excused>>
    BY <1>0, <1>6, <2>1, DoneFacts DEF WipeEnd, Relabel
  <2>3. unit.move = "wait" /\ grown = None /\ provisioned
    BY <1>0, <2>1, <2>2 DEF UnitInv, NewInv
  <2>4. NewInv' /\ UnitInv' /\ UpInv' /\ GrownInv'
    BY <1>0, <2>1, <2>2, <2>3 DEF NewInv, UnitInv, UpInv, GrownInv
  <2>5. DataInv'
    <3> SUFFICES ASSUME Clean PROVE DataInv'
      BY <2>2 DEF DataInv, Clean
    <3>1. \A q \in Part : label[q] # "data"
      BY <1>0, <2>1, <2>2 DEF DataInv, Wiping
    <3>2. Settled'
      BY <1>0, <2>2, <3>1 DEF Settled
    <3> QED BY <2>2, <2>3, <3>2 DEF DataInv, Moving, Wiping
  <2>6. LatestSurvives'
    <3>1. content'[p] = latest'
      BY <1>0, <2>2
    <3> QED BY <3>1 DEF LatestSurvives
  <2> QED BY <1>0, <2>4, <2>5, <2>6 DEF IInv
<1>6a. CASE WipeFails
  <2>1. /\ pc = "boot" /\ unit.wipe \in Part
        /\ unit'.wipe = "done" /\ unit'.move = unit.move /\ unit'.detach = unit.detach
        /\ excused' = excused \cup {"wipeCut"}
        /\ UNCHANGED <<yellow, label, content, attached, marker, asked, pc, seen, firstBoot,
                       grown, mounted, latest, provisioned>>
    BY <1>0, <1>6a, DoneFacts DEF WipeFails, Excuse, disk
  <2>2. unit.move = "wait"
    BY <1>0, <2>1 DEF UnitInv
  <2>3. NewInv' /\ UnitInv' /\ UpInv' /\ GrownInv'
    BY <1>0, <2>1, <2>2 DEF NewInv, UnitInv, UpInv, GrownInv
  <2>4. DataInv'
    BY <1>0, <2>1, <2>2 DEF DataInv, Clean, Moving, Wiping, Settled, Undecided
  <2>5. LatestSurvives'
    BY <2>1 DEF LatestSurvives
  <2> QED BY <1>0, <2>3, <2>4, <2>5 DEF IInv
<1>7. CASE CopyBegin
  <2>1. /\ pc = "boot" /\ unit.wipe = "done" /\ unit.move = "wait" /\ label["int"] = "data"
        /\ label' = [label EXCEPT !["ext"] = "data"] /\ provisioned /\ grown = None
        /\ content' = [content EXCEPT !["ext"] = Torn]
        /\ unit'.wipe = "done" /\ unit'.move = "copy"
        /\ UNCHANGED <<yellow, attached, asked, pc, seen, firstBoot, grown, mounted, history>>
    BY <1>0, <1>7 DEF CopyBegin, MoveReady, Relabel, Units, NewInv, UnitInv
  <2>2. NewInv' /\ UnitInv' /\ UpInv' /\ GrownInv'
    BY <1>0, <2>1 DEF NewInv, UnitInv, UpInv, GrownInv, history
  <2>3. Clean => content["int"] = latest
    BY <1>1, <2>1 DEF Settled, Moving
  <2>4. DataInv'
    BY <1>0, <2>1, <2>3 DEF DataInv, Clean, Moving, Wiping, history
  <2>5. LatestSurvives'
    BY <1>0, <2>1, <2>3 DEF LatestSurvives, Clean, history
  <2> QED BY <1>0, <2>2, <2>4, <2>5 DEF IInv
<1>8. CASE CopyEnd
  <2>1. /\ pc = "boot" /\ unit.move = "copy" /\ unit.wipe = "done" /\ provisioned /\ grown = None
        /\ content' = [content EXCEPT !["ext"] = content["int"]]
        /\ unit'.wipe = "done" /\ unit'.move = "copied"
        /\ UNCHANGED <<yellow, label, attached, marker, asked, pc, seen, firstBoot, grown,
                       mounted, history>>
    BY <1>0, <1>8 DEF CopyEnd, Units, NewInv, UnitInv
  <2>2. NewInv' /\ UnitInv' /\ UpInv' /\ GrownInv'
    BY <1>0, <2>1 DEF NewInv, UnitInv, UpInv, GrownInv, history
  <2>3. Clean => content["int"] = latest
    BY <1>0, <2>1 DEF DataInv, Moving
  <2>4. DataInv'
    BY <1>0, <2>1, <2>3 DEF DataInv, Clean, Moving, Wiping, history
  <2>5. LatestSurvives'
    BY <1>0, <2>1, <2>3 DEF LatestSurvives, Clean, history
  <2> QED BY <1>0, <2>2, <2>4, <2>5 DEF IInv
<1>9. CASE CopyFails \/ MoveEnd
  <2>1. /\ pc = "boot" /\ unit.move \in {"copy", "copied"} /\ unit.wipe = "done" /\ provisioned
        /\ grown = None
        /\ unit'.wipe = "done" /\ unit'.move = "done"
        /\ UNCHANGED <<yellow, content, attached, marker, asked, pc, seen, firstBoot, grown,
                       mounted, writes, latest, provisioned, losses>>
        /\ excused \subseteq excused'
        /\ \/ "twin" \in excused'
           \/ unit.move = "copy" /\ label' = [label EXCEPT !["ext"] = "fail"]
           \/ unit.move = "copied" /\ label' = [label EXCEPT !["int"] = "old"]
    BY <1>0, <1>9, DoneFacts DEF CopyFails, MoveEnd, Relabel, Excuse, NewInv, UnitInv
  <2>2. NewInv' /\ UnitInv' /\ UpInv' /\ GrownInv'
    BY <1>0, <2>1 DEF NewInv, UnitInv, UpInv, GrownInv
  <2>3. Clean' => Settled'
    <3> SUFFICES ASSUME Clean' PROVE Settled'
      OBVIOUS
    <3>1. /\ Clean
          /\ content["int"] = latest /\ (unit.move = "copied" => content["ext"] = latest)
      BY <1>0, <2>1 DEF DataInv, Moving, Clean
    <3> QED BY <1>0, <2>1, <3>1 DEF Settled, Clean
  <2>4. DataInv'
    BY <2>1, <2>3 DEF DataInv, Moving, Wiping
  <2>5. LatestSurvives'
    BY <1>0, <2>1 DEF LatestSurvives
  <2> QED BY <1>0, <2>2, <2>4, <2>5 DEF IInv
<1>10. CASE Detach
  <2>1. /\ pc = "boot" /\ unit.detach = "wait"
        /\ label' = [p \in Part |-> IF firstBoot /\ p \in Disabled THEN "dis" ELSE label[p]]
        /\ unit'.wipe = unit.wipe /\ unit'.move = unit.move /\ unit'.detach = "done"
        /\ UNCHANGED <<yellow, content, attached, marker, asked, pc, seen, firstBoot, grown,
                       mounted, history>>
    BY <1>0, <1>10, DoneFacts DEF Detach
  <2>2. \A p \in Part : label'[p] \in {label[p], "dis"}
    BY <2>1
  <2>3. ~firstBoot => \A p \in Part : label'[p] = label[p]
    BY <2>1
  <2>4. NewInv' /\ UnitInv' /\ UpInv'
    BY <1>0, <2>1 DEF NewInv, UnitInv, UpInv, history
  <2>5. GrownInv'
    BY <1>0, <2>1, <2>3 DEF GrownInv, history, TypeOK
  \* The first boot has decided, or the left-over disk has not been seen.
  <2>6. Undecided => Settled' \/ ~seen
    <3> SUFFICES ASSUME Undecided, seen PROVE Settled'
      OBVIOUS
    <3>1. Labelled = Part /\ firstBoot /\ yellow \in BOOLEAN
      BY <1>0, <2>1 DEF Undecided, Labelled, NewInv, TypeOK
    <3>2. CASE yellow
      <4>1. label'["int"] = "dis" /\ label'["ext"] = "data"
        BY <2>1, <3>1, <3>2 DEF Disabled, Undecided
      <4> QED BY <2>1, <3>2, <4>1 DEF Settled, Undecided, history
    <3>3. CASE ~yellow
      <4>1. label'["int"] = "data" /\ label'["ext"] = "dis"
        BY <2>1, <3>1, <3>3 DEF Disabled, Undecided
      <4> QED BY <2>1, <3>3, <4>1 DEF Settled, Undecided, history
    <3> QED BY <3>1, <3>2, <3>3
  <2>7. Undecided /\ ~seen => Undecided'
    <3> SUFFICES ASSUME Undecided, ~seen PROVE Undecided'
      OBVIOUS
    <3>1. Labelled \subseteq {"int"} /\ Disabled = {}
      BY DEF Labelled, Disabled
    <3>2. label'["int"] = "data" /\ label'["ext"] = "data"
      BY <2>1, <3>1 DEF Undecided
    <3> QED BY <2>1, <3>2 DEF Undecided, history
  <2>8. Settled => Settled'
    BY <2>1, <2>2 DEF Settled, history
  <2>9. DataInv'
    BY <1>0, <2>1, <2>2, <2>6, <2>7, <2>8 DEF DataInv, Clean, Moving, Wiping, history
  <2>10. LatestSurvives'
    BY <1>0, <2>1 DEF LatestSurvives, history
  <2> QED BY <1>0, <2>4, <2>5, <2>9, <2>10 DEF IInv
<1>11. CASE Expand
  <2>1. /\ pc = "boot" /\ unit.move = "done"
        /\ grown' = None \/ (grown' \in Part /\ label[grown'] = "data")
        /\ unit'.wipe = unit.wipe /\ unit'.move = unit.move /\ unit'.detach = unit.detach
        /\ UNCHANGED <<yellow, label, content, attached, marker, asked, pc, seen, firstBoot,
                       mounted, history>>
    BY <1>0, <1>11, DoneFacts DEF Expand, Labelled, disk
  <2>2. NewInv' /\ UnitInv' /\ UpInv' /\ GrownInv'
    BY <1>0, <2>1 DEF NewInv, UnitInv, UpInv, GrownInv, history
  <2>3. DataInv'
    BY <1>0, <2>1 DEF DataInv, Clean, Moving, Wiping, Settled, Undecided, history
  <2>4. LatestSurvives'
    BY <1>0, <2>1 DEF LatestSurvives, history
  <2> QED BY <1>0, <2>2, <2>3, <2>4 DEF IInv
<1>12. CASE Mount
  <2>1. /\ pc = "boot" /\ pc' = "up" /\ provisioned' /\ mounted' \in Labelled
        /\ UNCHANGED <<yellow, label, content, attached, marker, asked, seen, firstBoot, unit,
                       grown, writes, latest, losses>>
        /\ excused \subseteq excused' /\ excused' \subseteq excused \cup {"late"}
        /\ LeftOver /\ attached /\ ~seen => "late" \in excused'
    BY <1>12 DEF Mount, Excuse, disk
  <2>2. unit.wipe = "done" /\ unit.move = "done" /\ unit.detach = "done"
    BY <1>0, <1>12 DEF Mount, Units
  <2>3. NewInv' /\ UnitInv' /\ GrownInv'
    BY <1>0, <2>1, <2>2 DEF NewInv, UnitInv, GrownInv
  <2>4. UpInv'
    BY <2>1 DEF UpInv, Labelled
  <2>5. Clean' => Settled'
    <3> SUFFICES ASSUME Clean' PROVE Settled'
      OBVIOUS
    <3>1. Clean /\ ~(LeftOver /\ attached /\ ~seen)
      BY <2>1 DEF Clean
    <3>2. ~Undecided
      BY <2>1, <2>2, <3>1 DEF Undecided, LeftOver
    <3>3. Settled
      BY <1>0, <2>2, <3>1, <3>2 DEF DataInv, Moving
    <3> QED BY <2>1, <3>3 DEF Settled
  <2>6. DataInv'
    BY <2>1, <2>5 DEF DataInv, Moving, Wiping
  <2>7. LatestSurvives'
    BY <1>0, <2>1 DEF LatestSurvives
  <2> QED BY <1>0, <2>3, <2>4, <2>6, <2>7 DEF IInv
<1>13. CASE MountFails \/ SwitchOff
  <2>1. /\ pc' \in {"failed", "off"} /\ pc \in {"boot", "up", "failed"}
        /\ unit.wipe \notin Part /\ unit.move \notin {"copy", "copied"}
        /\ UNCHANGED <<yellow, label, content, attached, marker, asked, seen, firstBoot, unit,
                       grown, history>>
    BY <1>0, <1>13 DEF MountFails, SwitchOff, disk, UnitInv
  <2>2. NewInv' /\ UnitInv' /\ UpInv' /\ GrownInv'
    BY <1>0, <2>1 DEF NewInv, UnitInv, UpInv, GrownInv, history
  <2>3. DataInv'
    BY <1>0, <2>1 DEF DataInv, Clean, Moving, Wiping, Settled, Undecided, history
  <2>4. LatestSurvives'
    BY <1>0, <2>1 DEF LatestSurvives, history
  <2> QED BY <1>0, <2>2, <2>3, <2>4 DEF IInv
\* A system that is up runs from the only partition with the label.
<1>14. ASSUME pc = "up"
       PROVE  /\ mounted \in Part /\ label[mounted] = "data" /\ provisioned /\ ~Moving
              /\ Clean => content[mounted] = latest
              /\ Clean => \A p \in Part : label[p] = "data" => p = mounted
  <2>1. mounted \in Part /\ label[mounted] = "data" /\ provisioned /\ ~Moving
    BY <1>0, <1>14 DEF UpInv, Labelled, NewInv, Moving
  <2>2. Clean => Settled
    BY <1>1, <2>1
  <2> QED BY <2>1, <2>2 DEF Settled
<1>15. CASE WriteData
  <2>1. /\ pc = "up" /\ content' = [content EXCEPT ![mounted] = writes + 1] /\ latest' = writes + 1
        /\ UNCHANGED <<yellow, label, attached, marker, asked, boot, provisioned, losses, excused>>
    BY <1>15 DEF WriteData
  <2>2. NewInv' /\ UnitInv' /\ UpInv' /\ GrownInv'
    BY <1>0, <2>1 DEF NewInv, UnitInv, UpInv, GrownInv, boot, Labelled
  <2>3. Clean => Settled'
    BY <1>0, <1>1, <1>14, <2>1 DEF Settled
  <2>4. DataInv'
    BY <2>1, <2>3 DEF DataInv, Clean, Moving, Wiping, boot
  <2>5. LatestSurvives'
    <3>1. content'[mounted] = latest'
      BY <1>0, <1>14, <2>1
    <3> QED BY <1>14, <2>1, <3>1 DEF LatestSurvives
  <2> QED BY <1>0, <2>2, <2>4, <2>5 DEF IInv
<1>16. CASE RequestMove
  <2>1. /\ pc = "up" /\ mounted = "int" /\ label' = [label EXCEPT !["ext"] = "none"]
        /\ content' = [content EXCEPT !["ext"] = Torn]
        /\ UNCHANGED <<yellow, attached, asked, boot, history>>
    BY <1>16 DEF RequestMove, Relabel
  <2>2. NewInv' /\ UnitInv'
    BY <1>0, <1>14, <2>1 DEF NewInv, UnitInv, boot, history
  <2>3. UpInv'
    BY <1>0, <2>1 DEF UpInv, boot, Labelled
  <2>4. GrownInv'
    <3>1. excused = {} /\ ~firstBoot => grown = None \/ grown = "int"
      BY <1>0, <1>14, <2>1 DEF GrownInv, Clean, TypeOK
    <3> QED BY <1>0, <1>14, <2>1, <3>1 DEF GrownInv, boot, history
  <2>5. Clean => Settled'
    BY <1>0, <1>14, <2>1 DEF Settled, history
  <2>6. DataInv'
    BY <2>1, <2>5 DEF DataInv, Clean, Moving, Wiping, boot, history
  <2>7. LatestSurvives'
    BY <1>0, <1>14, <2>1 DEF LatestSurvives, Clean, boot, history
  <2> QED BY <1>0, <2>2, <2>3, <2>4, <2>6, <2>7 DEF IInv
<1>17. CASE RequestWipe \/ PlugOrUnplug
  <2>1. /\ provisioned /\ pc # "boot" /\ (pc = "up" => UNCHANGED attached)
        /\ UNCHANGED <<yellow, label, content, marker, boot, history>>
    BY <1>0, <1>17 DEF RequestWipe, PlugOrUnplug, disk, NewInv
  <2>2. NewInv' /\ UnitInv' /\ UpInv' /\ GrownInv'
    BY <1>0, <2>1 DEF NewInv, UnitInv, UpInv, GrownInv, boot, history, Labelled
  <2>3. DataInv'
    BY <1>0, <1>1, <2>1 DEF DataInv, Clean, Moving, Wiping, Settled, boot, history
  <2>4. LatestSurvives'
    BY <1>0, <2>1 DEF LatestSurvives, boot, history
  <2> QED BY <1>0, <2>2, <2>3, <2>4 DEF IInv
<1>18. CASE PowerLoss
  <2>1. /\ pc \in {"boot", "up"} /\ pc' = "off"
        /\ UNCHANGED <<yellow, label, content, attached, marker, asked, seen, firstBoot, unit,
                       grown, writes, latest, provisioned>>
        /\ excused \subseteq excused'
        /\ Moving => "twin" \in excused'
        /\ Wiping => "wipeCut" \in excused'
    BY <1>18 DEF PowerLoss, disk, Moving, Wiping
  <2>2. NewInv' /\ UnitInv' /\ UpInv' /\ GrownInv'
    BY <1>0, <2>1 DEF NewInv, UnitInv, UpInv, GrownInv, Moving, Wiping
  <2>3. DataInv'
    <3> SUFFICES ASSUME Clean' PROVE DataInv'
      BY DEF DataInv
    <3>1. Clean /\ ~Moving
      BY <2>1 DEF Clean
    <3> QED BY <1>0, <2>1, <3>1 DEF DataInv, Moving, Wiping, Settled, Undecided
  <2>4. LatestSurvives'
    BY <1>0, <2>1 DEF LatestSurvives
  <2> QED BY <1>0, <2>2, <2>3, <2>4 DEF IInv
<1>19. CASE UNCHANGED vars
  BY <1>0, <1>19
     DEF IInv, NewInv, UnitInv, DataInv, LatestSurvives, UpInv, GrownInv, Clean, Moving, Wiping,
         Settled, Undecided, Labelled, vars, disk, boot, history
<1> QED BY <1>2, <1>3, <1>4, <1>5, <1>6, <1>7, <1>8, <1>9, <1>10, <1>11, <1>12, <1>13, <1>15,
           <1>16, <1>17, <1>18, <1>19, <1>6a DEF Next, Boot, Running

\* The invariant holds in every reachable state.
THEOREM Invariance == Spec => []IInv
BY InitIInv, StepIInv, PTL DEF Spec

-----------------------------------------------------------------------------
(***************************************************************************)
(* What the runs check, for any number of writes and power losses.         *)
(***************************************************************************)

\* A system that is up has mounted the data the owner counts on, unless a
\* migration was cut short or the disk of an earlier installation came late.
THEOREM RightData == Spec => []RightDataMounted
<1>1. IInv => RightDataMounted
  BY DEF IInv, NewInv, DataInv, UpInv, RightDataMounted, Clean, Moving, Settled, Undecided,
         Labelled
<1> QED BY <1>1, Invariance, PTL

\* Neither a migration, a first boot, the owner nor a power loss destroys the
\* last copy of that data.
THEOREM DataSurvives == Spec => []LatestSurvives
<1>1. IInv => LatestSurvives
  BY DEF IInv
<1> QED BY <1>1, Invariance, PTL

\* A boot leaves one partition with the label, the one that is mounted, and has
\* enlarged no other.
THEOREM OrderLeft == Spec => []BootLeavesOrder
<1>1. IInv => BootLeavesOrder
  <2> SUFFICES ASSUME IInv PROVE BootLeavesOrder
    OBVIOUS
  <2>1. ASSUME pc = "up", excused = {} PROVE Settled /\ mounted \in Labelled
    BY <2>1 DEF IInv, NewInv, DataInv, UpInv, Clean, Moving, Undecided
  <2>2. NextBootUnambiguous
    BY <2>1 DEF NextBootUnambiguous, Settled, Labelled, Part
  <2>3. ExpandsMounted
    BY <2>1 DEF ExpandsMounted, Settled, Labelled, Part, IInv, GrownInv, TypeOK
  <2> QED BY <2>2, <2>3 DEF BootLeavesOrder, IInv
<1> QED BY <1>1, Invariance, PTL
=============================================================================
