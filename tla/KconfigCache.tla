---------------------------- MODULE KconfigCache ----------------------------
(***************************************************************************)
(* What the value cache of kconfiglib promises, without saying how a value *)
(* is calculated.                                                          *)
(*                                                                         *)
(* Every symbol and choice is an item.  An item has attributes that are    *)
(* calculated on demand and then cached; a cell is an attribute of an      *)
(* item.  A calculation reads cells, and user values of its own item and   *)
(* of theirs; "used" remembers which cells.  "anew" is what a program      *)
(* without a cache would calculate.  Only the dependents that              *)
(* Kconfig._build_dep() has registered are known to the invalidation, and  *)
(* the visibility of an item doubles as the flag that says whether it has  *)
(* cached values.                                                          *)
(***************************************************************************)
CONSTANTS Item,      \* the symbols and choices
          Attr,      \* the attributes that are cached
          Vis,       \* the attribute that doubles as the flag
          Modules,   \* the symbol MODULES, which every type depends on
          UserVal    \* what a user can assign to an item, "none" included

VARIABLES dependents,  \* dependents[i]: the items registered to depend on i
          assigned,    \* the user values
          cached,      \* the cells that hold a value
          value,       \* value[k]: the value that cell k holds
          used,        \* used[k]: the cells that the value of cell k was
                       \* calculated from
          anew         \* anew[k]: the value of cell k under the current user
                       \* values

vars == <<dependents, assigned, cached, value, used, anew>>

Cell == Item \X Attr

CellsOf(S) == {k \in Cell : k[1] \in S}

HasValues(i) == <<i, Vis>> \in cached

-----------------------------------------------------------------------------
(* The invalidation follows the dependents that have cached values.        *)
Closed(S) ==
    \A i \in S : \A d \in dependents[i] : HasValues(d) => d \in S

Followed(i) == {d \in Item : \A S \in SUBSET Item : (i \in S /\ Closed(S)) => d \in S}

(* What _rec_invalidate() on i clears.  MODULES clears everything.         *)
Reached(i) ==
    LET followed == Followed(i)
    IN  IF Modules \in followed THEN Item ELSE followed

(* What the calculation of an attribute of i can read.                     *)
MayRead(i) == {j \in Item : j = i \/ j = Modules \/ i \in dependents[j]}

-----------------------------------------------------------------------------
Init ==
    /\ dependents \in [Item -> SUBSET Item]
    /\ assigned \in [Item -> UserVal]
    /\ cached = {}
    /\ used = [k \in Cell |-> {}]

(* A value is calculated from cached cells: the cells it needs are         *)
(* calculated first.  It is right when they are.  Every attribute reads    *)
(* the visibility of its item.                                             *)
Calculate(k) ==
    /\ k \in Cell \ cached
    /\ cached' = cached \cup {k}
    /\ used' \in [Cell -> SUBSET Cell]
    /\ \A c \in Cell \ {k} : used'[c] = used[c]
    /\ used'[k] \subseteq cached
    /\ \A r \in used'[k] : r[1] \in MayRead(k[1]) /\ (r[1] = k[1] \/ HasValues(r[1]))
    /\ k[2] # Vis => HasValues(k[1])
    /\ \A c \in cached : value'[c] = value[c]
    /\ (\A r \in used'[k] : value[r] = anew[r]) => value'[k] = anew[k]
    /\ UNCHANGED <<dependents, assigned, anew>>

(* Cells that were calculated from each other only, and from user values   *)
(* that stay.                                                              *)
Settled(S) == \A k \in S : used[k] \subseteq S /\ assigned'[k[1]] = assigned[k[1]]

(* User values of i, or of items that depend on i, are changed and i is    *)
(* invalidated with what is reached from it.                               *)
Change(i) ==
    /\ assigned' \in [Item -> UserVal]
    /\ \A j \in Item : assigned'[j] # assigned[j] => (j = i \/ j \in dependents[i])
    /\ LET reached == Reached(i)
       IN  /\ cached' = cached \ CellsOf(reached)
           /\ used' = [k \in Cell |-> IF k[1] \in reached THEN {} ELSE used[k]]
    /\ \A k \in cached' : value'[k] = value[k]
    /\ \/ anew' = anew
       \/ \A S \in SUBSET cached : Settled(S) => \A k \in S : anew'[k] = anew[k]
    /\ UNCHANGED dependents

Next == (\E k \in Cell : Calculate(k)) \/ (\E i \in Item : Change(i))

Spec == Init /\ [][Next]_vars

-----------------------------------------------------------------------------
(* A cached value is the value that a program without a cache would        *)
(* calculate from the current user values: no order of reads and changes   *)
(* leaves a stale value behind, although the invalidation stops at symbols *)
(* and choices without a cached visibility.                                *)
CacheCoherent == \A k \in cached : value[k] = anew[k]

(* Whatever a cached value was calculated from still has its value.        *)
InputsCached == \A k \in cached : used[k] \subseteq cached

(* A user value that changes, or a value that is dropped, leaves no cached *)
(* value behind that was calculated from that item: nothing stale stays.   *)
Lost(i) == assigned'[i] # assigned[i] \/ \E a \in Attr : <<i, a>> \in cached \ cached'

DropsReaders == \A i \in Item : Lost(i) => \A k \in cached' : \A r \in used'[k] : r[1] # i

NoReaderLeft == [][DropsReaders]_vars
=============================================================================
