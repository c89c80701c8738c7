------------------------- MODULE KconfigSessionProofs -------------------------
(***************************************************************************)
(* The invalidation of kconfiglib leaves nothing stale, for every set of   *)
(* items, every dependency graph and every way to calculate the values.    *)
(***************************************************************************)
EXTENDS KconfigCache, KconfigUser, SequenceTheorems, TLAPS

TypeInv ==
    /\ dependents \in [Item -> SUBSET Item]
    /\ assigned \in [Item -> UserVal]
    /\ cached \subseteq Cell
    /\ used \in [Cell -> SUBSET Cell]

(* A cached cell belongs to an item with the flag.  The cells it was       *)
(* calculated from are cached too, and their items have the flag and have  *)
(* the cell's item among their dependents, unless they are that item or    *)
(* MODULES.                                                                *)
Flagged ==
    \A k \in cached :
        /\ HasValues(k[1])
        /\ \A r \in used[k] : r \in cached /\ HasValues(r[1]) /\ r[1] \in MayRead(k[1])

IInv == TypeInv /\ Flagged

-----------------------------------------------------------------------------
(* What the walk over the dependents follows is closed under the walk and  *)
(* contains its start: Symbol._rec_invalidate() misses no dependent that   *)
(* has values.                                                             *)
LEMMA FollowedClosed ==
    ASSUME TypeInv, NEW i \in Item
    PROVE  i \in Followed(i) /\ Followed(i) \subseteq Item /\ Closed(Followed(i))
<1>1. i \in Followed(i) /\ Followed(i) \subseteq Item
  BY DEF Followed
<1>2. ASSUME NEW j \in Followed(i), NEW d \in dependents[j], HasValues(d)
      PROVE  d \in Followed(i)
  <2>1. j \in Item /\ d \in Item
    BY <1>1, <1>2 DEF TypeInv
  <2>2. ASSUME NEW S \in SUBSET Item, i \in S, Closed(S)
        PROVE  d \in S
    <3>1. j \in S
      BY <1>2, <2>2 DEF Followed
    <3> QED
      BY <1>2, <2>2, <3>1 DEF Closed
  <2> QED
    BY <2>1, <2>2 DEF Followed
<1> QED
  BY <1>1, <1>2 DEF Closed

(* A cell that survives an invalidation was calculated from nothing that   *)
(* the invalidation reached, and its item keeps its user value.            *)
LEMMA SurvivorsUntouched ==
    ASSUME IInv, NEW i \in Item, NEW k \in cached, k[1] \notin Reached(i)
    PROVE  /\ k[1] \in Item /\ k[1] # i /\ k[1] \notin dependents[i]
           /\ \A r \in used[k] :
                 r[1] \in Item /\ r[1] \notin Reached(i) /\ r[1] # i /\ r[1] \notin dependents[i]
<1>1. k \in Cell /\ k[1] \in Item /\ HasValues(k[1])
  BY DEF IInv, TypeInv, Flagged, Cell
<1>2. Modules \notin Followed(i) /\ Reached(i) = Followed(i)
  BY <1>1 DEF Reached
<1>3. i \in Followed(i) /\ Closed(Followed(i))
  BY FollowedClosed DEF IInv
<1>4. k[1] # i /\ k[1] \notin dependents[i]
  BY <1>1, <1>2, <1>3 DEF Closed
<1>5. ASSUME NEW r \in used[k]
      PROVE  r[1] \in Item /\ r[1] \notin Reached(i) /\ r[1] # i /\ r[1] \notin dependents[i]
  <2>1. r \in Cell /\ r[1] \in Item /\ HasValues(r[1]) /\ r[1] \in MayRead(k[1])
    BY <1>1 DEF IInv, TypeInv, Flagged, Cell
  <2>2. r[1] \notin Followed(i)
    <3>1. SUFFICES ASSUME r[1] \in Followed(i) PROVE FALSE
      OBVIOUS
    <3>2. CASE r[1] = k[1] \/ r[1] = Modules
      BY <1>2, <3>1, <3>2
    <3>3. CASE k[1] \in dependents[r[1]]
      BY <1>1, <1>2, <1>3, <3>1, <3>3 DEF Closed
    <3> QED
      BY <2>1, <3>2, <3>3 DEF MayRead
  <2>3. r[1] # i /\ r[1] \notin dependents[i]
    BY <1>3, <2>1, <2>2 DEF Closed
  <2> QED
    BY <1>2, <2>1, <2>2, <2>3
<1> QED
  BY <1>1, <1>4, <1>5

(* The cells that survive are settled: nothing they were calculated from   *)
(* is dropped or changed.                                                  *)
LEMMA SurvivorsSettled ==
    ASSUME IInv, NEW i \in Item, Change(i)
    PROVE  /\ cached' = {k \in cached : k[1] \notin Reached(i)}
           /\ \A k \in cached' : used'[k] = used[k]
           /\ Settled(cached')
<1>1. cached' = {k \in cached : k[1] \notin Reached(i)}
  BY DEF Change, CellsOf, IInv, TypeInv
<1>2. \A k \in cached' : used'[k] = used[k]
  BY <1>1 DEF Change, IInv, TypeInv
<1>3. ASSUME NEW k \in cached'
      PROVE  used[k] \subseteq cached' /\ assigned'[k[1]] = assigned[k[1]]
  <2>1. k \in cached /\ k[1] \notin Reached(i)
    BY <1>1
  <2>2. assigned'[k[1]] = assigned[k[1]]
    BY <2>1, SurvivorsUntouched DEF Change
  <2>3. ASSUME NEW r \in used[k]
        PROVE  r \in cached'
    <3>1. r \in cached
      BY <2>1 DEF IInv, Flagged
    <3>2. r[1] \notin Reached(i)
      BY <2>1, SurvivorsUntouched
    <3> QED
      BY <1>1, <3>1, <3>2
  <2> QED
    BY <2>2, <2>3
<1> QED
  BY <1>1, <1>2, <1>3 DEF Settled

-----------------------------------------------------------------------------
LEMMA TypeInit == Init => IInv /\ CacheCoherent
BY DEF Init, IInv, TypeInv, Flagged, CacheCoherent

LEMMA CalculateStep ==
    ASSUME IInv, NEW k \in Cell, Calculate(k)
    PROVE  IInv'
<1>1. TypeInv'
  BY DEF IInv, TypeInv, Calculate
<1>2. ASSUME NEW c \in cached'
      PROVE  /\ HasValues(c[1])'
             /\ \A r \in used'[c] : r \in cached' /\ HasValues(r[1])' /\ r[1] \in MayRead(c[1])'
  <2>1. \A j : HasValues(j) => HasValues(j)'
    BY DEF HasValues, Calculate
  <2>2. \A j : MayRead(j)' = MayRead(j)
    BY DEF MayRead, Calculate
  <2>3. CASE c = k
    <3>1. HasValues(k[1])'
      <4>1. CASE k[2] = Vis
        BY <4>1 DEF HasValues, Calculate, Cell
      <4>2. CASE k[2] # Vis
        BY <2>1, <4>2 DEF Calculate
      <4> QED
        BY <4>1, <4>2
    <3>2. ASSUME NEW r \in used'[k]
          PROVE  r \in cached' /\ HasValues(r[1])' /\ r[1] \in MayRead(k[1])'
      BY <2>1, <2>2, <3>1, <3>2 DEF Calculate
    <3> QED
      BY <2>3, <3>1, <3>2
  <2>4. CASE c # k
    <3>1. c \in cached /\ c \in Cell \ {k} /\ used'[c] = used[c] /\ cached \subseteq cached'
      BY <1>2, <2>4 DEF Calculate, IInv, TypeInv
    <3> QED
      BY <2>1, <2>2, <3>1 DEF IInv, Flagged
  <2> QED
    BY <2>3, <2>4
<1> QED
  BY <1>1, <1>2 DEF IInv, Flagged

LEMMA ChangeStep ==
    ASSUME IInv, NEW i \in Item, Change(i)
    PROVE  IInv'
<1>1. TypeInv'
  <2>1. cached' \subseteq Cell
    BY DEF IInv, TypeInv, Change
  <2>2. used' \in [Cell -> SUBSET Cell]
    BY DEF IInv, TypeInv, Change
  <2> QED
    BY <2>1, <2>2 DEF IInv, TypeInv, Change
<1>2. ASSUME NEW k \in cached'
      PROVE  /\ HasValues(k[1])'
             /\ \A r \in used'[k] : r \in cached' /\ HasValues(r[1])' /\ r[1] \in MayRead(k[1])'
  <2>1. k \in cached /\ k[1] \in Item /\ k[1] \notin Reached(i)
    BY SurvivorsSettled DEF Cell, IInv, TypeInv
  <2>2. used'[k] = used[k] /\ used[k] \subseteq cached'
    BY SurvivorsSettled DEF Settled
  <2>3. \A j \in Item \ Reached(i) : HasValues(j) => HasValues(j)'
    BY DEF HasValues, Change, CellsOf
  <2>4. \A j : MayRead(j)' = MayRead(j)
    BY DEF MayRead, Change
  <2>5. HasValues(k[1])'
    BY <2>1, <2>3 DEF IInv, Flagged
  <2>6. ASSUME NEW r \in used'[k]
        PROVE  HasValues(r[1])' /\ r[1] \in MayRead(k[1])'
    <3>1. r[1] \in Item \ Reached(i)
      BY <2>1, <2>2, SurvivorsUntouched
    <3>2. HasValues(r[1]) /\ r[1] \in MayRead(k[1])
      BY <2>1, <2>2 DEF IInv, Flagged
    <3> QED
      BY <2>3, <2>4, <3>1, <3>2
  <2> QED
    BY <2>2, <2>5, <2>6
<1> QED
  BY <1>1, <1>2 DEF IInv, Flagged

LEMMA StutterStep ==
    ASSUME IInv, UNCHANGED vars
    PROVE  IInv'
BY DEF IInv, TypeInv, Flagged, HasValues, MayRead, vars

(* The flag of Symbol._rec_invalidate() is right in every state: a value   *)
(* is cached only while its own item and the items it was calculated from  *)
(* have a cached visibility.                                               *)
THEOREM FlagInvariance == Spec => []IInv
<1>1. Init => IInv
  BY TypeInit
<1>2. IInv /\ [Next]_vars => IInv'
  BY CalculateStep, ChangeStep, StutterStep DEF Next
<1> QED
  BY <1>1, <1>2, PTL DEF Spec

(* Whatever a cached value was calculated from still has its value.        *)
THEOREM InputsStayCached == Spec => []InputsCached
<1>1. IInv => InputsCached
  BY DEF IInv, Flagged, InputsCached
<1> QED
  BY <1>1, FlagInvariance, PTL

(* Whatever the cache of kconfiglib holds is what calculating it anew      *)
(* would give: set_value(), unset_value() and load_config() invalidate     *)
(* enough, although _rec_invalidate() stops at items without a cached      *)
(* visibility.                                                             *)
THEOREM CacheStaysCoherent == Spec => []CacheCoherent
<1>1. Init => CacheCoherent
  BY TypeInit
<1>2. ASSUME IInv, CacheCoherent, [Next]_vars
      PROVE  CacheCoherent'
  <2>1. ASSUME NEW k \in Cell, Calculate(k)
        PROVE  CacheCoherent'
    <3>1. \A r \in used'[k] : value[r] = anew[r]
      BY <1>2, <2>1 DEF Calculate, CacheCoherent
    <3> QED
      BY <1>2, <2>1, <3>1 DEF Calculate, CacheCoherent
  <2>2. ASSUME NEW i \in Item, Change(i)
        PROVE  CacheCoherent'
    <3>1. Settled(cached') /\ cached' \in SUBSET cached
      BY <1>2, <2>2, SurvivorsSettled
    <3>2. \A k \in cached' : anew'[k] = anew[k]
      BY <2>2, <3>1 DEF Change
    <3> QED
      BY <1>2, <2>2, <3>1, <3>2 DEF Change, CacheCoherent
  <2>3. CASE UNCHANGED vars
    BY <1>2, <2>3 DEF CacheCoherent, vars
  <2> QED
    BY <1>2, <2>1, <2>2, <2>3 DEF Next
<1> QED
  BY <1>1, <1>2, FlagInvariance, PTL DEF Spec

(* Setting or unsetting a user value, and dropping a cached value, leave   *)
(* no cached value behind that was calculated from the item concerned:     *)
(* _rec_invalidate() may stop at items without a cached visibility.        *)
THEOREM NothingStaleStays == Spec => NoReaderLeft
<1>1. ASSUME IInv, NEW i \in Item, Change(i)
      PROVE  DropsReaders
  <2>1. SUFFICES ASSUME NEW l \in Item, Lost(l),
                        NEW k \in cached', NEW r \in used'[k], r[1] = l
                 PROVE  FALSE
    BY DEF DropsReaders
  <2>2. k \in cached /\ k[1] \notin Reached(i) /\ used'[k] = used[k]
    BY <1>1, SurvivorsSettled
  <2>3. l \notin Reached(i) /\ l # i /\ l \notin dependents[i]
    BY <1>1, <2>1, <2>2, SurvivorsUntouched
  <2>4. CASE assigned'[l] # assigned[l]
    BY <1>1, <2>3, <2>4 DEF Change
  <2>5. CASE \E a \in Attr : <<l, a>> \in cached \ cached'
    BY <1>1, <2>3, <2>5 DEF Change, CellsOf
  <2> QED
    BY <2>1, <2>4, <2>5 DEF Lost
<1>2. ASSUME IInv, NEW k \in Cell, Calculate(k)
      PROVE  DropsReaders
  BY <1>2 DEF Calculate, Lost, DropsReaders
<1>3. IInv /\ [Next]_vars => [DropsReaders]_vars
  BY <1>1, <1>2 DEF Next
<1> QED
  BY <1>3, FlagInvariance, PTL DEF Spec, NoReaderLeft

-----------------------------------------------------------------------------
(* User values.  A record of them has its four fields, for the symbols and *)
(* choices that there are.                                                 *)
Shaped(u) ==
    /\ u = [val |-> u.val, mode |-> u.mode, sel |-> u.sel, was |-> u.was]
    /\ u.val = [s \in Syms |-> u.val[s]]
    /\ u.mode = [ch \in ChoiceItems |-> u.mode[ch]]
    /\ u.sel = [ch \in ChoiceItems |-> u.sel[ch]]

Good(u) == Shaped(u) /\ Typed(u)

GoodCall(call) ==
    /\ call[1] \in {"set", "mode", "unset", "unsetrest", "forget", "line"}
    /\ call[1] = "set" => call[2] \in Syms
    /\ call[1] = "mode" => call[2] \in ChoiceItems
    /\ call[1] \in {"unset", "unsetrest"} => call[2] \in Items

IsSeq(s) == Len(s) \in Nat /\ s = [i \in 1..Len(s) |-> s[i]]

UserTypeInv ==
    /\ kconf \in Kconfigs
    /\ Good(user) /\ Good(fromFile)
    /\ IsSeq(calls) /\ \A k \in 1..Len(calls) : GoodCall(calls[k])

(* Nothing is set.                                                         *)
Untouched(u, i) == IF i \in Syms THEN u.val[i] = {} ELSE u.mode[i] = {} /\ u.sel[i] = {}

(* What load_config() has set so far is the same in w, which had no user   *)
(* values before it.  Only selections may be left over in u.               *)
SetAlike(u, w) ==
    /\ u.was = w.was
    /\ \A s \in Syms : s \in u.was => u.val[s] = w.val[s] /\ u.val[s] # {}
    /\ \A ch \in ChoiceItems :
          ch \in u.was => u.mode[ch] = w.mode[ch] /\ w.sel[ch] \in {{}, u.sel[ch]}
    /\ \A i \in Items : i \notin u.was => Untouched(w, i)

Forgetting(cs) == cs # <<>> /\ cs[1][1] = "forget"

(* The flags are reset first, and only then.                               *)
ForgetsFirst(cs, u, w) ==
    /\ \A k \in 1..Len(cs) : cs[k][1] = "forget" => k = 1
    /\ IF Forgetting(cs) THEN w = NoUserValues ELSE SetAlike(u, w)

(* A symbol is selected right after the mode of its choice was set.        *)
SelectsInMode(cs, u, w) ==
    \A k \in 1..Len(cs) :
        (cs[k][1] = "set" /\ Selects(cs[k][2], cs[k][3])) =>
            \/ k = 1 /\ u.mode[ChoiceOf(cs[1][2])] = w.mode[ChoiceOf(cs[1][2])]
            \/ k = 2 /\ cs[1] = <<"mode", ChoiceOf(cs[2][2]), 2>>

(* What has not been set is unset, or will be.                             *)
Done(u, i) == i \in u.was \/ Untouched(u, i)

RestUnset(cs, u) ==
    \A i \in Items :
        \/ \E k \in 1..Len(cs) : cs[k] = <<"unsetrest", i>>
        \/ ~Forgetting(cs) /\ Done(u, i)

Loading(cs, u, w) ==
    /\ \A k \in 1..Len(cs) : cs[k][1] # "unset"
    /\ ForgetsFirst(cs, u, w) /\ SelectsInMode(cs, u, w) /\ RestUnset(cs, u)

LoadInv == outcome = "replaced" => Loading(calls, user, fromFile)

UserInv == UserTypeInv /\ LoadInv

-----------------------------------------------------------------------------
(* What the assumption says of the Kconfig at hand.                        *)
LEMMA KconfFacts ==
    ASSUME kconf \in Kconfigs
    PROVE  /\ kconf.syms \in Seq(Syms) /\ kconf.choices \in Seq(ChoiceItems)
           /\ \A s \in Syms : \E k \in 1..Len(kconf.syms) : kconf.syms[k] = s
           /\ \A ch \in ChoiceItems : \E k \in 1..Len(kconf.choices) : kconf.choices[k] = ch
           /\ \A s \in Syms : ChoiceOf(s) # "none" => ChoiceOf(s) \in ChoiceItems
           /\ Syms \cap ChoiceItems = {}
<1>1. /\ kconf.syms \in Seq(Syms) /\ Syms \subseteq ToSet(kconf.syms)
      /\ kconf.choices \in Seq(ChoiceItems) /\ ChoiceItems \subseteq ToSet(kconf.choices)
      /\ kconf.choice \in [Syms -> ChoiceItems \cup {"none"}]
      /\ Syms \cap ChoiceItems = {}
  BY KconfigsAssumption DEF Syms, ChoiceItems
<1>2. /\ DOMAIN kconf.syms = 1..Len(kconf.syms)
      /\ DOMAIN kconf.choices = 1..Len(kconf.choices)
  BY <1>1, LenProperties
<1> QED BY <1>1, <1>2 DEF ToSet, ChoiceOf

LEMMA ExceptKeepsDomain ==
    ASSUME NEW D, NEW f, f = [x \in D |-> f[x]], NEW d, NEW e
    PROVE  [f EXCEPT ![d] = e] = [x \in D |-> [f EXCEPT ![d] = e][x]]
OBVIOUS

(* What set_value() makes of user values, whether it takes the shortcut    *)
(* for a value that is set already or not.                                 *)
LEMMA SetValueIs ==
    ASSUME kconf \in Kconfigs, NEW u, Good(u), NEW s \in Syms, NEW v
    PROVE  LET r == SetValue(u, s, v)
               ch == ChoiceOf(s)
           IN  IF ~ValidFor(SymType(s), v) THEN r = u
               ELSE /\ Shaped(r) /\ r.mode = u.mode
                    /\ r.val = [u.val EXCEPT ![s] = {v}]
                    /\ r.sel = IF Selects(s, v) THEN [u.sel EXCEPT ![ch] = {s}] ELSE u.sel
                    /\ r.was = u.was \cup (IF Selects(s, v) THEN {s, ch} ELSE {s})
<1> DEFINE r == SetValue(u, s, v)
           ch == ChoiceOf(s)
<1>1. u = [val |-> u.val, mode |-> u.mode, sel |-> u.sel, was |-> u.was]
  BY DEF Good, Shaped
<1>2. /\ u.val = [t \in Syms |-> u.val[t]]
      /\ u.mode = [c \in ChoiceItems |-> u.mode[c]]
      /\ u.sel = [c \in ChoiceItems |-> u.sel[c]]
  BY DEF Good, Shaped
<1>3. CASE SameValue(u, s, v)
  <2>1. ValidFor(SymType(s), v)
    BY <1>3 DEF SameValue, Good, Typed
  <2>2. ~Selects(s, v)
    BY <1>3 DEF SameValue, Selects
  <2>3. r = [u EXCEPT !.was = @ \cup {s}]
    BY <1>3 DEF SetValue
  <2>4. r = [val |-> u.val, mode |-> u.mode, sel |-> u.sel, was |-> u.was \cup {s}]
    BY <1>1, <2>3
  <2>5. [u.val EXCEPT ![s] = {v}] = u.val
    BY <1>2, <1>3 DEF SameValue
  <2>6. Shaped(r)
    BY <1>2, <2>4 DEF Shaped
  <2> QED BY <2>1, <2>2, <2>4, <2>5, <2>6
<1>4. CASE ~SameValue(u, s, v) /\ ~ValidFor(SymType(s), v)
  BY <1>4 DEF SetValue
<1>5. CASE ~SameValue(u, s, v) /\ ValidFor(SymType(s), v) /\ Selects(s, v)
  <2>1. r = [u EXCEPT !.val[s] = {v}, !.sel[ch] = {s}, !.was = @ \cup {s, ch}]
    BY <1>5 DEF SetValue
  <2>2. r = [val |-> [u.val EXCEPT ![s] = {v}], mode |-> u.mode,
             sel |-> [u.sel EXCEPT ![ch] = {s}], was |-> u.was \cup {s, ch}]
    BY <1>1, <2>1
  <2>3. Shaped(r)
    <3> HIDE DEF r, ch
    <3>1. r.val = [t \in Syms |-> r.val[t]]
      <4>1. r.val = [u.val EXCEPT ![s] = {v}]
        BY <2>2
      <4> QED BY <1>2, <4>1, ExceptKeepsDomain
    <3>2. r.sel = [c \in ChoiceItems |-> r.sel[c]]
      <4>1. r.sel = [u.sel EXCEPT ![ch] = {s}]
        BY <2>2
      <4> QED BY <1>2, <4>1, ExceptKeepsDomain
    <3> QED BY <1>2, <2>2, <3>1, <3>2 DEF Shaped
  <2> QED BY <1>5, <2>2, <2>3
<1>6. CASE ~SameValue(u, s, v) /\ ValidFor(SymType(s), v) /\ ~Selects(s, v)
  <2>1. r = [u EXCEPT !.val[s] = {v}, !.was = @ \cup {s}]
    BY <1>6 DEF SetValue
  <2>2. r = [val |-> [u.val EXCEPT ![s] = {v}], mode |-> u.mode,
             sel |-> u.sel, was |-> u.was \cup {s}]
    BY <1>1, <2>1
  <2>3. Shaped(r)
    BY <1>2, <2>2 DEF Shaped
  <2> QED BY <1>6, <2>2, <2>3
<1> QED BY <1>3, <1>4, <1>5, <1>6

LEMMA SetModeIs ==
    ASSUME NEW u, Good(u), NEW ch \in ChoiceItems, NEW v
    PROVE  LET r == SetMode(u, ch, v)
           IN  IF ~ValidMode(ch, v) THEN r = u
               ELSE /\ Shaped(r) /\ r.val = u.val /\ r.sel = u.sel
                    /\ r.mode = [u.mode EXCEPT ![ch] = {v}]
                    /\ r.was = u.was \cup {ch}
<1> DEFINE r == SetMode(u, ch, v)
<1>1. u = [val |-> u.val, mode |-> u.mode, sel |-> u.sel, was |-> u.was]
  BY DEF Good, Shaped
<1>2. /\ u.val = [t \in Syms |-> u.val[t]]
      /\ u.mode = [c \in ChoiceItems |-> u.mode[c]]
      /\ u.sel = [c \in ChoiceItems |-> u.sel[c]]
  BY DEF Good, Shaped
<1>3. CASE u.mode[ch] = {v}
  <2>1. ValidMode(ch, v)
    BY <1>3 DEF Good, Typed
  <2>2. r = [u EXCEPT !.was = @ \cup {ch}]
    BY <1>3 DEF SetMode
  <2>3. r = [val |-> u.val, mode |-> u.mode, sel |-> u.sel, was |-> u.was \cup {ch}]
    BY <1>1, <2>2
  <2>4. [u.mode EXCEPT ![ch] = {v}] = u.mode
    BY <1>2, <1>3
  <2>5. Shaped(r)
    BY <1>2, <2>3 DEF Shaped
  <2> QED BY <2>1, <2>3, <2>4, <2>5
<1>4. CASE u.mode[ch] # {v} /\ ~ValidMode(ch, v)
  BY <1>4 DEF SetMode
<1>5. CASE u.mode[ch] # {v} /\ ValidMode(ch, v)
  <2>1. r = [u EXCEPT !.mode[ch] = {v}, !.was = @ \cup {ch}]
    BY <1>5 DEF SetMode
  <2>2. r = [val |-> u.val, mode |-> [u.mode EXCEPT ![ch] = {v}],
             sel |-> u.sel, was |-> u.was \cup {ch}]
    BY <1>1, <2>1
  <2>3. Shaped(r)
    BY <1>2, <2>2 DEF Shaped
  <2> QED BY <1>5, <2>2, <2>3
<1> QED BY <1>3, <1>4, <1>5

LEMMA UnsetIs ==
    ASSUME kconf \in Kconfigs, NEW u, Good(u), NEW i \in Items
    PROVE  LET r == Unset(u, i)
           IN  /\ Shaped(r) /\ r.was = u.was /\ Untouched(r, i)
               /\ \A s \in Syms : s # i => r.val[s] = u.val[s]
               /\ \A ch \in ChoiceItems :
                     ch # i => r.mode[ch] = u.mode[ch] /\ r.sel[ch] = u.sel[ch]
<1> DEFINE r == Unset(u, i)
<1>1. u = [val |-> u.val, mode |-> u.mode, sel |-> u.sel, was |-> u.was]
  BY DEF Good, Shaped
<1>2. /\ u.val = [t \in Syms |-> u.val[t]]
      /\ u.mode = [c \in ChoiceItems |-> u.mode[c]]
      /\ u.sel = [c \in ChoiceItems |-> u.sel[c]]
  BY DEF Good, Shaped
<1>3. CASE i \in Syms
  <2>1. r = [val |-> [u.val EXCEPT ![i] = {}], mode |-> u.mode, sel |-> u.sel, was |-> u.was]
    BY <1>1, <1>3 DEF Unset
  <2>2. Shaped(r)
    BY <1>2, <2>1 DEF Shaped
  <2> QED BY <1>2, <1>3, <2>1, <2>2 DEF Untouched
<1>4. CASE i \in ChoiceItems /\ i \notin Syms
  <2>1. r = [val |-> u.val, mode |-> [u.mode EXCEPT ![i] = {}],
             sel |-> [u.sel EXCEPT ![i] = {}], was |-> u.was]
    BY <1>1, <1>4 DEF Unset
  <2>2. Shaped(r)
    <3>1. r.mode = [c \in ChoiceItems |-> r.mode[c]]
      BY <1>2, <2>1, ExceptKeepsDomain
    <3>2. r.sel = [c \in ChoiceItems |-> r.sel[c]]
      BY <1>2, <2>1, ExceptKeepsDomain
    <3> QED BY <1>2, <2>1, <3>1, <3>2 DEF Shaped
  <2> QED BY <1>2, <1>4, <2>1, <2>2 DEF Untouched
<1> QED BY <1>3, <1>4 DEF Items

-----------------------------------------------------------------------------
(* Calls keep user values typed.                                           *)
LEMMA EffectGood ==
    ASSUME kconf \in Kconfigs, NEW u, Good(u), NEW call, GoodCall(call)
    PROVE  Good(Effect(u, call))
<1> DEFINE r == Effect(u, call)
<1>0. Typed(u)
  BY DEF Good
<1> SUFFICES Good(r)
  OBVIOUS
<1>1. CASE call[1] = "set"
  <2> DEFINE s == call[2]
             v == call[3]
  <2>1. s \in Syms /\ r = SetValue(u, s, v)
    BY <1>1 DEF GoodCall, Effect, Unsets
  <2>2. CASE ~ValidFor(SymType(s), v)
    <3> HIDE DEF r, s, v
    <3>1. r = u
      BY <2>1, <2>2, SetValueIs
    <3> QED BY <3>1
  <2>3. CASE ValidFor(SymType(s), v)
    <3> HIDE DEF r, s, v
    <3>1. /\ Shaped(r) /\ r.mode = u.mode
          /\ r.val = [u.val EXCEPT ![s] = {v}]
          /\ r.sel = IF Selects(s, v) THEN [u.sel EXCEPT ![ChoiceOf(s)] = {s}] ELSE u.sel
          /\ r.was = u.was \cup (IF Selects(s, v) THEN {s, ChoiceOf(s)} ELSE {s})
      BY <2>1, <2>3, SetValueIs
    <3>2. u.val = [t \in Syms |-> u.val[t]] /\ u.sel = [c \in ChoiceItems |-> u.sel[c]]
      BY DEF Good, Shaped
    <3>3. \A t \in Syms : \A x \in r.val[t] : ValidFor(SymType(t), x)
      BY <1>0, <2>3, <3>1, <3>2 DEF Typed
    <3>4. \A c \in ChoiceItems : \A t \in r.sel[c] : t \in Syms /\ ChoiceOf(t) = c
      BY <1>0, <2>1, <3>1, <3>2 DEF Typed
    <3>5. r.was \subseteq Items
      BY <1>0, <2>1, <3>1, KconfFacts DEF Typed, Items, Selects
    <3> QED BY <1>0, <3>1, <3>3, <3>4, <3>5 DEF Good, Typed
  <2> QED BY <2>2, <2>3
<1>2. CASE call[1] = "mode"
  <2> DEFINE ch == call[2]
             v == call[3]
  <2>1. ch \in ChoiceItems /\ r = SetMode(u, ch, v)
    BY <1>2 DEF GoodCall, Effect, Unsets
  <2>2. CASE ~ValidMode(ch, v)
    <3> HIDE DEF r, ch, v
    <3>1. r = u
      BY <2>1, <2>2, SetModeIs
    <3> QED BY <3>1
  <2>3. CASE ValidMode(ch, v)
    <3> HIDE DEF r, ch, v
    <3>1. /\ Shaped(r) /\ r.val = u.val /\ r.sel = u.sel
          /\ r.mode = [u.mode EXCEPT ![ch] = {v}]
          /\ r.was = u.was \cup {ch}
      BY <2>1, <2>3, SetModeIs
    <3>2. u.mode = [c \in ChoiceItems |-> u.mode[c]]
      BY DEF Good, Shaped
    <3>3. \A c \in ChoiceItems : \A x \in r.mode[c] : ValidMode(c, x)
      BY <1>0, <2>3, <3>1, <3>2 DEF Typed
    <3> QED BY <1>0, <2>1, <3>1, <3>3 DEF Good, Typed, Items
  <2> QED BY <2>2, <2>3
<1>3. CASE call[1] = "forget"
  <2>1. r = [u EXCEPT !.was = {}]
    BY <1>3 DEF Effect, Unsets
  <2>2. u = [val |-> u.val, mode |-> u.mode, sel |-> u.sel, was |-> u.was]
    BY DEF Good, Shaped
  <2>3. r = [val |-> u.val, mode |-> u.mode, sel |-> u.sel, was |-> {}]
    BY <2>1, <2>2
  <2>4. Shaped(r)
    BY <2>3 DEF Good, Shaped
  <2> QED BY <1>0, <2>3, <2>4 DEF Good, Typed
<1>4. CASE call[1] \in {"unset", "unsetrest"} /\ Unsets(u, call)
  <2>1. call[2] \in Items /\ r = Unset(u, call[2])
    BY <1>4 DEF GoodCall, Effect
  <2>2. /\ Shaped(r) /\ r.was = u.was /\ Untouched(r, call[2])
        /\ \A s \in Syms : s # call[2] => r.val[s] = u.val[s]
        /\ \A ch \in ChoiceItems :
              ch # call[2] => r.mode[ch] = u.mode[ch] /\ r.sel[ch] = u.sel[ch]
    BY <2>1, UnsetIs
  <2> HIDE DEF r
  <2>3. \A s \in Syms : \A v \in r.val[s] : v \in u.val[s]
    BY <2>2 DEF Untouched
  <2>4. \A ch \in ChoiceItems : r.mode[ch] \subseteq u.mode[ch] /\ r.sel[ch] \subseteq u.sel[ch]
    BY <2>2, KconfFacts DEF Untouched
  <2> QED BY <1>0, <2>2, <2>3, <2>4 DEF Good, Typed
<1>5. CASE call[1] \in {"unset", "unsetrest", "line"} /\ ~Unsets(u, call)
  <2>1. r = u
    BY <1>5 DEF Effect
  <2> QED BY <2>1
<1> QED BY <1>1, <1>2, <1>3, <1>4, <1>5 DEF GoodCall, Unsets

-----------------------------------------------------------------------------
(* Calls of load_config() keep alike what was set, and what is set or      *)
(* untouched stays so.                                                     *)
LEMMA SetKeepsAlike ==
    ASSUME kconf \in Kconfigs, NEW u, NEW w, Good(u), Good(w), SetAlike(u, w),
           NEW s \in Syms, NEW v,
           Selects(s, v) => u.mode[ChoiceOf(s)] = w.mode[ChoiceOf(s)]
    PROVE  /\ SetAlike(SetValue(u, s, v), SetValue(w, s, v))
           /\ \A i \in Items : Done(u, i) => Done(SetValue(u, s, v), i)
<1> DEFINE a == SetValue(u, s, v)
           b == SetValue(w, s, v)
           ch == ChoiceOf(s)
<1>1. CASE ~ValidFor(SymType(s), v)
  BY <1>1, SetValueIs
<1>2. CASE ValidFor(SymType(s), v)
  <2>1. /\ a.mode = u.mode /\ a.val = [u.val EXCEPT ![s] = {v}]
        /\ a.sel = IF Selects(s, v) THEN [u.sel EXCEPT ![ch] = {s}] ELSE u.sel
        /\ a.was = u.was \cup (IF Selects(s, v) THEN {s, ch} ELSE {s})
    BY <1>2, SetValueIs
  <2>2. /\ b.mode = w.mode /\ b.val = [w.val EXCEPT ![s] = {v}]
        /\ b.sel = IF Selects(s, v) THEN [w.sel EXCEPT ![ch] = {s}] ELSE w.sel
        /\ b.was = w.was \cup (IF Selects(s, v) THEN {s, ch} ELSE {s})
    BY <1>2, SetValueIs
  <2>3. /\ u.val = [t \in Syms |-> u.val[t]] /\ u.sel = [c \in ChoiceItems |-> u.sel[c]]
        /\ w.val = [t \in Syms |-> w.val[t]] /\ w.sel = [c \in ChoiceItems |-> w.sel[c]]
    BY DEF Good, Shaped
  <2> HIDE DEF a, b
  <2>4. a.was = b.was /\ u.was \subseteq a.was /\ w.was = u.was
    BY <2>1, <2>2 DEF SetAlike
  <2>5. ASSUME NEW t \in Syms, t \in a.was
        PROVE  a.val[t] = b.val[t] /\ a.val[t] # {}
    <3>1. CASE t = s
      BY <2>1, <2>2, <2>3, <3>1
    <3>2. CASE t # s
      <4>1. Selects(s, v) => t # ch
        BY KconfFacts DEF Selects
      <4>2. t \in u.was
        BY <2>1, <2>5, <3>2, <4>1
      <4> QED BY <2>1, <2>2, <2>3, <3>2, <4>2 DEF SetAlike
    <3> QED BY <3>1, <3>2
  <2>6. ASSUME NEW c \in ChoiceItems, c \in a.was
        PROVE  a.mode[c] = b.mode[c] /\ b.sel[c] \in {{}, a.sel[c]}
    <3>1. c # s
      BY KconfFacts
    <3>2. CASE Selects(s, v) /\ c = ch
      BY <2>1, <2>2, <2>3, <3>2
    <3>3. CASE ~(Selects(s, v) /\ c = ch)
      <4>1. c \in u.was
        BY <2>1, <2>6, <3>1, <3>3
      <4>2. a.sel[c] = u.sel[c] /\ b.sel[c] = w.sel[c]
        BY <2>1, <2>2, <2>3, <3>3
      <4> QED BY <2>1, <2>2, <4>1, <4>2 DEF SetAlike
    <3> QED BY <3>2, <3>3
  <2>7. ASSUME NEW i \in Items, i \notin a.was
        PROVE  Untouched(b, i) /\ (Untouched(u, i) => Untouched(a, i))
    <3>1. i \notin w.was /\ i # s /\ (Selects(s, v) => i # ch)
      BY <2>1, <2>4, <2>7
    <3>2. Untouched(w, i)
      BY <3>1, <2>4, <2>7 DEF SetAlike
    <3>3. \A t \in Syms : t # s => a.val[t] = u.val[t] /\ b.val[t] = w.val[t]
      BY <2>1, <2>2, <2>3
    <3>4. \A c \in ChoiceItems : ~(Selects(s, v) /\ c = ch) => a.sel[c] = u.sel[c] /\ b.sel[c] = w.sel[c]
      BY <2>1, <2>2, <2>3
    <3> QED BY <2>1, <2>2, <3>1, <3>2, <3>3, <3>4 DEF Untouched, Items
  <2>8. SetAlike(a, b)
    BY <2>4, <2>5, <2>6, <2>7 DEF SetAlike
  <2>9. \A i \in Items : Done(u, i) => Done(a, i)
    BY <2>4, <2>7 DEF Done
  <2> QED BY <2>8, <2>9 DEF a, b
<1> QED BY <1>1, <1>2

LEMMA ModeKeepsAlike ==
    ASSUME kconf \in Kconfigs, NEW u, NEW w, Good(u), Good(w), SetAlike(u, w),
           NEW ch \in ChoiceItems, NEW v
    PROVE  /\ SetAlike(SetMode(u, ch, v), SetMode(w, ch, v))
           /\ \A i \in Items : Done(u, i) => Done(SetMode(u, ch, v), i)
           /\ v = 2 => SetMode(u, ch, v).mode[ch] = SetMode(w, ch, v).mode[ch]
<1> DEFINE a == SetMode(u, ch, v)
           b == SetMode(w, ch, v)
<1>1. CASE ~ValidMode(ch, v)
  <2>1. a = u /\ b = w
    BY <1>1, SetModeIs
  <2>2. ASSUME v = 2
        PROVE  u.mode[ch] = {} /\ w.mode[ch] = {}
    <3>1. kconf.ctype[ch] \notin BoolTristate
      <4>1. ValidFor("bool", 2) /\ ValidFor("tristate", 2)
        BY DEF ValidFor, IntHex
      <4> QED BY <1>1, <2>2, <4>1 DEF ValidMode, BoolTristate
    <3>2. \A x : ~ValidMode(ch, x)
      BY <3>1 DEF ValidMode
    <3> QED BY <3>2 DEF Good, Typed
  <2> QED BY <2>1, <2>2
<1>2. CASE ValidMode(ch, v)
  <2>1. /\ a.val = u.val /\ a.sel = u.sel
        /\ a.mode = [u.mode EXCEPT ![ch] = {v}] /\ a.was = u.was \cup {ch}
    BY <1>2, SetModeIs
  <2>2. /\ b.val = w.val /\ b.sel = w.sel
        /\ b.mode = [w.mode EXCEPT ![ch] = {v}] /\ b.was = w.was \cup {ch}
    BY <1>2, SetModeIs
  <2>3. /\ u.mode = [c \in ChoiceItems |-> u.mode[c]]
        /\ w.mode = [c \in ChoiceItems |-> w.mode[c]]
    BY DEF Good, Shaped
  <2> HIDE DEF a, b
  <2>4. /\ a.mode[ch] = {v} /\ b.mode[ch] = {v}
        /\ \A c \in ChoiceItems : c # ch => a.mode[c] = u.mode[c] /\ b.mode[c] = w.mode[c]
    BY <2>1, <2>2, <2>3
  <2>5. a.was = b.was /\ w.was = u.was
    BY <2>1, <2>2 DEF SetAlike
  <2>6. \A t \in Syms : t \in a.was => a.val[t] = b.val[t] /\ a.val[t] # {}
    BY <2>1, <2>2, KconfFacts DEF SetAlike
  <2>7. ASSUME NEW c \in ChoiceItems, c \in a.was
        PROVE  a.mode[c] = b.mode[c] /\ b.sel[c] \in {{}, a.sel[c]}
    <3>1. CASE c \in u.was
      BY <2>1, <2>2, <2>4, <3>1 DEF SetAlike
    <3>2. CASE c \notin u.was
      <4>1. c = ch /\ Untouched(w, c) /\ c \notin Syms
        BY <2>1, <2>7, <3>2, KconfFacts DEF SetAlike, Items
      <4> QED BY <2>2, <2>4, <4>1 DEF Untouched
    <3> QED BY <3>1, <3>2
  <2>8. ASSUME NEW i \in Items, i \notin a.was
        PROVE  Untouched(b, i) /\ (Untouched(u, i) => Untouched(a, i))
    <3>1. i \notin u.was /\ i # ch /\ Untouched(w, i)
      BY <2>1, <2>8 DEF SetAlike
    <3> QED BY <2>1, <2>2, <2>4, <3>1 DEF Untouched, Items
  <2>9. SetAlike(a, b)
    BY <2>5, <2>6, <2>7, <2>8 DEF SetAlike
  <2>10. \A i \in Items : Done(u, i) => Done(a, i)
    BY <2>1, <2>8 DEF Done
  <2> QED BY <2>4, <2>9, <2>10 DEF a, b
<1> QED BY <1>1, <1>2

LEMMA UnsetKeepsAlike ==
    ASSUME kconf \in Kconfigs, NEW u, NEW w, Good(u), Good(w), SetAlike(u, w),
           NEW i \in Items, i \notin u.was
    PROVE  /\ SetAlike(Unset(u, i), Unset(w, i))
           /\ \A j \in Items : Done(u, j) \/ j = i => Done(Unset(u, i), j)
<1> DEFINE a == Unset(u, i)
           b == Unset(w, i)
<1>1. /\ a.was = u.was /\ Untouched(a, i)
      /\ \A s \in Syms : s # i => a.val[s] = u.val[s]
      /\ \A ch \in ChoiceItems : ch # i => a.mode[ch] = u.mode[ch] /\ a.sel[ch] = u.sel[ch]
  BY UnsetIs
<1>2. /\ b.was = w.was /\ Untouched(b, i)
      /\ \A s \in Syms : s # i => b.val[s] = w.val[s]
      /\ \A ch \in ChoiceItems : ch # i => b.mode[ch] = w.mode[ch] /\ b.sel[ch] = w.sel[ch]
  BY UnsetIs
<1> HIDE DEF a, b
<1>3. \A j \in Items : /\ Untouched(u, j) => Untouched(a, j)
                       /\ Untouched(w, j) => Untouched(b, j)
  BY <1>1, <1>2 DEF Untouched, Items
<1>4. SetAlike(a, b)
  BY <1>1, <1>2, <1>3 DEF SetAlike
<1>5. \A j \in Items : Done(u, j) \/ j = i => Done(a, j)
  BY <1>1, <1>3 DEF Done
<1> QED BY <1>4, <1>5 DEF a, b

-----------------------------------------------------------------------------
LEMMA KconfKept ==
    ASSUME UNCHANGED kconf
    PROVE  /\ Syms' = Syms /\ ChoiceItems' = ChoiceItems /\ Items' = Items
           /\ \A s : SymType(s)' = SymType(s) /\ ChoiceOf(s)' = ChoiceOf(s)
           /\ \A ch, v : ValidMode(ch, v)' <=> ValidMode(ch, v)
           /\ \A s, v : Selects(s, v)' <=> Selects(s, v)
           /\ NoUserValues' = NoUserValues
<1>1. Syms' = Syms /\ ChoiceItems' = ChoiceItems
  BY DEF Syms, ChoiceItems
<1>2. Items' = Items
  BY <1>1 DEF Items
<1>3. \A s : SymType(s)' = SymType(s) /\ ChoiceOf(s)' = ChoiceOf(s)
  BY <1>1 DEF SymType, ChoiceOf
<1>4. \A ch, v : ValidMode(ch, v)' <=> ValidMode(ch, v)
  BY DEF ValidMode
<1>5. \A s, v : Selects(s, v)' <=> Selects(s, v)
  BY <1>3 DEF Selects
<1>6. NoUserValues' = NoUserValues
  BY <1>1 DEF NoUserValues
<1> QED BY <1>1, <1>2, <1>3, <1>4, <1>5, <1>6

LEMMA GoodKept ==
    ASSUME UNCHANGED kconf, Good(user'), Good(fromFile')
    PROVE  Good(user)' /\ Good(fromFile)'
<1>1. Shaped(user)' /\ Shaped(fromFile)'
  BY KconfKept DEF Good, Shaped
<1>2. Typed(user)' /\ Typed(fromFile)'
  BY KconfKept DEF Good, Typed
<1> QED BY <1>1, <1>2 DEF Good

LEMMA LoadingKept ==
    ASSUME UNCHANGED kconf, Loading(calls', user', fromFile')
    PROVE  Loading(calls, user, fromFile)'
<1> USE KconfKept
<1>1. \A u, i : Untouched(u, i)' <=> Untouched(u, i)
  BY DEF Untouched
<1>2. \A u, w : SetAlike(u, w)' <=> SetAlike(u, w)
  BY <1>1 DEF SetAlike
<1>3. ForgetsFirst(calls, user, fromFile)'
  BY <1>2 DEF Loading, ForgetsFirst, Forgetting, SetAlike
<1>4. SelectsInMode(calls, user, fromFile)'
  BY DEF Loading, SelectsInMode
<1>5. RestUnset(calls, user)'
  BY <1>1 DEF Loading, RestUnset, Forgetting, Done, Untouched
<1> QED BY <1>3, <1>4, <1>5 DEF Loading

-----------------------------------------------------------------------------
(* Sequences of calls, which have no common type.                          *)
LEMMA IsSeqSeq ==
    ASSUME NEW s, IsSeq(s)
    PROVE  \E S : s \in Seq(S)
<1>1. Len(s) \in Nat /\ s \in [1..Len(s) -> {s[i] : i \in 1..Len(s)}]
  BY DEF IsSeq
<1> QED BY <1>1, SeqDef

LEMMA SeqIsSeq ==
    ASSUME NEW S, NEW s \in Seq(S)
    PROVE  IsSeq(s)
BY LenProperties DEF IsSeq

LEMMA TailIsSeq ==
    ASSUME NEW s, IsSeq(s), s # <<>>
    PROVE  /\ Len(s) >= 1 /\ Head(s) = s[1]
           /\ IsSeq(Tail(s)) /\ Len(Tail(s)) = Len(s) - 1
           /\ \A k \in 1..(Len(s) - 1) : Tail(s)[k] = s[k + 1]
<1>1. PICK S : s \in Seq(S)
  BY IsSeqSeq
<1>2. Len(s) >= 1 /\ Len(s) \in Nat
  BY <1>1, EmptySeq, LenProperties
<1>3. Head(s) = s[1]
  BY <1>1, <1>2, HeadTailProperties
<1>4. /\ Tail(s) \in Seq(S) /\ Len(Tail(s)) = Len(s) - 1
      /\ \A k \in 1..Len(Tail(s)) : Tail(s)[k] = s[k + 1]
  BY <1>1, <1>2, HeadTailProperties
<1> QED BY <1>2, <1>3, <1>4, SeqIsSeq

LEMMA ConcatIsSeq ==
    ASSUME NEW s, NEW t, IsSeq(s), IsSeq(t)
    PROVE  /\ IsSeq(s \o t) /\ Len(s \o t) = Len(s) + Len(t)
           /\ \A k \in 1..Len(s) : (s \o t)[k] = s[k]
           /\ \A k \in 1..Len(t) : (s \o t)[Len(s) + k] = t[k]
           /\ \A k \in 1..(Len(s) + Len(t)) :
                 k > Len(s) => k - Len(s) \in 1..Len(t) /\ (s \o t)[k] = t[k - Len(s)]
<1>1. PICK S : s \in Seq(S)
  BY IsSeqSeq
<1>2. PICK T : t \in Seq(T)
  BY IsSeqSeq
<1>3. s \in Seq(S \cup T) /\ t \in Seq(S \cup T) /\ Len(s) \in Nat /\ Len(t) \in Nat
  BY <1>1, <1>2, SeqDef, LenProperties
<1>4. /\ s \o t \in Seq(S \cup T) /\ Len(s \o t) = Len(s) + Len(t)
      /\ \A k \in 1..(Len(s) + Len(t)) :
            (s \o t)[k] = IF k <= Len(s) THEN s[k] ELSE t[k - Len(s)]
  BY <1>3, ConcatProperties
<1>5. IsSeq(s \o t)
  BY <1>4, SeqIsSeq
<1>6. \A k \in 1..Len(t) : (s \o t)[Len(s) + k] = t[k]
  <2> TAKE k \in 1..Len(t)
  <2>1. Len(s) + k \in 1..(Len(s) + Len(t)) /\ ~(Len(s) + k <= Len(s)) /\ Len(s) + k - Len(s) = k
    BY <1>3
  <2> QED BY <1>4, <2>1
<1> QED BY <1>3, <1>4, <1>5, <1>6

(* unset_values() and the end of load_config() go through all symbols and  *)
(* choices.                                                                *)
LEMMA AllItemsFacts ==
    ASSUME kconf \in Kconfigs, NEW what
    PROVE  /\ IsSeq(AllItems(what))
           /\ \A k \in 1..Len(AllItems(what)) :
                 AllItems(what)[k][1] = what /\ AllItems(what)[k][2] \in Items
           /\ \A i \in Items : \E k \in 1..Len(AllItems(what)) : AllItems(what)[k] = <<what, i>>
<1> DEFINE all == kconf.syms \o kconf.choices
           n == Len(kconf.syms)
           m == Len(kconf.choices)
<1>0. AllItems(what) = [k \in 1..Len(all) |-> <<what, all[k]>>]
  BY DEF AllItems
<1>1. kconf.syms \in Seq(Syms) /\ kconf.choices \in Seq(ChoiceItems)
  BY KconfFacts
<1>2. IsSeq(kconf.syms) /\ IsSeq(kconf.choices) /\ n \in Nat /\ m \in Nat
  BY <1>1, SeqIsSeq, LenProperties
<1>3. /\ Len(all) = n + m /\ \A k \in 1..n : all[k] = kconf.syms[k]
      /\ \A k \in 1..m : all[n + k] = kconf.choices[k]
      /\ \A k \in 1..(n + m) : k > n => k - n \in 1..m /\ all[k] = kconf.choices[k - n]
  <2> DEFINE p == kconf.syms
             q == kconf.choices
  <2>1. IsSeq(p) /\ IsSeq(q)
    BY <1>2
  <2> HIDE DEF p, q
  <2>2. /\ Len(p \o q) = Len(p) + Len(q)
        /\ \A k \in 1..Len(p) : (p \o q)[k] = p[k]
        /\ \A k \in 1..Len(q) : (p \o q)[Len(p) + k] = q[k]
        /\ \A k \in 1..(Len(p) + Len(q)) :
              k > Len(p) => k - Len(p) \in 1..Len(q) /\ (p \o q)[k] = q[k - Len(p)]
    BY ONLY <2>1, ConcatIsSeq
  <2> QED BY <2>2 DEF p, q
<1> HIDE DEF all, n, m
<1>4. \A k \in 1..Len(all) : all[k] \in Items
  <2> TAKE k \in 1..Len(all)
  <2>1. CASE k <= n
    <3>1. all[k] = kconf.syms[k] /\ kconf.syms[k] \in Syms
      BY <1>1, <1>2, <1>3, <2>1, ElementOfSeq DEF n
    <3> QED BY <3>1 DEF Items
  <2>2. CASE k > n
    <3>1. k - n \in 1..m /\ all[k] = kconf.choices[k - n]
      BY <1>2, <1>3, <2>2
    <3>2. kconf.choices[k - n] \in ChoiceItems
      BY <1>1, <3>1, ElementOfSeq DEF m
    <3> QED BY <3>1, <3>2 DEF Items
  <2> QED BY <1>2, <1>3, <2>1, <2>2
<1>5. \A i \in Items : \E k \in 1..Len(all) : all[k] = i
  <2> TAKE i \in Items
  <2>1. CASE i \in Syms
    <3>1. PICK k \in 1..n : kconf.syms[k] = i
      BY <2>1, KconfFacts DEF n
    <3> QED BY <1>2, <1>3, <3>1
  <2>2. CASE i \in ChoiceItems
    <3>1. PICK k \in 1..m : kconf.choices[k] = i
      BY <2>2, KconfFacts DEF m
    <3>2. n + k \in 1..Len(all) /\ all[n + k] = i
      BY <1>2, <1>3, <3>1
    <3> QED BY <3>2
  <2> QED BY <2>1, <2>2 DEF Items
<1>6. AllItems(what) = [k \in 1..Len(all) |-> <<what, all[k]>>] /\ Len(all) \in Nat
  BY <1>0, <1>2, <1>3
<1>7. AllItems(what) \in Seq({<<what, i>> : i \in Items})
  BY <1>4, <1>6, SeqDef
<1>8. Len(AllItems(what)) = Len(all)
  BY <1>6, <1>7, LenProperties
<1>9. \A k \in 1..Len(all) : AllItems(what)[k] = <<what, all[k]>>
  BY <1>6
<1> QED BY <1>4, <1>5, <1>7, <1>8, <1>9, SeqIsSeq

LEMMA LinesFacts ==
    ASSUME NEW f \in DOMAIN Files
    PROVE  /\ IsSeq(Lines(Files[f])) /\ Len(Lines(Files[f])) = Len(Files[f])
           /\ \A k \in 1..Len(Lines(Files[f])) : Lines(Files[f])[k][1] = "line"
<1> DEFINE ls == Files[f]
<1>1. Len(ls) \in Nat
  BY FilesAssumption
<1>2. Lines(ls) = [i \in 1..Len(ls) |-> <<"line", ls[i]>>]
  BY DEF Lines
<1> HIDE DEF ls
<1>3. Lines(ls) \in Seq({<<"line", ls[i]>> : i \in 1..Len(ls)})
  BY <1>1, <1>2, SeqDef
<1>4. Len(Lines(ls)) = Len(ls)
  BY <1>1, <1>2, <1>3, LenProperties
<1>5. IsSeq(Lines(ls))
  BY <1>3, SeqIsSeq
<1>6. \A k \in 1..Len(ls) : Lines(ls)[k][1] = "line"
  BY <1>2
<1> QED BY <1>4, <1>5, <1>6 DEF ls

(* load_config() with replace: flags are reset, lines are read, the rest   *)
(* is unset.                                                               *)
LEMMA LoadCallsFacts ==
    ASSUME kconf \in Kconfigs, NEW f \in DOMAIN Files, NEW cs, cs = LoadCalls(Files[f], TRUE)
    PROVE  /\ IsSeq(cs) /\ Len(cs) >= 1 /\ cs[1] = <<"forget">>
           /\ \A k \in 1..Len(cs) : k # 1 =>
                 cs[k][1] = "line" \/ (cs[k][1] = "unsetrest" /\ cs[k][2] \in Items)
           /\ \A i \in Items : \E k \in 1..Len(cs) : cs[k] = <<"unsetrest", i>>
<1> DEFINE a == << <<"forget">> >>
           b == Lines(Files[f])
           c == AllItems("unsetrest")
           ab == a \o b
<1>1. IsSeq(a) /\ Len(a) = 1 /\ a[1] = <<"forget">>
  BY DEF IsSeq
<1>2. IsSeq(b) /\ \A k \in 1..Len(b) : b[k][1] = "line"
  BY LinesFacts
<1>3. /\ IsSeq(c) /\ \A k \in 1..Len(c) : c[k][1] = "unsetrest" /\ c[k][2] \in Items
      /\ \A i \in Items : \E k \in 1..Len(c) : c[k] = <<"unsetrest", i>>
  BY AllItemsFacts
<1>4. cs = ab \o c
  BY DEF LoadCalls
<1> HIDE DEF a, b, c
<1>5. /\ IsSeq(ab) /\ Len(ab) = Len(a) + Len(b)
      /\ \A k \in 1..Len(a) : ab[k] = a[k]
      /\ \A k \in 1..(Len(a) + Len(b)) : k > Len(a) => k - Len(a) \in 1..Len(b) /\ ab[k] = b[k - Len(a)]
  BY ONLY <1>1, <1>2, ConcatIsSeq
<1> HIDE DEF ab
<1>6. /\ IsSeq(cs) /\ Len(cs) = Len(ab) + Len(c)
      /\ \A k \in 1..Len(ab) : cs[k] = ab[k]
      /\ \A k \in 1..Len(c) : cs[Len(ab) + k] = c[k]
      /\ \A k \in 1..(Len(ab) + Len(c)) : k > Len(ab) => k - Len(ab) \in 1..Len(c) /\ cs[k] = c[k - Len(ab)]
  BY ONLY <1>3, <1>4, <1>5, ConcatIsSeq
<1>7. /\ Len(b) \in Nat /\ Len(c) \in Nat /\ Len(ab) \in Nat /\ Len(ab) = 1 + Len(b)
      /\ Len(cs) \in Nat /\ Len(cs) = Len(ab) + Len(c)
  BY <1>1, <1>2, <1>3, <1>5, <1>6 DEF IsSeq
<1>8. Len(cs) >= 1 /\ cs[1] = <<"forget">>
  <2>1. 1 \in 1..Len(a) /\ 1 \in 1..Len(ab) /\ Len(cs) >= 1
    BY ONLY <1>1, <1>7
  <2>2. cs[1] = ab[1] /\ ab[1] = a[1]
    BY ONLY <2>1, <1>5, <1>6
  <2> QED BY ONLY <1>1, <2>1, <2>2
<1>9. ASSUME NEW k \in 1..Len(cs), k # 1
      PROVE  cs[k][1] = "line" \/ (cs[k][1] = "unsetrest" /\ cs[k][2] \in Items)
  <2>1. CASE k <= Len(ab)
    <3>1. k \in 1..Len(ab) /\ k \in 1..(Len(a) + Len(b)) /\ k > Len(a)
      BY ONLY <1>1, <1>7, <1>9, <2>1
    <3>2. cs[k] = ab[k] /\ k - Len(a) \in 1..Len(b) /\ ab[k] = b[k - Len(a)]
      BY ONLY <1>5, <1>6, <3>1
    <3> QED BY ONLY <1>2, <3>2
  <2>2. CASE k > Len(ab)
    <3>1. k - Len(ab) \in 1..Len(c) /\ cs[k] = c[k - Len(ab)]
      BY <1>6, <2>2
    <3> QED BY <1>3, <3>1
  <2>3. k <= Len(ab) \/ k > Len(ab)
    BY ONLY <1>7, <1>9
  <2> QED BY ONLY <2>1, <2>2, <2>3
<1>10. ASSUME NEW i \in Items
       PROVE  \E k \in 1..Len(cs) : cs[k] = <<"unsetrest", i>>
  <2>1. PICK k \in 1..Len(c) : c[k] = <<"unsetrest", i>>
    BY <1>3
  <2>2. Len(ab) + k \in 1..Len(cs)
    BY ONLY <1>7, <2>1
  <2>3. cs[Len(ab) + k] = c[k]
    BY ONLY <1>6, <2>1
  <2> QED BY ONLY <2>1, <2>2, <2>3
<1> QED BY <1>6, <1>8, <1>9, <1>10

(* A line sets a symbol, after the mode of its choice when it selects it.  *)
LEMMA LineCallsFacts ==
    ASSUME kconf \in Kconfigs, NEW line, NEW lc, lc = LineCalls(line)
    PROVE  /\ IsSeq(lc)
           /\ \A k \in 1..Len(lc) :
                 /\ GoodCall(lc[k]) /\ lc[k][1] \in {"set", "mode"}
                 /\ (lc[k][1] = "set" /\ Selects(lc[k][2], lc[k][3])) =>
                       k = 2 /\ lc[1] = <<"mode", ChoiceOf(lc[2][2]), 2>>
<1> DEFINE s == line[1]
           v == IF line[2] = "unset" THEN 0 ELSE line[3]
           set == <<"set", s, v>>
           mode == <<"mode", ChoiceOf(s), v>>
           sets == /\ s \in Syms
                   /\ (line[2] = "str") <=> (SymType(s) \notin BoolTristate)
                   /\ line[2] # "str" => ValidFor(SymType(s), v)
           both == line[2] # "str" /\ ChoiceOf(s) # "none" /\ v # 0
<1>2. CASE ~sets
  <2>1. lc = <<>>
    BY <1>2 DEF LineCalls
  <2> QED BY <2>1 DEF IsSeq
<1>3. CASE sets /\ both
  <2>1. lc = <<mode, set>>
    BY <1>3 DEF LineCalls
  <2>2. GoodCall(set) /\ GoodCall(mode)
    BY <1>3, KconfFacts DEF GoodCall
  <2>3. Selects(s, v) => mode = <<"mode", ChoiceOf(s), 2>>
    BY DEF Selects
  <2>4. IsSeq(lc) /\ Len(lc) = 2 /\ lc[1] = mode /\ lc[2] = set
    BY <2>1 DEF IsSeq
  <2>5. set[1] = "set" /\ set[2] = s /\ set[3] = v /\ mode[1] = "mode"
    OBVIOUS
  <2> HIDE DEF set, mode, s, v
  <2>6. \A k \in 1..2 : k = 1 \/ k = 2
    OBVIOUS
  <2> QED BY <2>2, <2>3, <2>4, <2>5, <2>6
<1>4. CASE sets /\ ~both
  <2>1. lc = <<set>>
    BY <1>4 DEF LineCalls
  <2>2. GoodCall(set)
    BY <1>4 DEF GoodCall
  <2>3. ~Selects(s, v)
    BY <1>4 DEF Selects
  <2>4. IsSeq(lc) /\ Len(lc) = 1 /\ lc[1] = set
    BY <2>1 DEF IsSeq
  <2>5. set[1] = "set" /\ set[2] = s /\ set[3] = v
    OBVIOUS
  <2> HIDE DEF set, s, v
  <2> QED BY <2>2, <2>3, <2>4, <2>5
<1> QED BY <1>2, <1>3, <1>4

-----------------------------------------------------------------------------
LEMMA NoUserValuesGood ==
    /\ Good(NoUserValues)
    /\ NoUserValues.was = {} /\ \A i \in Items : Untouched(NoUserValues, i)
<1> DEFINE e == NoUserValues
<1>1. e = [val |-> [s \in Syms |-> {}], mode |-> [ch \in ChoiceItems |-> {}],
           sel |-> [ch \in ChoiceItems |-> {}], was |-> {}]
  BY DEF NoUserValues
<1> HIDE DEF e
<1>2. Shaped(e)
  BY <1>1 DEF Shaped
<1>3. Typed(e)
  BY <1>1 DEF Typed
<1>4. \A i \in Items : Untouched(e, i)
  BY <1>1 DEF Untouched, Items
<1> QED BY <1>1, <1>2, <1>3, <1>4 DEF Good, e

(* What a step has to show.                                                *)
LEMMA UserInvAfter ==
    ASSUME kconf \in Kconfigs, UNCHANGED kconf, Good(user'), Good(fromFile'),
           IsSeq(calls'), \A k \in 1..Len(calls') : GoodCall(calls'[k]),
           outcome' = "replaced" => Loading(calls', user', fromFile')
    PROVE  UserInv'
<1>1. Good(user)' /\ Good(fromFile)'
  BY GoodKept
<1>2. (\A k \in 1..Len(calls) : GoodCall(calls[k]))'
  BY KconfKept DEF GoodCall
<1>3. LoadInv'
  BY LoadingKept DEF LoadInv
<1>4. IsSeq(calls)'
  BY DEF IsSeq
<1> QED BY <1>1, <1>2, <1>3, <1>4 DEF UserInv, UserTypeInv

LEMMA CallStep ==
    ASSUME UserInv, NEW call, GoodCall(call), Call(call)
    PROVE  UserInv'
<1>1. Good(user')
  BY EffectGood DEF UserInv, UserTypeInv, Call
<1>2. Good(fromFile')
  BY NoUserValuesGood DEF Call
<1>3. calls' = calls /\ kconf' = kconf /\ outcome' = "none"
  BY DEF Call
<1> QED BY <1>1, <1>2, <1>3, UserInvAfter DEF UserInv, UserTypeInv

LEMMA BeginUnsetStep ==
    ASSUME UserInv, BeginUnset
    PROVE  UserInv'
<1>1. Good(user') /\ Good(fromFile')
  BY NoUserValuesGood DEF UserInv, UserTypeInv, BeginUnset
<1>2. calls' = AllItems("unset") /\ kconf' = kconf /\ outcome' = "none" /\ kconf \in Kconfigs
  BY DEF BeginUnset, UserInv, UserTypeInv
<1>3. IsSeq(calls') /\ \A k \in 1..Len(calls') : GoodCall(calls'[k])
  BY <1>2, AllItemsFacts DEF GoodCall
<1> QED BY <1>1, <1>2, <1>3, UserInvAfter

LEMMA BeginLoadStep ==
    ASSUME UserInv, NEW f \in DOMAIN Files, NEW replace \in BOOLEAN, BeginLoad(f, replace)
    PROVE  UserInv'
<1>1. Good(user') /\ Good(fromFile')
  BY NoUserValuesGood DEF UserInv, UserTypeInv, BeginLoad
<1>2. kconf' = kconf /\ kconf \in Kconfigs
  BY DEF BeginLoad, UserInv, UserTypeInv
<1>3. CASE replace
  <2> DEFINE cs == calls'
  <2>1. cs = LoadCalls(Files[f], TRUE) /\ fromFile' = NoUserValues
    BY <1>3 DEF BeginLoad
  <2>2. /\ IsSeq(cs) /\ Len(cs) >= 1 /\ cs[1] = <<"forget">>
        /\ \A k \in 1..Len(cs) : k # 1 =>
              cs[k][1] = "line" \/ (cs[k][1] = "unsetrest" /\ cs[k][2] \in Items)
        /\ \A i \in Items : \E k \in 1..Len(cs) : cs[k] = <<"unsetrest", i>>
    BY <1>2, <2>1, LoadCallsFacts
  <2> HIDE DEF cs
  <2>3. \A k \in 1..Len(cs) : GoodCall(cs[k])
    BY <2>2 DEF GoodCall
  <2>4. \A k \in 1..Len(cs) : cs[k][1] \in {"forget", "line", "unsetrest"}
    BY <2>2
  <2>5. Forgetting(cs)
    BY <2>2 DEF Forgetting
  <2>6. Loading(cs, user', fromFile')
    BY <2>1, <2>2, <2>4, <2>5 DEF Loading, ForgetsFirst, SelectsInMode, RestUnset
  <2> QED BY <1>1, <1>2, <2>2, <2>3, <2>6, UserInvAfter DEF cs
<1>4. CASE ~replace
  <2>1. calls' = Lines(Files[f]) /\ outcome' = "none"
    BY <1>4 DEF BeginLoad, LoadCalls
  <2>2. IsSeq(calls') /\ \A k \in 1..Len(calls') : GoodCall(calls'[k])
    BY <2>1, LinesFacts DEF GoodCall
  <2> QED BY <1>1, <1>2, <2>1, <2>2, UserInvAfter
<1> QED BY <1>3, <1>4

(* What comes after the first of the calls of a load.                      *)
LEMMA LaterCalls ==
    ASSUME UserInv, calls # <<>>, outcome = "replaced"
    PROVE  \A k \in 1..Len(calls) : k # 1 =>
               /\ calls[k][1] \notin {"forget", "unset"}
               /\ (calls[k][1] = "set" /\ Selects(calls[k][2], calls[k][3])) =>
                     k = 2 /\ calls[1] = <<"mode", ChoiceOf(calls[2][2]), 2>>
BY DEF UserInv, LoadInv, Loading, ForgetsFirst, SelectsInMode

LEMMA ReadConfLineStep ==
    ASSUME UserInv, ReadConfLine
    PROVE  UserInv'
<1> DEFINE lc == LineCalls(Head(calls)[2])
           rest == Tail(calls)
           n == Len(lc)
           cs == calls'
<1>1. /\ kconf \in Kconfigs /\ Good(user) /\ Good(fromFile)
      /\ IsSeq(calls) /\ \A k \in 1..Len(calls) : GoodCall(calls[k])
  BY DEF UserInv, UserTypeInv
<1>2. /\ calls # <<>> /\ cs = lc \o rest
      /\ kconf' = kconf /\ user' = user /\ fromFile' = fromFile /\ outcome' = outcome
  BY DEF ReadConfLine
<1>3. /\ Len(calls) >= 1 /\ Len(calls) \in Nat
      /\ IsSeq(rest) /\ Len(rest) = Len(calls) - 1
      /\ \A k \in 1..(Len(calls) - 1) : rest[k] = calls[k + 1]
  BY <1>1, <1>2, TailIsSeq DEF IsSeq
<1>4. calls[1][1] = "line"
  BY <1>1, <1>2, TailIsSeq DEF ReadConfLine
<1>5. /\ IsSeq(lc)
      /\ \A k \in 1..n :
            /\ GoodCall(lc[k]) /\ lc[k][1] \in {"set", "mode"}
            /\ (lc[k][1] = "set" /\ Selects(lc[k][2], lc[k][3])) =>
                  k = 2 /\ lc[1] = <<"mode", ChoiceOf(lc[2][2]), 2>>
  BY <1>1, LineCallsFacts
<1> HIDE DEF lc, rest, cs
<1>6. /\ IsSeq(cs) /\ Len(cs) = n + Len(rest)
      /\ \A k \in 1..n : cs[k] = lc[k]
      /\ \A k \in 1..Len(rest) : cs[n + k] = rest[k]
      /\ \A k \in 1..(n + Len(rest)) : k > n => k - n \in 1..Len(rest) /\ cs[k] = rest[k - n]
  <2>1. cs = lc \o rest /\ IsSeq(lc) /\ IsSeq(rest)
    BY ONLY <1>2, <1>3, <1>5
  <2>2. /\ IsSeq(lc \o rest) /\ Len(lc \o rest) = Len(lc) + Len(rest)
        /\ \A k \in 1..Len(lc) : (lc \o rest)[k] = lc[k]
        /\ \A k \in 1..Len(rest) : (lc \o rest)[Len(lc) + k] = rest[k]
        /\ \A k \in 1..(Len(lc) + Len(rest)) :
              k > Len(lc) => k - Len(lc) \in 1..Len(rest) /\ (lc \o rest)[k] = rest[k - Len(lc)]
    BY ONLY <2>1, ConcatIsSeq
  <2> QED BY ONLY <2>1, <2>2 DEF n
<1> HIDE DEF n
<1>7. n \in Nat /\ Len(cs) = n + Len(calls) - 1
  <2>1. n \in Nat
    BY ONLY <1>5 DEF IsSeq, n
  <2> QED BY ONLY <1>3, <1>6, <2>1
<1>8. ASSUME NEW k \in 1..Len(cs)
      PROVE  \/ k <= n /\ k \in 1..n /\ cs[k] = lc[k]
             \/ \E j \in 2..Len(calls) : k = n + j - 1 /\ cs[k] = calls[j]
  <2>1. CASE k <= n
    BY ONLY <1>6, <1>7, <1>8, <2>1
  <2>2. CASE k > n
    <3>1. k - n \in 1..Len(rest) /\ cs[k] = rest[k - n]
      BY ONLY <1>6, <1>8, <2>2
    <3>2. k - n \in 1..(Len(calls) - 1) /\ k - n + 1 \in 2..Len(calls) /\ k = n + (k - n + 1) - 1
      BY ONLY <1>3, <1>7, <1>8, <3>1
    <3>3. cs[k] = calls[k - n + 1]
      BY ONLY <1>3, <3>1, <3>2
    <3> QED BY ONLY <3>2, <3>3
  <2> QED BY ONLY <1>7, <1>8, <2>1, <2>2
<1>9. \A k \in 1..Len(cs) : GoodCall(cs[k])
  <2> TAKE k \in 1..Len(cs)
  <2>1. CASE k \in 1..n /\ cs[k] = lc[k]
    BY ONLY <1>5, <2>1 DEF n
  <2>2. CASE \E j \in 2..Len(calls) : cs[k] = calls[j]
    <3>1. PICK j \in 2..Len(calls) : cs[k] = calls[j]
      BY <2>2
    <3>2. j \in 1..Len(calls)
      BY ONLY <1>3, <3>1
    <3> QED BY ONLY <1>1, <3>1, <3>2
  <2> QED BY <1>8, <2>1, <2>2
<1>10. ASSUME outcome = "replaced"
       PROVE  Loading(cs, user, fromFile)
  <2>1. /\ SetAlike(user, fromFile) /\ ~Forgetting(calls) /\ RestUnset(calls, user)
    BY <1>4, <1>10 DEF UserInv, LoadInv, Loading, ForgetsFirst, Forgetting
  <2>2. ASSUME NEW k \in 1..Len(cs)
        PROVE  /\ cs[k][1] \notin {"forget", "unset"}
               /\ (cs[k][1] = "set" /\ Selects(cs[k][2], cs[k][3])) =>
                      k = 2 /\ cs[1] = <<"mode", ChoiceOf(cs[2][2]), 2>>
    <3>1. CASE k <= n /\ k \in 1..n /\ cs[k] = lc[k]
      <4>1. lc[k][1] \in {"set", "mode"}
        BY ONLY <1>5, <3>1 DEF n
      <4>2. ASSUME cs[k][1] = "set" /\ Selects(cs[k][2], cs[k][3])
            PROVE  k = 2 /\ cs[1] = <<"mode", ChoiceOf(cs[2][2]), 2>>
        <5>1. k = 2 /\ lc[1] = <<"mode", ChoiceOf(lc[2][2]), 2>>
          BY ONLY <1>5, <3>1, <4>2 DEF n
        <5>2. 1 \in 1..n
          BY ONLY <1>7, <3>1
        <5>3. cs[1] = lc[1] /\ cs[2] = lc[2]
          BY ONLY <1>6, <3>1, <5>1, <5>2
        <5> QED BY ONLY <5>1, <5>3
      <4> QED BY <3>1, <4>1, <4>2
    <3>2. CASE \E j \in 2..Len(calls) : cs[k] = calls[j]
      <4>1. PICK j \in 2..Len(calls) : cs[k] = calls[j]
        BY <3>2
      <4>2. j \in 1..Len(calls) /\ j # 1
        BY ONLY <1>3, <4>1
      <4>3. /\ calls[j][1] \notin {"forget", "unset"}
            /\ (calls[j][1] = "set" /\ Selects(calls[j][2], calls[j][3])) =>
                   calls[1] = <<"mode", ChoiceOf(calls[2][2]), 2>>
        BY <1>2, <1>10, <4>2, LaterCalls
      <4>4. calls[1] # <<"mode", ChoiceOf(calls[2][2]), 2>>
        BY <1>4
      <4> QED BY ONLY <4>1, <4>3, <4>4
    <3> QED BY <1>8, <3>1, <3>2
  <2>3. ~Forgetting(cs)
    <3>1. SUFFICES ASSUME cs # <<>> PROVE cs[1][1] # "forget"
      BY DEF Forgetting
    <3>2. 1 \in 1..Len(cs)
      BY <1>6, <3>1, TailIsSeq DEF IsSeq
    <3> QED BY <2>2, <3>2
  <2>4. RestUnset(cs, user)
    <3>1. SUFFICES ASSUME NEW i \in Items
                   PROVE  (\E k \in 1..Len(cs) : cs[k] = <<"unsetrest", i>>) \/ Done(user, i)
      BY <2>3 DEF RestUnset
    <3>2. CASE \E k \in 1..Len(calls) : calls[k] = <<"unsetrest", i>>
      <4>1. PICK k \in 1..Len(calls) : calls[k] = <<"unsetrest", i>>
        BY <3>2
      <4>2. k # 1
        BY <1>4, <4>1
      <4>3. k - 1 \in 1..(Len(calls) - 1) /\ n + (k - 1) \in 1..Len(cs) /\ k - 1 + 1 = k
        BY ONLY <1>3, <1>7, <4>1, <4>2
      <4>4. cs[n + (k - 1)] = calls[k]
        BY ONLY <1>3, <1>6, <4>3
      <4> QED BY ONLY <4>1, <4>3, <4>4
    <3> QED BY <2>1, <3>2 DEF RestUnset
  <2> QED BY <2>1, <2>2, <2>3, <2>4 DEF Loading, ForgetsFirst, SelectsInMode
<1> QED BY <1>1, <1>2, <1>6, <1>9, <1>10, UserInvAfter DEF cs

(* One call of a load, on what it is applied to and on a fresh instance.   *)
LEMMA LoadingCall ==
    ASSUME kconf \in Kconfigs, NEW u, NEW w, Good(u), Good(w), SetAlike(u, w),
           NEW call, GoodCall(call), call[1] \in {"set", "mode", "unsetrest"},
           (call[1] = "set" /\ Selects(call[2], call[3])) =>
               u.mode[ChoiceOf(call[2])] = w.mode[ChoiceOf(call[2])]
    PROVE  /\ SetAlike(Effect(u, call), Effect(w, call))
           /\ \A i \in Items : Done(u, i) => Done(Effect(u, call), i)
           /\ \A i \in Items : call = <<"unsetrest", i>> => Done(Effect(u, call), i)
           /\ \A ch \in ChoiceItems : call = <<"mode", ch, 2>> =>
                 Effect(u, call).mode[ch] = Effect(w, call).mode[ch]
<1>1. CASE call[1] = "set"
  <2>1. /\ Effect(u, call) = SetValue(u, call[2], call[3])
        /\ Effect(w, call) = SetValue(w, call[2], call[3])
        /\ call[2] \in Syms
    BY <1>1 DEF Effect, Unsets, GoodCall
  <2>2. \A i, ch : call # <<"unsetrest", i>> /\ call # <<"mode", ch, 2>>
    BY <1>1
  <2> QED BY <1>1, <2>1, <2>2, SetKeepsAlike
<1>2. CASE call[1] = "mode"
  <2>1. /\ Effect(u, call) = SetMode(u, call[2], call[3])
        /\ Effect(w, call) = SetMode(w, call[2], call[3])
        /\ call[2] \in ChoiceItems
    BY <1>2 DEF Effect, Unsets, GoodCall
  <2>2. \A i : call # <<"unsetrest", i>>
    BY <1>2
  <2>3. \A ch : call = <<"mode", ch, 2>> => call[2] = ch /\ call[3] = 2
    OBVIOUS
  <2> QED BY <2>1, <2>2, <2>3, ModeKeepsAlike
<1>3. CASE call[1] = "unsetrest" /\ call[2] \in u.was
  <2>1. Effect(u, call) = u /\ Effect(w, call) = w
    BY <1>3 DEF Effect, Unsets, SetAlike
  <2>2. \A ch : call # <<"mode", ch, 2>>
    BY <1>3
  <2>3. \A i : call = <<"unsetrest", i>> => call[2] = i
    OBVIOUS
  <2> QED BY <1>3, <2>1, <2>2, <2>3 DEF Done
<1>4. CASE call[1] = "unsetrest" /\ call[2] \notin u.was
  <2>1. /\ Effect(u, call) = Unset(u, call[2]) /\ Effect(w, call) = Unset(w, call[2])
        /\ call[2] \in Items
    BY <1>4 DEF Effect, Unsets, SetAlike, GoodCall
  <2>2. \A ch : call # <<"mode", ch, 2>>
    BY <1>4
  <2>3. \A i : call = <<"unsetrest", i>> => call[2] = i
    OBVIOUS
  <2> QED BY <1>4, <2>1, <2>2, <2>3, UnsetKeepsAlike
<1> QED BY <1>1, <1>2, <1>3, <1>4

LEMMA NextCallStep ==
    ASSUME UserInv, NextCall
    PROVE  UserInv'
<1> DEFINE call == calls[1]
           cs == calls'
           u == user'
           w == fromFile'
<1>1. /\ kconf \in Kconfigs /\ Good(user) /\ Good(fromFile)
      /\ IsSeq(calls) /\ \A k \in 1..Len(calls) : GoodCall(calls[k])
  BY DEF UserInv, UserTypeInv
<1>2. calls # <<>> /\ kconf' = kconf /\ outcome' = outcome
  BY DEF NextCall
<1>3. /\ Len(calls) >= 1 /\ Len(calls) \in Nat /\ Head(calls) = call
      /\ IsSeq(cs) /\ Len(cs) = Len(calls) - 1
      /\ \A k \in 1..(Len(calls) - 1) : cs[k] = calls[k + 1]
  BY <1>1, <1>2, TailIsSeq DEF NextCall, IsSeq
<1>4. /\ GoodCall(call) /\ call[1] # "line"
      /\ u = Effect(user, call)
      /\ w = IF outcome = "replaced" THEN Effect(fromFile, call) ELSE fromFile
  <2>1. 1 \in 1..Len(calls)
    BY ONLY <1>3
  <2> QED BY <1>1, <1>3, <2>1 DEF NextCall
<1>5. Good(u) /\ Good(w)
  BY <1>1, <1>4, EffectGood
<1> HIDE DEF call, cs, u, w
<1>6. \A k \in 1..Len(cs) : k + 1 \in 1..Len(calls) /\ k + 1 # 1 /\ cs[k] = calls[k + 1]
  BY ONLY <1>3
<1>7. \A k \in 1..Len(cs) : GoodCall(cs[k])
  BY ONLY <1>1, <1>6
<1>8. ASSUME outcome = "replaced"
      PROVE  Loading(cs, u, w)
  <2>1. Loading(calls, user, fromFile)
    BY <1>8 DEF UserInv, LoadInv
  <2>2. \A k \in 1..Len(cs) :
           /\ cs[k][1] \notin {"forget", "unset"}
           /\ (cs[k][1] = "set" /\ Selects(cs[k][2], cs[k][3])) =>
                  k = 1 /\ call = <<"mode", ChoiceOf(cs[1][2]), 2>>
    <3> TAKE k \in 1..Len(cs)
    <3>1. k + 1 \in 1..Len(calls) /\ k + 1 # 1 /\ cs[k] = calls[k + 1]
      BY ONLY <1>6
    <3>2. /\ calls[k + 1][1] \notin {"forget", "unset"}
          /\ (calls[k + 1][1] = "set" /\ Selects(calls[k + 1][2], calls[k + 1][3])) =>
                k + 1 = 2 /\ calls[1] = <<"mode", ChoiceOf(calls[2][2]), 2>>
      BY <1>2, <1>8, <3>1, LaterCalls
    <3>3. k \in Int
      OBVIOUS
    <3>4. k + 1 = 2 => k = 1 /\ cs[1] = calls[2]
      BY ONLY <3>1, <3>3
    <3> QED BY ONLY <3>1, <3>2, <3>4 DEF call
  <2>3. ~Forgetting(cs)
    <3>1. SUFFICES ASSUME cs # <<>> PROVE cs[1][1] # "forget"
      BY DEF Forgetting
    <3>2. 1 \in 1..Len(cs)
      BY <1>3, <3>1, TailIsSeq DEF IsSeq
    <3> QED BY <2>2, <3>2
  <2>4. ASSUME NEW i \in Items, NEW k \in 1..Len(calls), calls[k] = <<"unsetrest", i>>,
               call # <<"unsetrest", i>>
        PROVE  \E j \in 1..Len(cs) : cs[j] = <<"unsetrest", i>>
    <3>1. k # 1
      BY <2>4 DEF call
    <3>2. k - 1 \in 1..Len(cs) /\ k - 1 \in 1..(Len(calls) - 1) /\ k - 1 + 1 = k
      BY ONLY <1>3, <2>4, <3>1
    <3>3. cs[k - 1] = <<"unsetrest", i>>
      BY ONLY <1>3, <2>4, <3>2
    <3> QED BY <3>2, <3>3
  <2>5. CASE call[1] = "forget"
    <3>1. fromFile = NoUserValues /\ Forgetting(calls)
      BY <1>2, <2>1, <2>5 DEF Loading, ForgetsFirst, Forgetting, call
    <3>2. u = [user EXCEPT !.was = {}] /\ w = [fromFile EXCEPT !.was = {}]
      BY <1>4, <1>8, <2>5 DEF Effect, Unsets
    <3>3. /\ user = [val |-> user.val, mode |-> user.mode, sel |-> user.sel, was |-> user.was]
          /\ fromFile = [val |-> fromFile.val, mode |-> fromFile.mode,
                         sel |-> fromFile.sel, was |-> fromFile.was]
      BY <1>1 DEF Good, Shaped
    <3>4. u.was = {} /\ w.was = {}
      BY <3>2, <3>3
    <3>5. w = fromFile
      BY <3>1, <3>2, <3>3, NoUserValuesGood
    <3>6. SetAlike(u, w)
      BY <3>1, <3>4, <3>5, NoUserValuesGood DEF SetAlike
    <3>7. \A k \in 1..Len(cs) : ~(cs[k][1] = "set" /\ Selects(cs[k][2], cs[k][3]))
      BY <2>2, <2>5
    <3>8. RestUnset(cs, u)
      <4>1. SUFFICES ASSUME NEW i \in Items
                     PROVE  \E k \in 1..Len(cs) : cs[k] = <<"unsetrest", i>>
        BY DEF RestUnset
      <4>2. PICK k \in 1..Len(calls) : calls[k] = <<"unsetrest", i>>
        BY <2>1, <3>1 DEF Loading, RestUnset
      <4>3. call # <<"unsetrest", i>>
        BY <2>5
      <4> QED BY <2>4, <4>2, <4>3
    <3> QED BY <2>2, <2>3, <3>6, <3>7, <3>8 DEF Loading, ForgetsFirst, SelectsInMode
  <2>6. CASE call[1] # "forget"
    <3>1. SetAlike(user, fromFile) /\ ~Forgetting(calls)
      BY <2>1, <2>6 DEF Loading, ForgetsFirst, Forgetting, call
    <3>2. 1 \in 1..Len(calls)
      BY ONLY <1>3
    <3>3. call[1] \in {"set", "mode", "unsetrest"}
      BY <1>4, <2>1, <2>6, <3>2 DEF Loading, GoodCall, call
    <3>4. (call[1] = "set" /\ Selects(call[2], call[3])) =>
              user.mode[ChoiceOf(call[2])] = fromFile.mode[ChoiceOf(call[2])]
      BY <2>1, <3>2 DEF Loading, SelectsInMode, call
    <3>5. u = Effect(user, call) /\ w = Effect(fromFile, call)
      BY <1>4, <1>8
    <3>6. /\ SetAlike(u, w)
          /\ \A i \in Items : Done(user, i) => Done(u, i)
          /\ \A i \in Items : call = <<"unsetrest", i>> => Done(u, i)
          /\ \A ch \in ChoiceItems : call = <<"mode", ch, 2>> => u.mode[ch] = w.mode[ch]
      BY <1>1, <1>4, <3>1, <3>3, <3>4, <3>5, LoadingCall
    <3>7. SelectsInMode(cs, u, w)
      <4>1. SUFFICES ASSUME NEW k \in 1..Len(cs), cs[k][1] = "set", Selects(cs[k][2], cs[k][3])
                     PROVE  k = 1 /\ u.mode[ChoiceOf(cs[1][2])] = w.mode[ChoiceOf(cs[1][2])]
        BY DEF SelectsInMode
      <4>2. k = 1 /\ call = <<"mode", ChoiceOf(cs[1][2]), 2>>
        BY <2>2, <4>1
      <4>3. ChoiceOf(cs[1][2]) \in ChoiceItems
        BY <1>1, <1>7, <4>1, <4>2, KconfFacts DEF GoodCall, Selects
      <4> QED BY <3>6, <4>2, <4>3
    <3>8. RestUnset(cs, u)
      <4>1. SUFFICES ASSUME NEW i \in Items
                     PROVE  (\E k \in 1..Len(cs) : cs[k] = <<"unsetrest", i>>) \/ Done(u, i)
        BY <2>3 DEF RestUnset
      <4>2. (\E k \in 1..Len(calls) : calls[k] = <<"unsetrest", i>>) \/ Done(user, i)
        BY <2>1 DEF Loading, RestUnset
      <4>3. CASE \E k \in 1..Len(calls) : calls[k] = <<"unsetrest", i>>
        BY <2>4, <3>6, <4>3
      <4> QED BY <3>6, <4>2, <4>3
    <3> QED BY <2>2, <2>3, <3>6, <3>7, <3>8 DEF Loading, ForgetsFirst
  <2> QED BY <2>5, <2>6
<1> QED BY <1>1, <1>2, <1>3, <1>5, <1>7, <1>8, UserInvAfter DEF cs, u, w

LEMMA RaiseKeyErrorStep ==
    ASSUME UserInv, RaiseKeyError
    PROVE  UserInv'
<1>1. calls' = <<>> /\ outcome' = "raised" /\ kconf' = kconf
  BY DEF RaiseKeyError
<1>2. IsSeq(calls') /\ Len(calls') = 0
  BY <1>1 DEF IsSeq
<1>3. Good(user') /\ Good(fromFile') /\ kconf \in Kconfigs
  BY DEF RaiseKeyError, UserInv, UserTypeInv
<1> QED BY <1>1, <1>2, <1>3, UserInvAfter

LEMMA UserInitInv == UserInit => UserInv
<1> SUFFICES ASSUME UserInit PROVE UserInv
  OBVIOUS
<1>1. calls = <<>> /\ outcome = "none" /\ kconf \in Kconfigs
  BY DEF UserInit
<1>2. IsSeq(calls) /\ Len(calls) = 0
  BY <1>1 DEF IsSeq
<1>3. Good(user) /\ Good(fromFile)
  BY NoUserValuesGood DEF UserInit
<1> QED BY <1>1, <1>2, <1>3 DEF UserInv, UserTypeInv, LoadInv

LEMMA UserNextInv == UserInv /\ [UserNext]_userVars => UserInv'
<1> SUFFICES ASSUME UserInv, [UserNext]_userVars PROVE UserInv'
  OBVIOUS
<1>1. ASSUME NEW s \in Syms, NEW v, Call(<<"set", s, v>>) PROVE UserInv'
  <2>1. GoodCall(<<"set", s, v>>)
    BY DEF GoodCall
  <2> QED BY <1>1, <2>1, CallStep
<1>2. ASSUME NEW ch \in ChoiceItems, NEW v, Call(<<"mode", ch, v>>) PROVE UserInv'
  <2>1. GoodCall(<<"mode", ch, v>>)
    BY DEF GoodCall
  <2> QED BY <1>2, <2>1, CallStep
<1>3. ASSUME NEW i \in Items, Call(<<"unset", i>>) PROVE UserInv'
  <2>1. GoodCall(<<"unset", i>>)
    BY DEF GoodCall
  <2> QED BY <1>3, <2>1, CallStep
<1>4. CASE UNCHANGED userVars
  <2>1. /\ kconf' = kconf /\ user' = user /\ calls' = calls /\ outcome' = outcome
        /\ fromFile' = fromFile
    BY <1>4 DEF userVars
  <2> QED BY <2>1, UserInvAfter DEF UserInv, UserTypeInv, LoadInv
<1> QED BY <1>1, <1>2, <1>3, <1>4, BeginUnsetStep, BeginLoadStep, ReadConfLineStep,
           NextCallStep, RaiseKeyErrorStep DEF UserNext

-----------------------------------------------------------------------------
(* The inductive invariant of the user values: while load_config()         *)
(* replaces a configuration, what it has set so far is what it sets in a   *)
(* fresh instance, and whatever it has not set is unset or will be.        *)
THEOREM UserInvariance == UserSpec => []UserInv
BY UserInitInv, UserNextInv, PTL DEF UserSpec

(* Every user value fits the type of its symbol or choice: set_value()     *)
(* relies on it when it takes a value that is set already for valid.       *)
THEOREM UserValuesTyped == UserSpec => []UserTyped
<1>1. UserInv => UserTyped
  BY DEF UserInv, UserTypeInv, Good, UserTyped
<1> QED BY <1>1, UserInvariance, PTL

(* load_config() with replace ends with the values and modes that the file *)
(* sets in a fresh instance and with the selections it makes, and never    *)
(* with an exception, for every Kconfig, every file and every history.     *)
THEOREM ReplacingSetsValues == UserSpec => []ReplaceSetsValues
<1>1. ASSUME UserInv, outcome = "replaced", calls = <<>>
      PROVE  SetByFile
  <2>1. ~Forgetting(calls) /\ Len(calls) = 0
    BY <1>1 DEF Forgetting
  <2>2. SetAlike(user, fromFile) /\ \A i \in Items : Done(user, i)
    BY <1>1, <2>1 DEF UserInv, LoadInv, Loading, ForgetsFirst, RestUnset
  <2>3. \A s \in Syms : user.val[s] = fromFile.val[s]
    BY <2>2 DEF SetAlike, Done, Untouched, Items
  <2>4. \A ch \in ChoiceItems : /\ user.mode[ch] = fromFile.mode[ch]
                                /\ fromFile.sel[ch] \in {{}, user.sel[ch]}
    BY <1>1, <2>2, KconfFacts DEF SetAlike, Done, Untouched, Items, UserInv, UserTypeInv
  <2>5. /\ user.val = [s \in Syms |-> user.val[s]]
        /\ fromFile.val = [s \in Syms |-> fromFile.val[s]]
        /\ user.mode = [ch \in ChoiceItems |-> user.mode[ch]]
        /\ fromFile.mode = [ch \in ChoiceItems |-> fromFile.mode[ch]]
    BY <1>1 DEF UserInv, UserTypeInv, Good, Shaped
  <2>6. user.val = fromFile.val
    BY <2>3, <2>5
  <2>7. user.mode = fromFile.mode
    BY <2>4, <2>5
  <2> QED BY <2>4, <2>6, <2>7 DEF SetByFile
<1>2. ASSUME UserInv, outcome = "replaced", calls # <<>>
      PROVE  ~OldValueMissing(Head(calls))
  <2>1. 1 \in 1..Len(calls) /\ Head(calls) = calls[1]
    BY <1>2, TailIsSeq DEF UserInv, UserTypeInv, IsSeq
  <2>2. CASE calls[1][1] = "set"
    <3>1. SetAlike(user, fromFile)
      BY <1>2, <2>2 DEF UserInv, LoadInv, Loading, ForgetsFirst, Forgetting
    <3>2. calls[1][2] \in Syms
      BY <1>2, <2>1, <2>2 DEF UserInv, UserTypeInv, GoodCall
    <3> QED BY <2>1, <3>1, <3>2 DEF SetAlike, OldValueMissing
  <2>3. CASE calls[1][1] # "set"
    BY <2>1, <2>3 DEF OldValueMissing
  <2> QED BY <2>2, <2>3
<1>3. UserInv => ReplaceSetsValues
  BY <1>1, <1>2 DEF ReplaceSetsValues
<1> QED BY <1>3, UserInvariance, PTL
=============================================================================
