---------------------------- MODULE KconfigData ----------------------------
(***************************************************************************)
(* The symbols and choices of a finalized Kconfig, and their types.        *)
(***************************************************************************)
VARIABLE kconf  \* the finalized Kconfig: what the Kconfig files define
                \* (see Kconfigs in MCKconfigSession for its fields)

Syms == DOMAIN kconf.type     \* unique_defined_syms
ChoiceItems == DOMAIN kconf.ctype  \* unique_choices
Items == Syms \cup ChoiceItems

BoolTristate == {"bool", "tristate"}
IntHex       == {"int", "hex"}

SymType(s)  == IF s \in Syms THEN kconf.type[s]
               ELSE IF s \in {"n", "m", "y"} THEN "tristate" ELSE "unknown"
ChoiceOf(s) == kconf.choice[s]   \* the choice of a symbol, or "none"
=============================================================================
