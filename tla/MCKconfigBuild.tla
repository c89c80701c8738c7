--------------------------- MODULE MCKconfigBuild ---------------------------
(* A bool symbol B, a string symbol S that may be kept out of .config, and *)
(* a bool symbol R that the Kconfig files may cease to define and, beyond  *)
(* that, cease to mention.                                                 *)
EXTENDS KconfigBuild

Conf(b, s, syms, defined) ==
    [syms |-> syms, defined |-> defined,
     val |-> [x \in defined |-> CASE x = "B" -> b [] x = "S" -> "text" [] OTHER -> "y"],
     write |-> [x \in defined |-> x # "S" \/ s]]

MCConfigs ==
    {Conf(b, s, {"B", "S"} \cup t[1], {"B", "S"} \cup t[2]) :
        b \in {"n", "y"}, s \in BOOLEAN,
        t \in {<<{"R"}, {"R"}>>, <<{"R"}, {}>>, <<{}, {}>>}}
=============================================================================
