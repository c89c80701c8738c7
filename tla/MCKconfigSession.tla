-------------------------- MODULE MCKconfigSession --------------------------
(* Small Kconfig trees for KconfigSession.                                 *)
EXTENDS KconfigSession

Mem == Sym("MODULES")
A == Sym("A")
B == Sym("B")
Ch == Sym("CH")

\* A symbol without properties.
Plain(type) ==
    [type |-> type, prompts |-> <<>>, defaults |-> <<>>, ranges |-> <<>>,
     rev |-> N, weak |-> N, direct |-> Y, choice |-> "none"]

Modular == [Plain("bool") EXCEPT !.prompts = <<Y>>]

Kconf(order, sym, env, choices, ch) ==
    [syms |-> order, choices |-> choices,
     type |-> [s \in ToSet(order) |-> sym[s].type],
     prompts |-> [s \in ToSet(order) |-> sym[s].prompts],
     defaults |-> [s \in ToSet(order) |-> sym[s].defaults],
     ranges |-> [s \in ToSet(order) |-> sym[s].ranges],
     rev |-> [s \in ToSet(order) |-> sym[s].rev],
     weak |-> [s \in ToSet(order) |-> sym[s].weak],
     direct |-> [s \in ToSet(order) |-> sym[s].direct],
     choice |-> [s \in ToSet(order) |-> sym[s].choice],
     env |-> env,
     lit |-> [x \in {"0", "2", "5", "7"} |->
                 Num(CASE x = "0" -> 0 [] x = "2" -> 2 [] x = "5" -> 5 [] OTHER -> 7)],
     ctype |-> [c \in ToSet(choices) |-> ch.ctype],
     cprompts |-> [c \in ToSet(choices) |-> ch.cprompts],
     cdefaults |-> [c \in ToSet(choices) |-> ch.cdefaults],
     members |-> [c \in ToSet(choices) |-> ch.members],
     optional |-> [c \in ToSet(choices) |-> ch.optional]]

\* A selects B when it is m and implies it; MODULES is set by the user.
SelectKconf ==
    Kconf(<<"MODULES", "A", "B">>,
          [MODULES |-> Modular,
           A |-> [Plain("tristate") EXCEPT !.prompts = <<Y>>],
           B |-> [Plain("tristate") EXCEPT !.prompts = <<Mem>>, !.direct = Mem,
                                           !.rev = <<"and", A, <<"=", "A", "m">>>>, !.weak = A]],
          {}, <<>>, [ctype |-> "bool"])

\* A tristate choice of two tristate symbols, where B is the default when
\* there are modules.
TristateChoiceKconf ==
    Kconf(<<"MODULES", "A", "B">>,
          [MODULES |-> Modular,
           A |-> [Plain("tristate") EXCEPT !.prompts = <<Ch>>, !.direct = Ch, !.choice = "CH"],
           B |-> [Plain("tristate") EXCEPT !.prompts = <<Ch>>, !.direct = Ch, !.choice = "CH"]],
          {}, <<"CH">>,
          [ctype |-> "tristate", cprompts |-> <<Y>>, cdefaults |-> <<<<"B", Mem>>>>,
           members |-> <<"A", "B">>, optional |-> FALSE])

\* An optional bool choice, and a symbol without a prompt that follows B.
BoolChoiceKconf ==
    Kconf(<<"A", "B", "C">>,
          [A |-> [Plain("bool") EXCEPT !.prompts = <<Ch>>, !.direct = Ch, !.choice = "CH"],
           B |-> [Plain("bool") EXCEPT !.prompts = <<Ch>>, !.direct = Ch, !.choice = "CH"],
           C |-> [Plain("bool") EXCEPT !.defaults = <<<<Y, B>>>>]],
          {}, <<"CH">>,
          [ctype |-> "bool", cprompts |-> <<Y>>, cdefaults |-> <<<<"B", Y>>>>,
           members |-> <<"A", "B">>, optional |-> TRUE])

\* A number with a range that depends on A, and a symbol that compares it.
RangeKconf ==
    Kconf(<<"A", "B", "C">>,
          [A |-> [Plain("bool") EXCEPT !.prompts = <<Y>>],
           B |-> [Plain("int") EXCEPT !.prompts = <<Y>>,
                                      !.defaults = <<<<Sym("7"), A>>>>,
                                      !.ranges = <<<<"2", "5", A>>>>],
           C |-> [Plain("bool") EXCEPT !.prompts = <<<<">=", "B", "5">>>>,
                                       !.direct = <<">=", "B", "5">>]],
          {}, <<>>, [ctype |-> "bool"])

MCKconfigs == {SelectKconf, TristateChoiceKconf, BoolChoiceKconf, RangeKconf}

MCFiles == << <<<<"A", "tri", 1>>, <<"B", "unset", 0>>, <<"Z", "tri", 2>>>> >>

MCAsgRead == {"B", "CH"}

MCInputs(type) ==
    CASE type \in BoolTristate -> 0..2
      [] OTHER -> {Num(2), Num(7), <<2, 1>>}
=============================================================================
