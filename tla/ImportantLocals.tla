--------------------------- MODULE ImportantLocals ---------------------------
(***************************************************************************)
(* The locals of a body that depend on an argument worth protecting        *)
(* (important/important.rs, compute.rs).  Which locations of a body depend *)
(* on which arguments is flowistry's answer, the constant Influenced.      *)
(***************************************************************************)
EXTENDS Naturals, Sequences

CONSTANTS
    Constructors,     \* definitions that are constructors
    ClosureDefs,      \* definitions that are closures
    NumArgs,          \* NumArgs[d]: number of arguments of closure d's body
    Mir,              \* definitions whose body was dumped and can be loaded
    Influenced(_, _)  \* what depends on the given arguments of a definition

\* Only assignments, calls, branches and arguments are expected.
CanDepend(def, args) ==
    \A dep \in Influenced(def, args) : dep.kind \in {"Assign", "Call", "SwitchInt", "Arg"}

DependentLocals(def, args) ==
    {dep.local : dep \in {dep \in Influenced(def, args) : dep.kind # "SwitchInt"}}

FromImportantArgs(args, def) == DependentLocals(def, args)

\* Mutant: only an operand that is not important counts.
ImportantArgs_Inverted(locals, operands, def) ==
    IF def \in ClosureDefs THEN 1..(IF Len(operands) = 2 THEN NumArgs[def] ELSE 1)
    ELSE {i \in DOMAIN operands : \A l \in locals : operands[i].place # <<l>>}

\* The callee's arguments to protect.  A closure is called with its
\* environment and a tuple, of which all components are taken; otherwise an
\* operand counts if it is an important local as a whole.
ImportantArgs(locals, operands, def) ==
    IF def \in ClosureDefs THEN 1..(IF Len(operands) = 2 THEN NumArgs[def] ELSE 1)
    ELSE {i \in DOMAIN operands : \E l \in locals : operands[i].place = <<l>>}

CanTransition(locals, operands, def) ==
    def \notin Constructors =>
        /\ def \in ClosureDefs => Len(operands) \in {1, 2}
        /\ def \in Mir => CanDepend(def, ImportantArgs(locals, operands, def))

\* The important locals of a callee.
Transition(locals, operands, def) ==
    LET args == ImportantArgs(locals, operands, def)
    IN  CASE def \in Constructors -> {}
          [] def \in Mir \ Constructors -> DependentLocals(def, args)
          [] OTHER -> args

==============================================================================
