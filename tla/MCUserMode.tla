----------------------------- MODULE MCUserMode -----------------------------
(***************************************************************************)
(* The programs that the user mode parts are checked with: threads that    *)
(* set errno, that share thread local variables, the shell, fibers, and    *)
(* one printf.  Each behaviour has one of them, on the same kernel.        *)
(***************************************************************************)
EXTENDS EmulatedTLS, Shell, Fibers, Printf

CONSTANT TLSThreads    \* slots that the program with thread local variables uses

VARIABLE program

userMode == <<tlsVars, shell, fibers, printVars, program>>

MCNumbers == {-12, 0, 9, 10, 127, 2571, 9999}
MCTexts == {<<>>, <<"a", "b", "c", "d">>}
MCWidths == {-1, 0, 3}

\* The thread local variables differ in nothing but their names.
Symmetry == Permutations(Vars)

NothingToPrint ==
    /\ items = <<>> /\ fmt = <<>> /\ args = <<>>
    /\ output = <<>> /\ len = 0 /\ printing = "yes"

NoShell ==
    /\ cmd_line = <<>> /\ pos = 0 /\ parts = <<>> /\ line = <<>>
    /\ frame = [t \in Tids |-> NoFrame]

FirstPort == CHOOSE p \in FiberPorts : TRUE

UserModeInit ==
    /\ TLSInit
    /\ FibersInit
    /\ program \in {"errno", "variables", "shell", "fibers", "print"}
    /\ program # "fibers" => fiber_port = FirstPort
    /\ IF program = "shell" THEN ShellInit ELSE NoShell
    /\ IF program = "print" THEN PrintInit ELSE NothingToPrint

\* No thread of these two has children, and fewer slots are used.
Fewer ==
    /\ UNCHANGED family
    /\ \A t \in Tids : t >= TLSThreads => id'[t] = id[t]

FailingCalls ==
    /\ program = "errno"
    /\ InfoNext
    /\ Fewer
    /\ UNCHANGED <<tls, shell, fibers, printVars, program>>

\* No further than where two updates meet: nothing is claimed of what follows.
Variables ==
    /\ program = "variables"
    /\ ~disturbed
    /\ TLSNext
    /\ Fewer
    /\ UNCHANGED own
    /\ UNCHANGED <<shell, fibers, printVars, program>>

Commands ==
    /\ program = "shell"
    /\ ShellNext
    /\ UNCHANGED <<tls, fibers, printVars, program>>

Switches ==
    /\ program = "fibers"
    /\ FibersNext
    /\ UNCHANGED <<tlsVars, shell, printVars, program>>

Prints ==
    /\ program = "print"
    /\ vprintf
    /\ UNCHANGED <<tlsVars, shell, fibers, program>>

Over == (printing = "done" \/ disturbed) /\ UNCHANGED userMode

UserModeNext == FailingCalls \/ Variables \/ Commands \/ Switches \/ Prints \/ Over

UserModeSpec == UserModeInit /\ [][UserModeNext]_userMode
=============================================================================
