--------------------------- MODULE RegisterFrames ---------------------------
(***************************************************************************)
(* How each port saves and restores the registers of a thread              *)
(* (src/hw/*/yield.S) and how C sees what is saved (the RegisterContext of *)
(* src/include/port/*.h).  The code of yield.S is a sequence of pushes,    *)
(* pops and moves on a machine that has registers and a stack.  It has no  *)
(* branches, so what it does is worked out once, on the names of the       *)
(* registers.                                                              *)
(***************************************************************************)
EXTENDS Integers, Sequences, SequencesExt

AllPorts == {"aarch64", "arm", "thumb"}

\* A register is its number.  These have none: the program counter, the status
\* words, the link and status registers of the exception modes.
LR == 14
PC == 31
FPSR == 32
PSR == 33
ELR == 40
SPSR == 41
IRQ_ELR == 42
IRQ_SPSR == 43

UserRegisters ==
    [p \in AllPorts |-> IF p = "aarch64" THEN 0 .. 30 \cup {PC, FPSR, PSR}
                                         ELSE 0 .. 12 \cup {LR, PC, PSR}]
ExceptionRegisters == {ELR, SPSR, IRQ_ELR, IRQ_SPSR}
AllRegisters == [p \in AllPorts |-> UserRegisters[p] \cup ExceptionRegisters]

\* The fields of the structs, lowest address first.
RegisterContextAArch64 ==
    <<29, 30, 27, 28, 25, 26, 23, 24, 21, 22, 19, 20, 17, 18, 15, 16, 13, 14,
      11, 12, 9, 10, 7, 8, 5, 6, 3, 4, PC, 2, FPSR, PSR, 0, 1>>
RegisterContextArm == <<0, 1, 2, 3, 4, 5, 6, 7, 8, 9, 10, 11, 12, LR, PC, PSR>>

RegisterContextThumb == <<4, 5, 6, 7, 8, 9, 10, 11, 0, 1, 2, 3, 12, LR, PC, PSR>>

RegisterContext ==
    [p \in AllPorts |-> CASE p = "aarch64" -> RegisterContextAArch64
                          [] p = "arm" -> RegisterContextArm
                          [] p = "thumb" -> RegisterContextThumb]

\* The field of a register in the struct.
Field ==
    [p \in AllPorts |-> [r \in UserRegisters[p] |->
        CHOOSE i \in DOMAIN RegisterContext[p] : RegisterContext[p][i] = r]]

\* The word that handle_exception of arm and thumb reads as the address of the
\* instruction after the svc: [sp, #14*4].
SvcAddressWord == 15

----------------------------------------------------------------------------
(* The machine.                                                            *)

Push(rs) == [do |-> "push", of |-> rs]
Pop(rs) == [do |-> "pop", of |-> rs]
Move(to, from) == [do |-> "move", of |-> <<to, from>>]

\* push and pop have the first register of the list at the lowest address.
Execute(machine, step) ==
    LET rs == step.of
    IN  CASE step.do = "push" ->
                [machine EXCEPT !.stack = [i \in DOMAIN rs |-> machine.regs[rs[i]]] \o @]
          [] step.do = "pop" ->
                [regs |-> [r \in DOMAIN machine.regs |->
                              IF r \in ToSet(rs)
                              THEN machine.stack[CHOOSE i \in DOMAIN rs : rs[i] = r]
                              ELSE machine.regs[r]],
                 stack |-> SubSeq(machine.stack, Len(rs) + 1, Len(machine.stack))]
          [] step.do = "move" -> [machine EXCEPT !.regs[rs[1]] = machine.regs[rs[2]]]

Run(machine, steps) == FoldLeft(Execute, machine, steps)

----------------------------------------------------------------------------
(* The code.                                                               *)

\* What the processor pushes and pops itself on thumb.
HardwareFrame == <<0, 1, 2, 3, 12, LR, PC, PSR>>

\* What the processor does at an exception, "svc" or "irq".
Exception(p, kind) ==
    CASE p = "thumb" -> <<Push(HardwareFrame)>>
      [] p = "arm" /\ kind = "irq" -> <<Move(IRQ_ELR, PC), Move(IRQ_SPSR, PSR)>>
      [] OTHER -> <<Move(ELR, PC), Move(SPSR, PSR)>>

\* handle_timer of arm goes on in supervisor mode and takes lr along.
HandlerEntry(p, kind) ==
    IF p = "arm" /\ kind = "irq" THEN <<Move(ELR, IRQ_ELR)>> ELSE <<>>

Pairs == [i \in 1 .. 14 |-> <<2 * i + 1, 2 * i + 2>>]
NoSpNoPc == <<0, 1, 2, 3, 4, 5, 6, 7, 8, 9, 10, 11, 12, LR>>
CalleeSaved == <<4, 5, 6, 7, 8, 9, 10, 11>>

SaveAArch64 ==
    <<Push(<<0, 1>>), Move(0, FPSR), Move(1, SPSR), Push(<<0, 1>>),
      Move(1, ELR), Push(<<1, 2>>)>> \o [i \in 1 .. 14 |-> Push(Pairs[i])]

SAVE_CURRENT_THREAD(p) ==
    CASE p = "aarch64" -> SaveAArch64
      [] p = "arm" -> <<Push(<<ELR, SPSR>>), Push(NoSpNoPc)>>
      [] p = "thumb" -> <<Push(CalleeSaved)>>

RestoreAArch64 ==
    [i \in 1 .. 14 |-> Pop(Pairs[15 - i])] \o
    <<Pop(<<1, 2>>), Move(ELR, 1), Pop(<<0, 1>>), Move(FPSR, 0), Move(SPSR, 1),
      Pop(<<0, 1>>), Move(PC, ELR), Move(PSR, SPSR)>>

\* The end of load_next_thread, with what the exception return does.
RestoreRegisters(p) ==
    CASE p = "aarch64" -> RestoreAArch64
      [] p = "arm" -> <<Pop(NoSpNoPc), Pop(<<PC, PSR>>)>>
      [] p = "thumb" -> <<Pop(CalleeSaved), Pop(HardwareFrame)>>

\* load_first_thread of thumb cannot return from an exception.  It branches to
\* thread_start, and what the processor would have popped stays on the stack.
RestoreFirst(p) == IF p = "thumb" THEN <<Pop(CalleeSaved)>> ELSE RestoreRegisters(p)

----------------------------------------------------------------------------
(* What it does: which register's value is in each word that is pushed and *)
(* in each exception register, and what each register is loaded from.      *)

Word(i) == 100 + i
IsWord(n) == n > 100
Itself(p) == [r \in AllRegisters[p] |-> r]

Saves ==
    [p \in AllPorts |-> [kind \in {"svc", "irq"} |->
        Run([regs |-> Itself(p), stack |-> <<>>],
            Exception(p, kind) \o HandlerEntry(p, kind) \o SAVE_CURRENT_THREAD(p))]]

Loads(p, steps) ==
    Run([regs |-> Itself(p), stack |-> [i \in DOMAIN RegisterContext[p] |-> Word(i)]], steps)

Restores == [p \in AllPorts |-> Loads(p, RestoreRegisters(p))]
FirstRestores == [p \in AllPorts |-> Loads(p, RestoreFirst(p))]

\* What the code comes to on each port, as TLC works it out: it pushes and pops
\* the RegisterContext of the port, but for the timer interrupt of arm, which
\* pushes the status of the wrong mode, and for the first thread of thumb,
\* which starts with the processor's half of its context still on its stack.
\* It has no parameter: evaluating it decides it.
FramesMatch ==
    \A p \in AllPorts :
        LET context == RegisterContext[p]
        IN  /\ \A kind \in {"svc", "irq"} :
                  ~(p = "arm" /\ kind = "irq") => Saves[p][kind].stack = context
            /\ Restores[p].stack = <<>>
            /\ \A i \in DOMAIN context : Restores[p].regs[context[i]] = Word(i)
            /\ IF p # "thumb" THEN FirstRestores[p] = Restores[p]
               ELSE /\ FirstRestores[p].regs[PC] = PC
                    /\ Len(FirstRestores[p].stack) = Len(HardwareFrame)

ASSUME FramesAssumption == FramesMatch
=============================================================================
