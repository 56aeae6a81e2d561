----------------------------- MODULE MCCodePage -----------------------------
(***************************************************************************)
(* The files of the code page runs, for AArch64 (with addends).            *)
(***************************************************************************)
EXTENDS CodePage

MCKernelSymbols == [s \in {"yield", "exit"} |-> IF s = "yield" THEN 3 ELSE 5]

Section0 == [named |-> TRUE, alloc |-> TRUE, sh_type |-> SHT_PROGBITS, sh_addr |-> 0,
             sh_size |-> 1, content |-> <<1>>, relocs |-> <<>>]
File0 == [readable |-> TRUE, header |-> HeaderFeatures, e_type |-> "ET_EXEC",
          sections |-> <<Section0>>]
NoSymbol == [readable |-> FALSE, undef |-> FALSE, name |-> "", st_value |-> 0]

\* Linked for the code page: code, data that is not loaded, and .bss.
Fixed == [File0 EXCEPT !.sections =
    <<[Section0 EXCEPT !.sh_addr = CodePageStart, !.sh_size = 2, !.content = <<21, 22>>],
      [Section0 EXCEPT !.alloc = FALSE, !.content = <<29>>],
      [Section0 EXCEPT !.sh_type = SHT_NOBITS, !.sh_addr = CodePageStart + 2, !.content = <<>>]>>]

\* Position independent: the words are code, a pointer into the program, the
\* address of a kernel function, and one of the program's own.
Shared == [File0 EXCEPT !.e_type = "ET_DYN", !.sections =
    <<[Section0 EXCEPT !.sh_size = 4, !.content = <<11, 1, 0, 0>>],
      [Section0 EXCEPT !.alloc = FALSE, !.sh_type = SHT_RELA, !.relocs =
        <<[r_type |-> "RELATIVE", r_offset |-> 1, r_addend |-> 1, has_symbol |-> FALSE,
           symbol |-> NoSymbol],
          [r_type |-> "JUMP_SLOT", r_offset |-> 2, r_addend |-> 0, has_symbol |-> TRUE,
           symbol |-> [NoSymbol EXCEPT !.readable = TRUE, !.undef = TRUE, !.name = "yield"]],
          [r_type |-> "GLOB_DAT", r_offset |-> 3, r_addend |-> 1, has_symbol |-> TRUE,
           symbol |-> [NoSymbol EXCEPT !.readable = TRUE, !.st_value = 0]]>>]>>]

\* Too large for the page by its last section.
TooLarge == [File0 EXCEPT !.sections =
    <<[Section0 EXCEPT !.sh_addr = CodePageStart, !.content = <<31>>],
      [Section0 EXCEPT !.sh_addr = CodePageStart + 3, !.sh_size = 3, !.content = <<32, 33, 34>>]>>]

MCElfs == [f \in Programs |-> CASE f = "fixed" -> Fixed
                                [] f = "shared" -> Shared
                                [] f = "large" -> TooLarge]

\* They are files that a linker makes, which the proof about the page rests on.
ASSUME ElfsAreLinked == \A p \in Programs : Linked(MCElfs[p])
=============================================================================
