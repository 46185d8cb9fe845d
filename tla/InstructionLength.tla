-------------------------- MODULE InstructionLength --------------------------
(****************************************************************************)
(* MiniDisassembler against the encoding rules of the architecture, one     *)
(* instruction at a time: a preamble that is cut in the middle of an        *)
(* instruction is a crash in the hooked function.                           *)
(****************************************************************************)
EXTENDS MiniDisassembler
CONSTANTS DisModes,      \* builds and prefixes: records [x64, prefix]
          DisModrm,      \* ModR/M bytes
          DisSib         \* SIB bytes
VARIABLES insn,          \* [x64, bytes, skip]: the instruction; skip prefix bytes
          decoded        \* what Disassemble answered, or "no"

disVars == <<insn, decoded>>

\* The reference: the length an instruction has.  op is the opcode byte, two
\* says it follows 0F.

RefModrm(two, op) ==
  IF two THEN op \notin {5, 6, 7, 8, 9, 11} \cup \h30..\h37 \cup {\h77} \cup \h80..\h8F
                        \cup \hA0..\hA2 \cup \hA8..\hAA \cup \hC8..\hCF
  ELSE \/ op < \h40 /\ op % 8 < 4
       \/ op \in {\h62, \h63, \h69, \h6B} \cup \h80..\h8F \cup {\hC0, \hC1} \cup \hC4..\hC7
       \/ op \in \hD0..\hD3 \cup \hD8..\hDF \cup {\hF6, \hF7, \hFE, \hFF}

RefImmediate(two, op, reg, i) ==
  LET v == IF i.prefix = \h66 THEN 2 ELSE 4
  IN IF two THEN CASE op \in \h80..\h8F -> v
                   [] op \in \h70..\h73 \cup {\hA4, \hAC, \hBA, \hC2, \hC4, \hC5, \hC6} -> 1
                   [] OTHER -> 0
     ELSE CASE op < \h40 /\ op % 8 = 4 -> 1
            [] op < \h40 /\ op % 8 = 5 -> v
            [] op \in \hB8..\hBF -> IF i.prefix = \h48 THEN 8 ELSE v
            [] op \in {\h68, \h69, \h81, \hA9, \hC7, \hE8, \hE9} -> v
            [] op \in {\h6A, \h6B, \h80, \h82, \h83, \hA8, \hC0, \hC1, \hC6, \hCD, \hD4, \hD5, \hEB} -> 1
            [] op \in \h70..\h7F \cup \hB0..\hB7 \cup \hE0..\hE7 -> 1
            [] op \in {\hC2, \hCA} -> 2
            [] op = \hC8 -> 3
            [] op \in {\hA0, \hA1, \hA2, \hA3} -> IF i.x64 THEN 8 ELSE 4
            [] op \in {\h9A, \hEA} -> v + 2
            [] op \in {\hF6, \hF7} /\ reg < 2 -> IF op = \hF6 THEN 1 ELSE v
            [] OTHER -> 0

RefDisplacement(mod, rm, base) == CASE mod = 1 -> 1
                                    [] mod = 2 -> 4
                                    [] mod = 0 /\ (rm = 5 \/ (rm = 4 /\ base = 5)) -> 4
                                    [] OTHER -> 0

RefSize(i) ==
  LET two   == i.bytes[i.skip + 1] = \h0F
      opAt  == i.skip + (IF two THEN 2 ELSE 1)
      op    == i.bytes[opAt]
      modrm == i.bytes[opAt + 1]
      mod   == modrm \div 64
      rm    == modrm % 8
  IN opAt + RefImmediate(two, op, (modrm \div 8) % 8, i)
       + (IF ~RefModrm(two, op) THEN 0
          ELSE 1 + (IF mod # 3 /\ rm = 4 THEN 1 ELSE 0) + RefDisplacement(mod, rm, i.bytes[opAt + 2] % 8))

Opcode(i) == IF i.bytes[i.skip + 1] = \h0F THEN <<\h0F, i.bytes[i.skip + 2]>> ELSE <<i.bytes[i.skip + 1]>>

Modrm(i) == i.bytes[Len(i.bytes) - 1]

\* Encodings the architecture does not define: a memory operand where only a
\* register may stand, an SSE2 opcode without its prefix.
Undefined(i) == \/ Opcode(i) \in {<<\h0F, b>> : b \in \h20..\h23 \cup {\hC5, \hD7}} /\ Modrm(i) < \hC0
                \/ Opcode(i) \in {<<\h0F, b>> : b \in {\h6C, \h6D, \hD6, \hE6}} /\ i.prefix # \h66

\* The encodings whose length the disassembler gets wrong: a SIB byte with base
\* 5 and a displacement (counted by the ModR/M map and again by ProcessSib), the
\* moves to and from an absolute address, the far jump and call, the double
\* shifts by CL, fxsave and its group, and a 32-bit move of an immediate behind
\* a REX prefix without W.
KnownWrong(i) ==
  \/ Modrm(i) \div 64 \in {1, 2} /\ Modrm(i) % 8 = 4 /\ i.bytes[Len(i.bytes)] % 8 = 5
  \/ Opcode(i) \in {<<b>> : b \in \hA0..\hA3 \cup {\h9A, \hEA}} \cup {<<\h0F, b>> : b \in {\hA5, \hAD, \hAE}}
  \/ Opcode(i) \in {<<b>> : b \in \hB8..\hBF} /\ i.prefix = \h41

PrefixBytes == {\h0F, \h26, \h2E, \h36, \h3E, \hF0, \hF2, \hF3} \cup \h40..\h4F \cup \h64..\h67

Instructions ==
  {[x64 |-> k.x64, prefix |-> IF k.prefix = <<>> THEN 0 ELSE k.prefix[1], skip |-> Len(k.prefix),
    bytes |-> k.prefix \o o \o <<modrm, sib>>] :
      k \in DisModes, o \in {<<b>> : b \in 0..255 \ PrefixBytes} \cup {<<\h0F, b>> : b \in 0..255},
      modrm \in DisModrm, sib \in DisSib}

Checked(i) == /\ ~Undefined(i)
              /\ ~KnownWrong(i)
              /\ Modrm(i) % 8 # 4 => i.bytes[Len(i.bytes)] = 0

DisInit == /\ insn \in {i \in Instructions : Checked(i)}
           /\ decoded = [type |-> "UNKNOWN", size |-> 0]

DisNext == /\ decoded' = Disassemble(insn.bytes, 1, insn.x64)
           /\ UNCHANGED insn

DisSpec == DisInit /\ [][DisNext]_disVars

==============================================================================
