-------------------------- MODULE MiniDisassembler --------------------------
(****************************************************************************)
(* sidestep::MiniDisassembler (src/windows/mini_disassembler.cc): how long  *)
(* an instruction is and whether it is a jump or a return, which is all the *)
(* preamble patcher asks.  `code' maps an address to a byte.                *)
(****************************************************************************)
EXTENDS OpcodeMap

\* Initialize(): the state of a fresh decoding.
Initialize(x64) == [x64 |-> x64, op32 |-> TRUE, addr32 |-> TRUE, op64 |-> FALSE,
                    f2 |-> FALSE, f3 |-> FALSE, p66 |-> FALSE]

Bit(byte, n) == (byte \div 2^n) % 2 = 1

\* One prefix byte; the last test is `(*start_byte) & 0x48'.
TakePrefix(m, byte, type) ==
  [m EXCEPT !.addr32 = @ /\ type # "PREFIX_ADDRESS",
            !.op32 = @ /\ type # "PREFIX_OPERAND",
            !.f2 = @ \/ byte = \hF2, !.f3 = @ \/ byte = \hF3, !.p66 = @ \/ byte = \h66,
            !.op64 = @ \/ (m.x64 /\ byte \notin {\hF2, \hF3, \h66} /\ (Bit(byte, 3) \/ Bit(byte, 6)))]

RECURSIVE ProcessPrefixes(_, _, _)
ProcessPrefixes(code, at, m) ==
  LET type == s_ia32_opcode_map_(0, code[at], m).type
  IN IF type \in {"PREFIX", "PREFIX_OPERAND", "PREFIX_ADDRESS"}
     THEN ProcessPrefixes(code, at + 1, TakePrefix(m, code[at], type))
     ELSE [at |-> at, m |-> m]

\* ProcessOperand(): the bytes an immediate of operand type `ot' takes.
OperandBytes(ot, m) == CASE ot = "B" -> 1
                         [] ot = "W" -> 2
                         [] ot = "V64" /\ m.op64 -> 8
                         [] OTHER -> IF m.op32 THEN 4 ELSE 2

ImmediateBytes(imm, m) == IF imm = <<>> THEN 0
                          ELSE OperandBytes(imm[1], m) + (IF Len(imm) = 2 THEN OperandBytes(imm[2], m) ELSE 0)


\* ProcessSib(): the SIB byte, and a displacement when its base field is 5.
ProcessSib(byte, mod) == 1 + (IF byte % 8 # 5 THEN 0
                              ELSE CASE mod \in {0, 2} -> 4
                                     [] mod = 1 -> 1
                                     [] OTHER -> 0)

\* ProcessModrm(): the ModR/M byte at `at', a SIB byte and a displacement.
ProcessModrm(code, at, m) ==
  LET mod   == code[at] \div 64
      rm    == code[at] % 8
      entry == IF m.addr32 THEN s_ia32_modrm_map_(mod, rm) ELSE s_ia16_modrm_map_(mod, rm)
  IN 1 + entry.bytes + (IF entry.sib THEN ProcessSib(code[at + 1], mod) ELSE 0)

\* ProcessOpcode(): the type and the end of the instruction whose opcode byte
\* for table t is at `at'; e is its entry.
RECURSIVE ProcessOpcode(_, _, _, _)
ProcessEntry(code, at, t, m, e) ==
  LET modAt == IF t < 2 THEN at + 1 ELSE at
  IN IF e.type = "REFERENCE" THEN ProcessOpcode(code, at + 1, e.table, m)
     ELSE [type |-> e.type,
           end |-> ImmediateBytes(e.imm, m) + (CASE e.modrm = "none" -> at + 1
                                                 [] e.modrm = "skip" -> modAt + 1
                                                 [] OTHER -> modAt + ProcessModrm(code, modAt, m))]

ProcessOpcode(code, at, t, m) == ProcessEntry(code, at, t, m, s_ia32_opcode_map_(t, code[at], m))

\* Disassemble(): the size stays 0 for an instruction it does not know.
Instruction(at, r) == IF r.type \in {"UNKNOWN", "UNUSED"} THEN [type |-> "UNKNOWN", size |-> 0]
                      ELSE [type |-> r.type, size |-> r.end - at]

AfterPrefixes(code, p) == ProcessOpcode(code, p.at, 0, p.m)

Disassemble(code, at, x64) == Instruction(at, AfterPrefixes(code, ProcessPrefixes(code, at, Initialize(x64))))
==============================================================================
