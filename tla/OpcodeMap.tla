------------------------------ MODULE OpcodeMap ------------------------------
(****************************************************************************)
(* The opcode tables of the preamble patcher's disassembler                 *)
(* (src/windows/ia32_opcode_map.cc, ia32_modrm_map.cc).  A table entry is   *)
(* kept as what MiniDisassembler reads of it: the instruction type, whether *)
(* a ModR/M byte follows ("none", "skip": present but not decoded,          *)
(* "decode"), the operand types of its immediates, and the continuation     *)
(* table.  The mnemonics are left out.  `m' is the decoding state: m.x64    *)
(* the build (_M_X64), m.f2, m.f3 and m.p66 the prefixes seen.              *)
(****************************************************************************)
EXTENDS Integers, Sequences

Op(type, modrm, imm) == [type |-> type, modrm |-> modrm, imm |-> imm, table |-> 0]

Ref(n) == [type |-> "REFERENCE", modrm |-> "none", imm |-> <<>>, table |-> n]

Generic(modrm, imm) == Op("GENERIC", modrm, imm)

Plain  == Generic("none", <<>>)
RM     == Generic("decode", <<>>)
Unused == Op("UNUSED", "none", <<>>)
Prefix == Op("PREFIX", "none", <<>>)

\* add, or, adc, sbb, and, sub, xor and cmp share one layout in each eight
\* opcodes: four with a ModR/M byte, two with an immediate.
Arithmetic(b) == CASE b % 8 < 4 -> RM
                   [] b % 8 = 4 -> Generic("none", <<"B">>)
                   [] b % 8 = 5 -> Generic("none", <<"V">>)
                   [] OTHER -> Plain

s_first_00_2F(b) == CASE b = \h0F -> Ref(1)
                      [] b \in {\h26, \h2E} -> Prefix
                      [] OTHER -> Arithmetic(b)

s_first_30_4F(b, m) == CASE b \in {\h36, \h3E} -> Prefix
                         [] b >= \h40 -> IF m.x64 THEN Prefix ELSE Plain
                         [] OTHER -> Arithmetic(b)

s_first_50_7F(b) == CASE b \in {\h62, \h63} -> RM
                      [] b \in {\h64, \h65} -> Prefix
                      [] b = \h66 -> Op("PREFIX_OPERAND", "none", <<>>)
                      [] b = \h67 -> Op("PREFIX_ADDRESS", "none", <<>>)
                      [] b = \h68 -> Generic("none", <<"V">>)
                      [] b = \h69 -> Generic("decode", <<"V">>)
                      [] b = \h6A -> Generic("none", <<"B">>)
                      [] b = \h6B -> Generic("decode", <<"B">>)
                      [] b >= \h70 -> Op("JUMP", "none", <<"B">>)
                      [] OTHER -> Plain

s_first_80_AF(b) == CASE b \in \h80..\h83 -> Ref(b - \h80 + 2)
                      [] b \in \h84..\h8F -> RM
                      [] b = \h9A -> Op("JUMP", "none", <<>>)
                      [] b \in {\hA0, \hA2, \hA8} -> Generic("none", <<"B">>)
                      [] b \in {\hA1, \hA3, \hA9} -> Generic("none", <<"V">>)
                      [] OTHER -> Plain

s_first_B0_CF(b, m) == CASE b <= \hB7 -> Generic("none", <<"B">>)
                         [] b \in \hB8..\hBF -> Generic("none", <<IF m.x64 THEN "V64" ELSE "V">>)
                         [] b \in {\hC0, \hC1} -> Ref(b - \hC0 + 6)
                         [] b \in {\hC2, \hCA} -> Op("RETURN", "none", <<"W">>)
                         [] b \in {\hC3, \hCB} -> Op("RETURN", "none", <<>>)
                         [] b \in {\hC4, \hC5} -> RM
                         [] b = \hC6 -> Generic("decode", <<"B">>)
                         [] b = \hC7 -> Generic("decode", <<"V">>)
                         [] b = \hC8 -> Generic("none", <<"W", "B">>)
                         [] b = \hCD -> Generic("none", <<"B">>)
                         [] OTHER -> Plain

s_first_D0_FF(b) == CASE b <= \hD3 -> Ref(b - \hD0 + 8)
                      [] b \in {\hD6, \hF1} -> Unused
                      [] b \in \hD8..\hDF -> Op("UNKNOWN", "none", <<>>)
                      [] b \in \hE0..\hE3 \cup {\hEB} -> Op("JUMP", "none", <<"B">>)
                      [] b \in {\hD4, \hD5} \cup \hE4..\hE7 -> Generic("none", <<"B">>)
                      [] b \in {\hE8, \hE9} -> Op("JUMP", "none", <<"V">>)
                      [] b = \hEA -> Op("JUMP", "none", <<>>)
                      [] b \in {\hF0, \hF2, \hF3} -> Prefix
                      [] b \in {\hF6, \hF7} -> Ref(b - \hF6 + 12)
                      [] b \in {\hFE, \hFF} -> Ref(b - \hFE + 14)
                      [] OTHER -> Plain

s_first_opcode_byte(b, m) == CASE b < \h30 -> s_first_00_2F(b)
                               [] b \in \h30..\h4F -> s_first_30_4F(b, m)
                               [] b \in \h50..\h7F -> s_first_50_7F(b)
                               [] b \in \h80..\hAF -> s_first_80_AF(b)
                               [] b \in \hB0..\hCF -> s_first_B0_CF(b, m)
                               [] OTHER -> s_first_D0_FF(b)

s_0f_00_1F(b, m) == CASE b \in {0, 1} -> Ref(b + 16)
                      [] b = \h18 -> Ref(18)
                      [] b \in {\h12, \h16} /\ (m.f2 \/ m.f3) -> Generic("skip", <<>>)
                      [] b \in {2, 3} \cup \h10..\h17 -> RM
                      [] b \in {6, 8, 9} -> Plain
                      [] OTHER -> Unused

s_0f_20_3F(b) == CASE b \in \h20..\h23 -> Generic("skip", <<>>)
                   [] b \in \h28..\h2F \cup {\h3C} -> RM
                   [] b \in \h30..\h35 -> Plain
                   [] OTHER -> Unused

s_0f_40_5F(b) == RM

s_0f_60_7F(b, m) == CASE b \in {\h6C, \h6D} -> IF m.p66 THEN RM ELSE Plain
                      [] b = \h70 -> Generic("decode", <<"B">>)
                      [] b \in \h71..\h73 -> Ref(b - \h71 + 19)
                      [] b = \h77 -> Plain
                      [] b \in \h78..\h7D -> Op("UNKNOWN", "none", <<>>)
                      [] OTHER -> RM

s_0f_80_BF(b) == CASE b <= \h8F -> Op("JUMP", "none", <<"V">>)
                   [] b \in \hA0..\hA2 \cup \hA8..\hAA -> Plain
                   [] b \in {\hA4, \hA5, \hAC, \hAD} -> Generic("decode", <<"B">>)
                   [] b \in {\hA6, \hA7, \hB8, \hB9} -> Op("UNKNOWN", "none", <<>>)
                   [] b = \hAE -> Ref(22)
                   [] b = \hBA -> Ref(23)
                   [] OTHER -> RM

s_0f_C0_DF(b, m) == CASE b \in {\hC2, \hC4, \hC6} -> Generic("decode", <<"B">>)
                      [] b = \hC5 -> Generic("skip", <<"B">>)
                      [] b = \hC7 -> Ref(24)
                      [] b \in \hC8..\hCF -> Plain
                      [] b = \hD0 -> Unused
                      [] b = \hD6 -> IF m.f2 \/ m.f3 \/ m.p66 THEN RM ELSE Plain
                      [] b = \hD7 -> Generic("skip", <<>>)
                      [] OTHER -> RM

s_0f_E0_FF(b, m) == CASE b = \hE6 -> IF m.f2 \/ m.f3 \/ m.p66 THEN RM ELSE Plain
                      [] b \in {\hF0, \hFF} -> Unused
                      [] OTHER -> RM

s_opcode_byte_after_0f(b, m) == CASE b < \h20 -> s_0f_00_1F(b, m)
                                  [] b \in \h20..\h3F -> s_0f_20_3F(b)
                                  [] b \in \h40..\h5F -> s_0f_40_5F(b)
                                  [] b \in \h60..\h7F -> s_0f_60_7F(b, m)
                                  [] b \in \h80..\hBF -> s_0f_80_BF(b)
                                  [] b \in \hC0..\hDF -> s_0f_C0_DF(b, m)
                                  [] OTHER -> s_0f_E0_FF(b, m)

\* The tables continued in the reg field of the ModR/M byte.
s_after_0f00_0f73(t, r, m) == CASE t = 16 -> IF r < 6 THEN RM ELSE Unused
                                [] t = 17 -> IF r # 5 THEN RM ELSE Unused
                                [] t = 18 -> IF r = 0 THEN RM ELSE IF r < 4 THEN Plain ELSE Unused
                                [] t = 21 /\ r = 7 -> Generic("decode", <<"B">>)
                                [] (t \in {19, 20} /\ r \in {2, 4, 6}) \/ (t = 21 /\ r \in {2, 6}) ->
                                     Generic(IF t > 19 /\ m.p66 THEN "decode" ELSE "skip", <<"B">>)
                                [] OTHER -> Unused

s_after_0fae_83(t, r) == CASE t = 22 -> IF r = 4 THEN Unused ELSE Plain
                           [] t = 23 -> IF r < 4 THEN Unused ELSE Generic("decode", <<"B">>)
                           [] t = 24 -> IF r = 0 THEN Unused ELSE RM
                           [] OTHER -> Generic("decode", <<IF t = 3 THEN "V" ELSE "B">>)

s_after_c0_d3(t) == Generic("decode", IF t \in {6, 7} THEN <<"B">> ELSE <<>>)

s_after_f6_ff(t, r) == CASE t \in {12, 13} /\ r < 2 -> Generic("decode", <<IF t = 12 THEN "B" ELSE "V">>)
                         [] t = 15 /\ r = 7 -> Unused
                         [] t = 15 /\ r \in 2..5 -> Op("JUMP", "decode", <<>>)
                         [] OTHER -> RM

\* s_ia32_opcode_map_: tables 0 and 1 are indexed by the whole byte, the others
\* by bits 3..5 of the ModR/M byte; 14 and 24 hold two entries only.
s_ia32_opcode_map_(t, byte, m) ==
  LET r == (byte \div 8) % 8
  IN CASE t = 0 -> s_first_opcode_byte(byte, m)
       [] t = 1 -> s_opcode_byte_after_0f(byte, m)
       [] t \in {14, 24} /\ r > 1 -> Op("UNKNOWN", "none", <<>>)
       [] t \in 2..5 \cup 22..24 -> s_after_0fae_83(t, r)
       [] t \in 6..11 -> s_after_c0_d3(t)
       [] t \in 12..15 -> s_after_f6_ff(t, r)
       [] OTHER -> s_after_0f00_0f73(t, r, m)

s_ia16_modrm_map_(mod, rm) ==
  [sib |-> FALSE, bytes |-> CASE mod = 0 -> IF rm = 6 THEN 2 ELSE 0
                              [] mod = 3 -> 0
                              [] OTHER -> mod]

s_ia32_modrm_map_(mod, rm) ==
  [sib |-> mod # 3 /\ rm = 4, bytes |-> CASE mod = 0 -> IF rm = 5 THEN 4 ELSE 0
                                          [] mod = 1 -> 1
                                          [] mod = 2 -> 4
                                          [] OTHER -> 0]
==============================================================================
