--------------------------- MODULE PreamblePatcher ---------------------------
(****************************************************************************)
(* sidestep::PreamblePatcher in the 64-bit build (src/windows/              *)
(* preamble_patcher.cc, preamble_patcher_with_stub.cc): a function is       *)
(* hooked by moving its first instructions to a stub and writing a jump     *)
(* over them, and unhooked by moving them back.  Memory is a partial map    *)
(* from addresses to bytes; where it is not defined it reads INT3.          *)
(* Addresses are scaled: MaxRel stands for INT_MAX.                         *)
(****************************************************************************)
EXTENDS MiniDisassembler, FiniteSets, TLC
CONSTANTS PpCode,          \* the program: address -> byte
          PpFunctions,     \* addresses of the functions that are hooked
          PpHooks,         \* addresses of the replacement functions
          PpBase,          \* mbi.AllocationBase of the module
          PpTaken,         \* addresses VirtualAlloc refuses
          MaxRel, PpGranularity, PpPageSize, PpStubSize, MaxHooked, MaxPatches
VARIABLES ppMem,           \* what the processor reads
          ppPages,         \* preamble_pages_: the stub pages, newest first
          ppHooked,        \* function -> [repl, stub] of the hooks in place
          ppUnhooked       \* functions for which Unpatch returned

ppVars == <<ppMem, ppPages, ppHooked, ppUnhooked>>

ASM_JMP32REL == \hE9
ASM_INT3     == \hCC
ASM_JMP8REL  == \hEB
Trampoline0  == <<\h90, \h48, \hB8>>      \* nop; mov rax, imm64

Byte(mem, a) == IF a \in DOMAIN mem THEN mem[a] ELSE ASM_INT3

Bytes(mem, a, n) == [i \in 1..n |-> Byte(mem, a + i - 1)]

Store(mem, a, s) == [x \in a..(a + Len(s) - 1) |-> s[x - a + 1]] @@ mem

\* Two's complement of n in four bytes, and back; one byte for a short jump.
Le4(n) == <<n % 256, (n \div 256) % 256, IF n < 0 THEN 255 ELSE 0, IF n < 0 THEN 255 ELSE 0>>

Int4(s) == s[1] + 256 * s[2] - (IF s[4] = 255 THEN 65536 ELSE 0)

Int1(b) == IF b > 127 THEN b - 256 ELSE b

Near(d) == d \in (-MaxRel - 1)..MaxRel

Decode(mem, a) == Disassemble(Bytes(mem, a, 20), 1, TRUE)

\* ResolveTargetImpl(): follows the jumps a function starts with; stops before
\* `stop' and, if asked, before a trampoline.
JumpTarget(mem, t) ==
  LET s == Bytes(mem, t, 7)
  IN CASE s[1] = ASM_JMP32REL -> t + 5 + Int4(SubSeq(s, 2, 5))
       [] s[1] = ASM_JMP8REL -> t + 2 + Int1(s[2])
       [] s[1] = \hFF /\ s[2] = \h25 -> Int4(Bytes(mem, t + 6 + Int4(SubSeq(s, 3, 6)), 4))
       [] s[1] = \h48 /\ s[2] = \hFF /\ s[3] = \h25 -> Int4(Bytes(mem, t + 7 + Int4(SubSeq(s, 4, 7)), 4))
       [] OTHER -> t

RECURSIVE ResolveTargetImpl(_, _, _, _)
ResolveTargetImpl(mem, t, stop, atTrampoline) ==
  LET new == JumpTarget(mem, t)
      at  == IF Byte(mem, t) = \h48 /\ new # t THEN t + 1 ELSE t   \* target++ past the REX byte
  IN IF new = t THEN t
     ELSE IF new = stop \/ (atTrampoline /\ Bytes(mem, new, 3) = Trampoline0) THEN at
     ELSE ResolveTargetImpl(mem, new, stop, atTrampoline)

------------------------------------------------------------------------------
(* The kinds of instruction that are rewritten when they move.               *)

IsShortConditionalJump(s, n) == Bit(s[1], 4) /\ Bit(s[1], 5) /\ Bit(s[1], 6) /\ n = 2
IsShortJump(s, n)            == s[1] = ASM_JMP8REL /\ n = 2
IsNearConditionalJump(s, n)  == s[1] = \h0F /\ Bit(s[2], 7) /\ n = 6
IsNearRelativeJump(s, n)     == s[1] = ASM_JMP32REL /\ n = 5
IsNearAbsoluteCall(s, n)     == s[1] = \hFF /\ Bit(s[2], 4) /\ n = 6
IsNearRelativeCall(s, n)     == s[1] = \hE8 /\ n = 5
IsMovWithDisplacement(s, n)  == n = 7 /\ s[1] = \h48 /\ s[2] = \h8B /\ s[3] < 64 /\ s[3] % 8 = 5

IsNear(s, n) == \/ IsNearConditionalJump(s, n) \/ IsNearRelativeJump(s, n)
                \/ IsNearAbsoluteCall(s, n) \/ IsNearRelativeCall(s, n)

\* Each Patch...() answers the bytes to write for the instruction s of n bytes
\* at `from' when it moves to `to'; <<>> stands for an error.
PatchShortConditionalJump(s, from, to) ==
  LET fixup == (from + 2 + Int1(s[2])) - (to + 6)
  IN IF Near(fixup) THEN <<\h0F, \h80 + (s[1] % 16)>> \o Le4(fixup) ELSE <<>>

PatchShortJump(s, from, to) ==
  LET fixup == (from + 2 + Int1(s[2])) - (to + 5)
  IN IF Near(fixup) THEN <<ASM_JMP32REL>> \o Le4(fixup) ELSE <<>>


PatchNearJumpOrCall(s, n, from, to) ==
  LET off   == IF n = 5 THEN 1 ELSE 2
      fixup == (from + n + Int4(SubSeq(s, off + 1, off + 4))) - (to + n)
      rel8  == fixup % 256
  IN CASE ~Near(fixup) -> <<>>
       [] fixup \in -127..126 -> IF s[1] = \h0F /\ Bit(s[2], 7) THEN <<\h70 + (s[2] % 16), rel8>>
                                 ELSE <<ASM_JMP8REL, rel8>>
       [] OTHER -> SubSeq(s, 1, off) \o Le4(fixup)

PatchMovWithDisplacement(s, n, from, to) ==
  LET fixup == (from + n + Int4(SubSeq(s, 4, 7))) - (to + n)
  IN IF Near(fixup) THEN SubSeq(s, 1, 3) \o Le4(fixup) ELSE <<>>

\* The bytes for the instruction d, which starts with the bytes s.
MovedBytes(s, d, from, to) ==
  CASE d.type = "JUMP" /\ IsShortConditionalJump(s, d.size) -> PatchShortConditionalJump(s, from, to)
    [] d.type = "JUMP" /\ IsShortJump(s, d.size) -> PatchShortJump(s, from, to)
    [] d.type = "JUMP" /\ IsNear(s, d.size) -> PatchNearJumpOrCall(s, d.size, from, to)
    [] d.type = "GENERIC" -> IF IsMovWithDisplacement(s, d.size) THEN PatchMovWithDisplacement(s, d.size, from, to)
                             ELSE SubSeq(s, 1, d.size)
    [] OTHER -> <<>>

\* The loop of RawPatchWithStub: instructions move to the stub until they make
\* room for the five bytes of a jump.  p holds the stub bytes so far and how
\* many bytes of the function they stand for; ok is cleared by an error.
AddMoved(p, size, new) == [ok |-> new # <<>>, bytes |-> p.bytes \o new, taken |-> p.taken + size]

MoveInstruction(mem, p, d, from, to) == AddMoved(p, d.size, MovedBytes(Bytes(mem, from, 20), d, from, to))

RECURSIVE MoveFrom(_, _, _, _)
MoveFrom(mem, target, stub, p) ==
  LET from == target + p.taken
  IN IF ~p.ok \/ p.taken >= 5 THEN p
     ELSE MoveFrom(mem, target, stub, MoveInstruction(mem, p, Decode(mem, from), from, stub + Len(p.bytes)))

MovePreamble(mem, target, stub) == MoveFrom(mem, target, stub, [ok |-> TRUE, bytes |-> <<>>, taken |-> 0])

\* RawPatchWithStub(): the memory after the patch; unchanged when it fails.
SkipEndbr(mem, target) ==
  IF Bytes(mem, target, 3) = <<\hF3, \h0F, \h1E>> /\ Byte(mem, target + 3) \in {\hFA, \hFB} THEN target + 4 ELSE target

WritePatch(mem, function, target, repl, stub, p) ==
  LET far    == ~Near(repl - function - 5)
      jumpAt == stub + Len(p.bytes)
      entry  == IF far THEN jumpAt + 5 ELSE repl
      body   == p.bytes \o <<ASM_JMP32REL>> \o Le4((target + p.taken) - (jumpAt + 5))
                  \o (IF far THEN Trampoline0 \o Le4(repl) \o <<0, 0, 0, 0>> \o <<\hFF, \hE0>> ELSE <<>>)
      jump   == <<ASM_JMP32REL>> \o Le4(entry - target - 5) \o [i \in 1..(p.taken - 5) |-> ASM_INT3]
      clean  == [a \in DOMAIN mem \ (stub..(stub + PpStubSize - 1)) |-> mem[a]]
  IN IF ~p.ok \/ Len(body) > PpStubSize \/ (far /\ ~Near(stub - function - 5)) THEN mem
     ELSE Store(Store(clean, stub, body), target, jump)

RawPatchWithStub(mem, function, repl, stub) ==
  LET target == SkipEndbr(mem, function)
  IN WritePatch(mem, function, target, repl, stub, MovePreamble(mem, target, stub))

------------------------------------------------------------------------------
(* The stub pages.                                                           *)

\* AllocPageNear(): the addresses VirtualAlloc is asked for, nearest first
\* below the module, then above the target.
LowPages(target) == {PpBase - i * PpGranularity : i \in 1..((PpBase - 1) \div PpGranularity)}

HighPages(target) == LET up == (target - (target % PpGranularity)) + PpGranularity
                     IN {up + i * PpGranularity : i \in 1..(MaxRel \div PpGranularity)}

AllocPageNear(target, pages) ==
  LET free == {a \in LowPages(target) \cup HighPages(target) :
                 Near(a - target) /\ a \notin PpTaken /\ \A i \in DOMAIN pages : pages[i].base # a}
      low  == {a \in free : a < target}
  IN CASE low # {} -> CHOOSE a \in low : \A b \in low : b <= a
       [] free # {} -> CHOOSE a \in free : \A b \in free : a <= b
       [] OTHER -> 0

\* AllocPreambleBlockNear(): the first free block of the first page in reach,
\* or of a new page.  Answers the pages and the block.
Blocks(base) == [i \in 1..(PpPageSize \div PpStubSize - 1) |-> base + i * PpStubSize]

InReach(page, target) == LET val == page.base - target
                         IN page.free # <<>> /\ ((val > 0 /\ val + PpPageSize <= MaxRel) \/ (val < 0 /\ val >= -MaxRel - 1))

PagesFor(target, pages) ==
  IF (\E i \in DOMAIN pages : InReach(pages[i], target)) \/ AllocPageNear(target, pages) = 0 THEN pages
  ELSE LET base == AllocPageNear(target, pages) IN <<[base |-> base, free |-> Blocks(base)]>> \o pages

FirstInReach(target, pages) == CHOOSE i \in DOMAIN pages : /\ InReach(pages[i], target)
                                                           /\ \A j \in 1..(i - 1) : ~InReach(pages[j], target)

FreePreambleBlock(pages, block) ==
  [i \in DOMAIN pages |-> IF pages[i].base = block - (block % PpGranularity)
                          THEN [pages[i] EXCEPT !.free = <<block>> \o @] ELSE pages[i]]

------------------------------------------------------------------------------
PpInit == /\ ppMem = PpCode
          /\ ppPages = <<>>
          /\ ppHooked = <<>>
          /\ ppUnhooked = {}

Resolved(f) == ResolveTargetImpl(PpCode, f, 0, FALSE)

\* RawPatch(): the callers hook a function once, and never two names of one
\* function.  When the patch fails the block goes back.
FinishPatch(f, repl, pages, i, mem) ==
  /\ ppMem' = mem
  /\ \/ /\ mem # ppMem
        /\ ppPages' = [pages EXCEPT ![i].free = Tail(@)]
        /\ ppHooked' = (f :> [repl |-> repl, stub |-> pages[i].free[1]]) @@ ppHooked
     \/ /\ mem = ppMem
        /\ ppPages' = pages
        /\ UNCHANGED ppHooked
  /\ UNCHANGED ppUnhooked

RawPatch(f, repl) ==
  /\ f \notin DOMAIN ppHooked \cup ppUnhooked
  /\ Cardinality(DOMAIN ppHooked) < MaxHooked
  /\ Cardinality(DOMAIN ppHooked \cup ppUnhooked) < MaxPatches
  /\ \A g \in DOMAIN ppHooked \cup ppUnhooked : Resolved(g) # Resolved(f)
  /\ \E target \in {ResolveTargetImpl(ppMem, f, 0, FALSE)} : \E pages \in {PagesFor(target, ppPages)} :
       /\ \E j \in DOMAIN pages : InReach(pages[j], target)
       /\ \E i \in {FirstInReach(target, pages)} :
            \E mem \in {RawPatchWithStub(ppMem, target, repl, pages[i].free[1])} : FinishPatch(f, repl, pages, i, mem)

\* The loop of Unpatch(): the stub's instructions move back over the target.
\* `done' counts the bytes of the target they make up; a MOV is written
\* without being counted.
BytesBack(s, d, from, to) ==
  CASE d.type = "JUMP" /\ IsNear(s, d.size) -> PatchNearJumpOrCall(s, d.size, from, to)
    [] d.type = "GENERIC" -> IF IsMovWithDisplacement(s, d.size) THEN PatchMovWithDisplacement(s, d.size, from, to)
                             ELSE SubSeq(s, 1, d.size)
    [] OTHER -> <<>>

AddBack(b, s, d, to, new) ==
  [ok |-> new # <<>>, mem |-> Store(b.mem, to, new), read |-> b.read + d.size,
   done |-> b.done + (IF d.type = "GENERIC" /\ IsMovWithDisplacement(s, d.size) THEN 0 ELSE Len(new))]

MoveInstructionBack(b, s, d, from, to) == AddBack(b, s, d, to, BytesBack(s, d, from, to))

RECURSIVE MoveBackFrom(_, _, _)
MoveBackFrom(stub, target, b) ==
  LET from == stub + b.read
  IN IF ~b.ok \/ b.done >= 5 THEN b
     ELSE MoveBackFrom(stub, target, MoveInstructionBack(b, Bytes(b.mem, from, 20), Decode(b.mem, from), from,
                                                         target + b.done))

MoveBack(mem, stub, target) == MoveBackFrom(stub, target, [ok |-> TRUE, mem |-> mem, read |-> 0, done |-> 0])

\* Unpatch(): when the target does not start with a jump, or an instruction
\* cannot move back, the stub stays allocated.
FinishUnpatch(f, back) ==
  /\ ppMem' = back.mem
  /\ ppPages' = IF back.ok THEN FreePreambleBlock(ppPages, ppHooked[f].stub) ELSE ppPages

Unpatch(f) ==
  /\ f \in DOMAIN ppHooked
  /\ ppHooked' = [g \in DOMAIN ppHooked \ {f} |-> ppHooked[g]]
  /\ ppUnhooked' = ppUnhooked \cup {f}
  /\ \E target \in {ResolveTargetImpl(ppMem, f, ppHooked[f].repl, TRUE)} :
       \/ /\ Byte(ppMem, target) = ASM_JMP32REL
          /\ \E back \in {MoveBack(ppMem, ppHooked[f].stub, target)} : FinishUnpatch(f, back)
       \/ /\ Byte(ppMem, target) # ASM_JMP32REL
          /\ UNCHANGED <<ppMem, ppPages>>

PpNext == \/ \E f \in PpFunctions, r \in PpHooks : RawPatch(f, r)
          \/ \E f \in PpFunctions : Unpatch(f)

PpSpec == PpInit /\ [][PpNext]_ppVars

------------------------------------------------------------------------------
(* What the processor does: the effect of the instruction at a, with its      *)
(* destination as an address.                                                *)

EffectOf(s, n, a) ==
  CASE s[1] \in \h70..\h7F -> <<"jcc", s[1] % 16, a + n + Int1(s[2])>>
    [] s[1] = \h0F /\ s[2] \in \h80..\h8F -> <<"jcc", s[2] % 16, a + n + Int4(SubSeq(s, 3, 6))>>
    [] s[1] \in {ASM_JMP8REL, ASM_JMP32REL} ->
         <<"jmp", a + n + (IF n = 2 THEN Int1(s[2]) ELSE Int4(SubSeq(s, 2, 5)))>>
    [] s[1] = \hE8 -> <<"call", a + n + Int4(SubSeq(s, 2, 5))>>
    [] s[1] = \hFF /\ s[2] = \h15 -> <<"call through", a + n + Int4(SubSeq(s, 3, 6))>>
    [] IsMovWithDisplacement(s, n) -> <<"load", s[3], a + n + Int4(SubSeq(s, 4, 7))>>
    [] OTHER -> <<"bytes", SubSeq(s, 1, n)>>

Effect(mem, a) == EffectOf(Bytes(mem, a, 20), Decode(mem, a).size, a)

RECURSIVE Effects(_, _, _)
Effects(mem, a, k) == IF k = 0 THEN <<>>
                      ELSE <<Effect(mem, a)>> \o Effects(mem, a + Decode(mem, a).size, k - 1)

\* The instructions that make room for a jump, and where they end.
RECURSIVE PreambleCount(_, _)
PreambleCount(a, room) == IF room <= 0 THEN 0 ELSE 1 + PreambleCount(a + Decode(PpCode, a).size, room - Decode(PpCode, a).size)

RECURSIVE PreambleEnd(_, _)
PreambleEnd(a, k) == IF k = 0 THEN a ELSE PreambleEnd(a + Decode(PpCode, a).size, k - 1)

\* The stub does what the start of the function did and goes on behind it.
RunsAs(stub, t, k) == Effects(ppMem, stub, k + 1) = Append(Effects(PpCode, t, k), <<"jmp", PreambleEnd(t, k)>>)

StubRuns(f) == LET t == SkipEndbr(PpCode, Resolved(f)) IN RunsAs(ppHooked[f].stub, t, PreambleCount(t, 5))

\* A call of the function ends in the replacement, at once or by a trampoline.
EntryReplaced(f) ==
  LET t == SkipEndbr(PpCode, Resolved(f))
      d == JumpTarget(ppMem, t)
  IN \/ d = ppHooked[f].repl
     \/ Bytes(ppMem, d, 3) = Trampoline0 /\ Int4(Bytes(ppMem, d + 3, 4)) = ppHooked[f].repl

StubsApart == /\ \A f, g \in DOMAIN ppHooked : f # g => ppHooked[f].stub # ppHooked[g].stub
              /\ \A f \in DOMAIN ppHooked : /\ Near(ppHooked[f].stub - Resolved(f))
                                            /\ \A i \in DOMAIN ppPages, j \in 1..5 :
                                                 j \in DOMAIN ppPages[i].free => ppPages[i].free[j] # ppHooked[f].stub

Restored(f) == LET t == Resolved(f) IN Bytes(ppMem, t, 16) = Bytes(PpCode, t, 16)

\* Only moves that Unpatch can undo: no instruction of the preamble names an
\* address relative to itself, and none is an ENDBR.
Movable(f) ==
  LET t == Resolved(f)
  IN /\ SkipEndbr(PpCode, t) = t
     /\ \A j \in 1..PreambleCount(t, 5) : Effects(PpCode, t, PreambleCount(t, 5))[j][1] = "bytes"

==============================================================================
