----------------------------- MODULE MCServices -----------------------------
(* The values TLC runs Services with.                                      *)
EXTENDS Services, Sequences, TLC

CONSTANTS s1, s2, s3

(* Profiler: two ways of one bucket, three stacks, and a buffer that holds  *)
(* little more than the header.  Three calls interrupted once; one call     *)
(* interrupted twice, in a process that profiles from the start; timers per *)
(* thread; control by signal.                                               *)
ConstDepth == (s1 :> 1) @@ (s2 :> 2) @@ (s3 :> 1)
ConstBucket == [s \in PfStacks |-> 1]

Process(client, on, per_thread, maxCalls, maxInterrupts) ==
  [client |-> client, on |-> on, per_thread |-> per_thread, maxCalls |-> maxCalls,
   maxInterrupts |-> maxInterrupts]

Processes ==
  {Process("api", FALSE, FALSE, 3, 1), Process("api", TRUE, FALSE, 1, 2),
   Process("api", FALSE, TRUE, 2, 2), Process("signal", FALSE, FALSE, 2, 3)}

(* HeapProfiler: a client with the old kind of hook while profiling is      *)
(* restarted; clients with both kinds.                                      *)
ConstPrograms == {[objects |-> {1, 2}, hooks |-> {"singular"}, starts |-> 2],
                  [objects |-> {1}, hooks |-> {"singular", "user"}, starts |-> 1]}

(* MallocStats: an object of each of two classes, and a span.               *)
ConstChunks == [c \in 1..3 |-> [cl |-> c % 3, size |-> 2]]

(* HeapSampling: two traces, one of them empty.                             *)
ConstTraces == {<<7, 8>>, <<>>}

(* SizeMap: the page sizes a build may have, on systems of small and of     *)
(* large pages.                                                             *)
ConstBuilds ==
  [shift : {12, 13, 15, 16, 18}, minAlign : {16}, native : {4096, 65536}, transfer : {32}]

(* SystemAlloc: sbrk first; mmap first, behind a file system with a limit.  *)
ConstSetups == {[children |-> <<"sbrk", "mmap">>, memfs |-> FALSE, limit |-> 0],
                [children |-> <<"mmap", "sbrk">>, memfs |-> TRUE, limit |-> 8]}

(* TextIO: every text of up to six characters.                              *)
ConstInputs == UNION {[1..n -> {"x", "nl"}] : n \in 0..6}

(* InstructionLength: 32 bits; 64 bits with no prefix, REX.B, REX.W, 66.    *)
ConstModes == {[x64 |-> FALSE, prefix |-> <<>>]}
              \cup {[x64 |-> TRUE, prefix |-> p] : p \in {<<>>, <<\h41>>, <<\h48>>, <<\h66>>}}
ConstModrm == {64 * mod + rm : mod \in 0..3, rm \in {0, 4, 5}}

(* PreamblePatcher: functions that begin with each kind of instruction the  *)
(* patcher treats specially, by address.                                    *)
Plain == <<\h48, \h83, \hEC, \h28, \h8B, \hC1, \hC3>>  \* sub rsp,28h; mov eax,ecx; ret
Test  == <<\hF6, \hC1, 1>>                             \* test cl,1
Word(n) == LET sign == IF n < 0 THEN 255 ELSE 0 IN <<n % 256, (n \div 256) % 256, sign, sign>>
Place(a, s) == [x \in a..(a + Len(s) - 1) |-> s[x - a + 1]]
ConstProgram ==
     Place(1040, Plain)
  @@ Place(1060, Test \o <<\h75, \h1C>>)                    \* jne, short
  @@ Place(1100, Test \o <<\h0F, \h85>> \o Word(140))       \* jne, near
  @@ Place(1140, Test \o <<\hE8>> \o Word(-200))            \* call
  @@ Place(1180, <<\h48, \h8B, \h05>> \o Word(300))         \* mov relative to rip
  @@ Place(1200, <<\hC3>>)                                  \* too short
  @@ Place(1220, <<\hF3, \h0F, \h1E, \hFA>> \o Plain)       \* endbr64
  @@ Place(1240, <<\hE9>> \o Word(1040 - 1245))             \* jmp
  @@ Place(1260, <<\h48, \hFF, \h25>> \o Word(1280 - 1267)) \* jmp through memory
  @@ Place(1280, Word(1300))
  @@ Place(1300, Test \o <<\hEB, \h30>>)                    \* jmp, short
  @@ Place(1320, Test \o <<\hE9>> \o Word(140))
  @@ Place(1400, Plain) @@ Place(9000, Plain)
ConstFunctions == {1040, 1060, 1100, 1140, 1180, 1200, 1220, 1240, 1260, 1320}
=============================================================================
