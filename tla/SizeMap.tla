------------------------------ MODULE SizeMap ------------------------------
(* SizeMap::Init (common.cc): the size classes computed at start-up, at the *)
(* real scale, for every build and machine of Builds.  One step per turn of *)
(* its loops.                                                               *)
EXTENDS Integers, Sequences

CONSTANT Builds  \* set of [shift, minAlign, native, transfer]: kPageShift,
                 \* kMinAlign, getpagesize(), the transfer flag

VARIABLES build, classes, mapping
\* classes: [size (the loop's), toSize, toPages]; mapping: [next, array]

kAlignment == 8
kMaxSize == 256 * 1024
kMaxSmallSize == 1024
kClassSizesMax == 128
kPageSize(b) == 2 ^ b.shift
kClassArraySize == (kMaxSize + 127 + 120 * 128) \div 128 + 1

LargeSizeClass(s) == (s + 127 + 120 * 128) \div 128

ClassIndex(s) == IF s <= kMaxSmallSize THEN (s + 7) \div 8 ELSE LargeSizeClass(s)

\* the largest power of two at most n
LgFloor(n) == CHOOSE k \in 0..31 : 2 ^ k <= n /\ n < 2 ^ (k + 1)

AlignmentForSize(b, size) ==
    LET wanted == IF size >= 128 THEN 2 ^ LgFloor(size) \div 8
                  ELSE IF size >= b.minAlign THEN b.minAlign ELSE kAlignment
    IN  IF wanted > kPageSize(b) THEN kPageSize(b) ELSE wanted

NumMoveSize(b, size) ==
    LET num == 65536 \div size
        two == IF num < 2 THEN 2 ELSE num
    IN  IF two > b.transfer THEN b.transfer ELSE two

MinSpanSize(b) ==
    LET most == IF b.native > kPageSize(b) THEN b.native ELSE kPageSize(b)
    IN  IF most % kPageSize(b) # 0 THEN kPageSize(b) ELSE most

\* mutant: spans are whole pages, not whole minimal spans
SpanOfPages(b, size) ==
    LET k == CHOOSE n \in 1..512 : LET p == n * kPageSize(b)
                                   IN  p % size <= p \div 8 /\ p \div size >= NumMoveSize(b, size) \div 4
    IN  k * kPageSize(b)

\* the loop's psize: whole minimal spans that waste at most an eighth and hold
\* a quarter of a transfer batch
SpanFor(b, size) ==
    LET Good(p) == /\ p % size <= p \div 8
                   /\ p \div size >= NumMoveSize(b, size) \div 4
        k == CHOOSE n \in 1..64 : /\ Good(n * MinSpanSize(b))
                                  /\ \A j \in 1..(n - 1) : ~Good(j * MinSpanSize(b))
    IN  k * MinSpanSize(b)

SmInit ==
    /\ build \in Builds
    /\ classes = [size |-> kAlignment, toSize |-> <<>>, toPages |-> <<>>]
    /\ mapping = [cl |-> 0, next |-> 0, array |-> [i \in 0..(kClassArraySize - 1) |-> 0]]

\* one turn of the loop that computes the classes
ComputeClass ==
    /\ classes.size <= kMaxSize
    /\ LET size  == classes.size
           n     == Len(classes.toSize)
           pages == SpanFor(build, size) \div kPageSize(build)
           objects(s) == (pages * kPageSize(build)) \div s
           merge == /\ n > 0
                    /\ pages = classes.toPages[n]
                    /\ objects(size) = objects(classes.toSize[n])
       IN  classes' =
             [size    |-> size + AlignmentForSize(build, size),
              toSize  |-> IF merge THEN [classes.toSize EXCEPT ![n] = size]
                                   ELSE Append(classes.toSize, size),
              toPages |-> IF merge THEN classes.toPages ELSE Append(classes.toPages, pages)]
    /\ UNCHANGED <<build, mapping>>

num_size_classes == Len(classes.toSize) + 1

\* one turn of the loop that fills class_array_
MapClass ==
    /\ classes.size > kMaxSize
    /\ mapping.cl < Len(classes.toSize)
    /\ LET c    == mapping.cl + 1
           last == classes.toSize[c]
           hit  == ClassIndex(mapping.next)..ClassIndex(last)
       IN  mapping' = [cl    |-> c,
                       next  |-> last + kAlignment,
                       array |-> [i \in DOMAIN mapping.array |->
                                    IF i \in hit THEN c ELSE mapping.array[i]]]
    /\ UNCHANGED <<build, classes>>

SmNext == ComputeClass \/ MapClass
SmSpec == SmInit /\ [][SmNext]_<<build, classes, mapping>>

Ready == classes.size > kMaxSize /\ mapping.cl = Len(classes.toSize)
SizeClass(s) == mapping.array[ClassIndex(s)]
class_to_size(c) == IF c = 0 THEN 0 ELSE classes.toSize[c]

\* the bytes of the span PageHeap::New returns for pages(bytes): RoundUpSize
\* makes it whole minimal spans
SpanBytes(b, bytes) ==
    ((bytes + MinSpanSize(b) - 1) \div MinSpanSize(b)) * MinSpanSize(b)

\* Every size at which the index can change.
Edges == {8 * k + d : k \in 0..(kMaxSmallSize \div 8 - 1), d \in 0..1}
         \cup {kMaxSmallSize}
         \cup {128 * k + d : k \in (kMaxSmallSize \div 128)..(kMaxSize \div 128 - 1), d \in 0..1}
         \cup {kMaxSize}

\* Every request is served from the smallest class that holds it, and that
\* class is no larger than the span of the request: a sampled calloc clears
\* nallocx(size) bytes of a span of pages(size) pages (tcmalloc.cc).
ClassIsLeast ==
    \A s \in Edges :
        LET c == SizeClass(s)
        IN  /\ class_to_size(c) >= s
            /\ c > 1 => class_to_size(c - 1) < s
            /\ s > 0 => class_to_size(c) <= SpanBytes(build, s)

\* A multiple of an alignment below the page size lands in a class that is a
\* multiple of it, which is all the aligned fast paths rely on.
NaturallyAligned ==
    \A a \in {2 ^ k : k \in 3..(build.shift - 1)} :
        a >= build.minAlign =>
          \A k \in 1..((kPageSize(build) - 1) \div a) :
              class_to_size(SizeClass(k * a)) % a = 0

\* A span of a class is whole native pages, wastes at most an eighth, and holds
\* at least a quarter of a transfer batch; the classes fit their tables.
SpansUsable ==
    /\ num_size_classes <= kClassSizesMax
    /\ \A c \in 1..(num_size_classes - 1) :
          LET bytes == classes.toPages[c] * kPageSize(build)
              size  == classes.toSize[c]
          IN  /\ bytes % MinSpanSize(build) = 0
              /\ bytes % size <= bytes \div 8
              /\ bytes \div size >= NumMoveSize(build, size) \div 4
              /\ NumMoveSize(build, size) >= 1

\* The tables SizeMap::Init leaves serve every request of every build: the
\* least class, natural alignment, and spans within their bounds at every turn.
SizeClassesSound == SpansUsable /\ (Ready => ClassIsLeast /\ NaturallyAligned)
=============================================================================
