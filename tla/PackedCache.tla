----------------------------- MODULE PackedCache -----------------------------
(***************************************************************************)
(* packed-cache-inl.h: the page heap's cache of size classes, one word a   *)
(* slot that holds the upper bits of a key and a value.  pcRef is what the *)
(* words should mean.                                                      *)
(***************************************************************************)
EXTENDS Integers, Bitwise

CONSTANTS kHashbits, kValuebits,
          ClearWord,   \* a word of 0x80 bytes, scaled
          PcKeys, PcValues

VARIABLES pcArray,  \* array_
          pcRef     \* key -> its value, if the last to touch its slot was Put(key)

Hash(key) == key % 2 ^ kHashbits
KeyToUpper(key) == key - Hash(key)
kInvalidMask == 2 ^ kValuebits

TryGet(key) ==
  LET entry == pcArray[Hash(key)] ^^ KeyToUpper(key)
  IN  IF entry >= 2 ^ kValuebits THEN {} ELSE {entry}

Slot(key) == {k \in PcKeys : Hash(k) = Hash(key)}

Put(key, v) ==
  /\ pcArray' = [pcArray EXCEPT ![Hash(key)] = KeyToUpper(key) + v]
  /\ pcRef' = [k \in PcKeys |-> IF k = key THEN {v} ELSE IF k \in Slot(key) THEN {} ELSE pcRef[k]]

Invalidate(key) ==
  /\ pcArray' = [pcArray EXCEPT ![Hash(key)] = KeyToUpper(key) + kInvalidMask]
  /\ pcRef' = [k \in PcKeys |-> IF k \in Slot(key) THEN {} ELSE pcRef[k]]

PcInit ==
  /\ pcArray = [h \in 0 .. 2 ^ kHashbits - 1 |-> ClearWord]
  /\ pcRef = [k \in PcKeys |-> {}]

PcNext == \E k \in PcKeys : (\E v \in PcValues : Put(k, v)) \/ Invalidate(k)

PcSpec == PcInit /\ [][PcNext]_<<pcArray, pcRef>>

\* A hit of the cache is the value last put for that very key: not one of a key
\* that shares its slot, an invalidated one, or a word never written.
PackedCacheExact == \A k \in PcKeys : TryGet(k) = pcRef[k]
=============================================================================
