----------------------------- MODULE SyncValue -----------------------------
(***************************************************************************)
(* The 64-bit arithmetic of the SYNC extension (extensions/sync.h): a      *)
(* value is a signed high word and an unsigned low word, and the macros    *)
(* add them word by word, with a carry and a test for overflow.            *)
(***************************************************************************)
EXTENDS Integers

CONSTANT Word \* number of values of a word, 2^32

ASSUME SyncValueAssumption == Word \in Nat \ {0} /\ Word % 2 = 0

Values == -(Word * (Word \div 2)) .. Word * (Word \div 2) - 1

XSyncValueHigh32(v) == v \div Word
XSyncValueLow32(v) == v % Word
XSyncValueIsNegative(v) == XSyncValueHigh32(v) < 0

\* A high word that leaves its range wraps around.
Signed(h) == ((h + Word \div 2) % Word) - Word \div 2
XSyncIntsToValue(l, h) == Signed(h) * Word + l

XSyncValueAdd(a, b) ==
  LET lo == (XSyncValueLow32(a) + XSyncValueLow32(b)) % Word
      hi == XSyncValueHigh32(a) + XSyncValueHigh32(b)
              + (IF XSyncValueLow32(a) > lo THEN 1 ELSE 0)
      v  == XSyncIntsToValue(lo, hi)
  IN  [value |-> v, overflow |-> /\ XSyncValueIsNegative(a) = XSyncValueIsNegative(b)
                                 /\ XSyncValueIsNegative(a) # XSyncValueIsNegative(v)]

-----------------------------------------------------------------------------
(* Adding word by word is the addition of integers, and the macro reports  *)
(* an overflow exactly when the sum is not a value.                        *)
AddExact ==
  \A a, b \in Values :
    LET sum == XSyncValueAdd(a, b)
    IN  IF a + b \in Values THEN ~sum.overflow /\ sum.value = a + b ELSE sum.overflow
=============================================================================
