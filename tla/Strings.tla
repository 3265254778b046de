------------------------------ MODULE Strings ------------------------------
(***************************************************************************)
(* The string functions, core/src/string.c, on a memory: a function from   *)
(* addresses to bytes.  A loop is a recursive function of the number of    *)
(* its iterations; what writes returns the memory afterwards.              *)
(*                                                                         *)
(* A byte has BYTE values.  char is signed, as on x86: the upper half of   *)
(* the bytes are negative as characters.                                   *)
(***************************************************************************)
EXTENDS Integers

CONSTANTS
  BYTE,     \* one more than the largest u8
  SIZE,     \* one more than the largest size_t
  UINT,     \* one more than the largest unsigned int
  Buffers   \* memory, two addresses and a length to call the functions with

ASSUME StringsAssumption ==
  /\ {BYTE, SIZE, UINT} \subseteq Nat \ {0}
  /\ BYTE % 2 = 0 /\ UINT % 2 = 0 /\ SIZE % UINT = 0
  \* The bytes of a memory do not add up to more than an int holds.
  /\ \A b \in Buffers :
       /\ \E size \in 0 .. UINT : /\ b.mem \in [0 .. size - 1 -> 0 .. BYTE - 1]
                                /\ size * BYTE <= UINT \div 2
       /\ {b.s, b.t} \subseteq DOMAIN b.mem /\ b.n \in Nat

NULL == -1

Char(b) == IF b < BYTE \div 2 THEN b ELSE b - BYTE
AsInt(v) == IF v % UINT < UINT \div 2 THEN v % UINT ELSE (v % UINT) - UINT

Halted == <<>>   \* the memory after an assertion failed

\* c is an int: an assertion bounds it above, and a negative c is cut to a char.
memset(m, s, c, n) ==
  IF c >= BYTE THEN Halted
  ELSE LET after[k \in 0 .. n] ==
             IF k = 0 THEN m ELSE [after[k - 1] EXCEPT ![s + k - 1] = c % BYTE]
       IN after[n]

\* Mutant: from the last byte to the first.
memcpy_backwards(m, dest, src, n) ==
  LET after[k \in 0 .. n] ==
        IF k = 0 THEN m
          ELSE [after[k - 1] EXCEPT ![dest + n - k] = after[k - 1][src + n - k]]
  IN after[n]

\* From the first byte to the last: what was copied may be read again.
memcpy(m, dest, src, n) ==
  LET after[k \in 0 .. n] ==
        IF k = 0 THEN m
          ELSE [after[k - 1] EXCEPT ![dest + k - 1] = after[k - 1][src + k - 1]]
  IN after[n]

strlen(m, s) ==
  LET len[k \in Nat] == IF m[s + k] = 0 THEN k ELSE len[k + 1]
  IN len[0]

strcpy(m, dest, src) == memcpy(m, dest, src, strlen(m, src) + 1)

\* The sum of the bytes, as unsigned characters.
strval(m, s) ==
  LET sum[index \in 0 .. strlen(m, s)] ==
        IF index = 0 THEN 0 ELSE (sum[index - 1] + m[s + index - 1]) % SIZE
  IN sum[strlen(m, s)]

\* A difference of two size_t, returned as an int.
strcmp(m, s1, s2) == AsInt((strval(m, s1) - strval(m, s2)) % SIZE)

\* At the end of the string, index is that of the terminator.
strchr(m, s, c) ==
  LET from[index \in Nat] ==
        IF m[s + index] = 0 THEN IF c = 0 THEN s + index + 1 ELSE NULL
        ELSE IF Char(m[s + index]) = c THEN s + index
        ELSE from[index + 1]
  IN from[0]

-----------------------------------------------------------------------------
(* What the functions are to do.                                           *)

\* The string at s ends inside the memory.
IsString(m, s) == \E e \in DOMAIN m : e >= s /\ m[e] = 0
End(m, s) == CHOOSE e \in DOMAIN m :
  e >= s /\ m[e] = 0 /\ \A a \in DOMAIN m : a >= s /\ a < e => m[a] # 0
InMemory(m, s, n) == \A a \in s .. s + n - 1 : a \in DOMAIN m

\* memset takes a byte as an unsigned or as a signed char, and nothing larger.
\* A copy is exact unless the source lies below the destination and reaches
\* into it; nothing else is touched.
MemoryFunctionsRight(m, s, t, n) ==
  InMemory(m, s, n) /\ InMemory(m, t, n) =>
    /\ \A b \in 0 .. BYTE - 1 : \A c \in {b, Char(b)} :
         memset(m, t, c, n) = [a \in DOMAIN m |-> IF a \in t .. t + n - 1 THEN b ELSE m[a]]
    /\ \A c \in BYTE .. 2 * BYTE : memset(m, t, c, n) = Halted
    /\ t <= s \/ t >= s + n =>
         memcpy(m, t, s, n) =
           [a \in DOMAIN m |-> IF a \in t .. t + n - 1 THEN m[s + a - t] ELSE m[a]]

\* A copied string has the length of the original and compares equal to it.
\* Comparing is a preorder, and a proper beginning of a string is before it, as
\* string_test.c expects.  A character, negative or not, is found where it first
\* stands; of the terminator, TerminatorFound says what string_test.c expects.
StringFunctionsRight(m, s, t) ==
  IsString(m, s) =>
    /\ strlen(m, s) = End(m, s) - s
    /\ LET n == strlen(m, s) + 1
           copied == strcpy(m, t, s)
       IN InMemory(m, t, n) /\ (t <= s \/ t >= s + n) =>
            /\ IsString(copied, t) /\ strlen(copied, t) = n - 1
            /\ t + n <= s \/ t >= s + n => strcmp(copied, s, t) = 0
    /\ IsString(m, t) =>
         /\ strcmp(m, s, t) = -strcmp(m, t, s)
         /\ t \in s + 1 .. End(m, s) => strcmp(m, s, t) > 0
    /\ \A b \in 1 .. BYTE - 1 :
         LET found == {a \in s .. End(m, s) : m[a] = b}
         IN IF found = {} THEN strchr(m, s, Char(b)) = NULL
              ELSE /\ strchr(m, s, Char(b)) \in found
                   /\ \A a \in found : strchr(m, s, Char(b)) <= a

VARIABLE buffer   \* what the functions were called with, or NoBuffer

NoBuffer == [n |-> -1]
StringsInit == buffer = NoBuffer
StringsCalled == buffer = NoBuffer /\ buffer' \in Buffers
StringsSpec == StringsInit /\ [][StringsCalled]_buffer

\* The functions of string.c do what their names promise and string_test.c
\* tests, but for one line of it (TerminatorFound), for any contents of the
\* memory, also where ranges overlap; and memset asserts against an int that is
\* no byte.
StringsRight ==
  buffer # NoBuffer =>
    /\ MemoryFunctionsRight(buffer.mem, buffer.s, buffer.t, buffer.n)
    /\ StringFunctionsRight(buffer.mem, buffer.s, buffer.t)

\* string_test.c:131, of strchr: the terminator of a string is found where it
\* stands.
TerminatorFound ==
  buffer # NoBuffer /\ IsString(buffer.mem, buffer.s) =>
    strchr(buffer.mem, buffer.s, 0) = End(buffer.mem, buffer.s)
=============================================================================
