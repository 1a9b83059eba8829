-------------------------------- MODULE Md5 ---------------------------------
(***************************************************************************)
(* How the updater feeds a downloaded file to MD5 (compute_file_md5,       *)
(* updater.c, lines 338-378; MD5Init, MD5Update, MD5Final, md5.c, lines    *)
(* 28-78): it reads the file in pieces, MD5Update cuts them into blocks    *)
(* through a buffer, MD5Final pads the rest and adds the length, a number  *)
(* of bits kept in two words.                                              *)
(*                                                                         *)
(* The rounds of MD5Transform are left out: the digest is the sequence of  *)
(* blocks it has been given.  A byte is where it comes from; the buffer,   *)
(* which MD5Init leaves as it is, starts with bytes that come from nowhere.*)
(***************************************************************************)
EXTENDS Naturals, SequencesExt

CONSTANTS
    Block,      \* 64, the bytes of a block
    Word,       \* 2^32, what a word of count holds, in bits of the length
    ReadSizes,  \* what READ_DATA_SIZE may be (1024)
    MaxBytes    \* bound of the model: the longest file

Md5Assumption ==
    /\ Block \in Nat /\ Block > 2
    /\ Word \in Nat \ {0} /\ Word % (8 * Block) = 0
    /\ ReadSizes \subseteq Nat \ {0}
    /\ MaxBytes \in Nat

VARIABLES
    size,     \* READ_DATA_SIZE
    length,   \* the bytes of the file
    pos,      \* how much of it has been read
    ctx,      \* MD5_CTX: count, buffer, and the blocks in place of state
    pc        \* compute_file_md5: "read", "final", "done" or "failed"

vars == <<size, length, pos, ctx, pc>>

FileByte(n)   == <<"file", n>>
PadByte(n)    == <<"pad", n>>
LengthWord(w) == <<"length", w>>

(* The length takes two places of the last block here, 8 in the code.      *)
LengthBytes(count) == <<LengthWord(count[1]), LengthWord(count[2])>>

PADDING == [i \in 1..Block |-> IF i = 1 THEN PadByte(128) ELSE PadByte(0)]

MD5Init == [count  |-> <<0, 0>>,
            buffer |-> [i \in 1..Block |-> PadByte(0)],
            blocks |-> <<>>]

-----------------------------------------------------------------------------
Index(c) == (c.count[1] \div 8) % Block

(* The addition of line 46 wraps; a sum below its operand carries.         *)
Count(c, n) ==
    LET bits == (n * 8) % Word
        low  == (c.count[1] + bits) % Word
    IN  <<low, (c.count[2] + (IF low < bits THEN 1 ELSE 0)
                           + ((n * 8) \div Word)) % Word>>

Fills(n, part) == n >= part

MD5Update(c, input) ==
    LET index == Index(c)
        part  == Block - index
        whole == IF Fills(Len(input), part)
                   THEN (Len(input) - part) \div Block ELSE 0
        used  == IF Fills(Len(input), part) THEN part + whole * Block ELSE 0
        start == IF Fills(Len(input), part) THEN 0 ELSE index
        rest  == SubSeq(input, used + 1, Len(input))
        first == SubSeq(c.buffer, 1, index) \o SubSeq(input, 1, part)
        held  == IF Fills(Len(input), part) THEN first ELSE c.buffer
    IN  [count  |-> Count(c, Len(input)),
         buffer |-> [i \in 1..Block |->
                       IF i \in (start + 1)..(start + Len(rest))
                         THEN rest[i - start] ELSE held[i]],
         blocks |-> c.blocks \o
                    (IF Fills(Len(input), part) THEN <<first>> ELSE <<>>) \o
                    [j \in 1..whole |->
                       SubSeq(input, part + (j - 1) * Block + 1,
                              part + j * Block)]]

(* Deliberately wrong variant: the length is taken after the padding.      *)
FinalLate(c) ==
    LET index == Index(c)
        pad   == IF index < Block - 2 THEN Block - 2 - index
                                      ELSE 2 * Block - 2 - index
        d     == MD5Update(c, SubSeq(PADDING, 1, pad))
    IN  MD5Update(d, LengthBytes(d.count))

MD5Final(c) ==
    LET index == Index(c)
        pad   == IF index < Block - 2 THEN Block - 2 - index
                                      ELSE 2 * Block - 2 - index
    IN  MD5Update(MD5Update(c, SubSeq(PADDING, 1, pad)),
                  LengthBytes(c.count))

-----------------------------------------------------------------------------
TypeOK ==
    /\ size \in ReadSizes
    /\ length \in 0..MaxBytes /\ pos \in 0..length
    /\ pc \in {"read", "final", "done", "failed"}
    /\ DOMAIN ctx = {"count", "buffer", "blocks"}
    /\ \A w \in 1..2 : ctx.count[w] \in 0..(Word - 1)
    /\ DOMAIN ctx.buffer = 1..Block
    /\ \A n \in DOMAIN ctx.blocks : Len(ctx.blocks[n]) = Block

Init ==
    /\ size \in ReadSizes /\ length \in 0..MaxBytes
    /\ pos = 0 /\ ctx = MD5Init /\ pc = "read"

(* A read of less than was asked for is the last.                          *)
Read ==
    LET n == IF length - pos < size THEN length - pos ELSE size
    IN  /\ pc = "read"
        /\ pos' = pos + n
        /\ ctx' = MD5Update(ctx, [i \in 1..n |-> FileByte(pos + i)])
        /\ pc' = IF n < size THEN "final" ELSE "read"
        /\ UNCHANGED <<size, length>>

ReadFails ==
    /\ pc = "read" /\ pc' = "failed"
    /\ UNCHANGED <<size, length, pos, ctx>>

Finish ==
    /\ pc = "final" /\ pc' = "done"
    /\ ctx' = MD5Final(ctx)
    /\ UNCHANGED <<size, length, pos>>

Next == Read \/ ReadFails \/ Finish

Spec == Init /\ [][Next]_vars

-----------------------------------------------------------------------------
(* The message that the standard defines for a file of n bytes: the file,  *)
(* one bit, as few zeros as fill the blocks, and the length in bits, as    *)
(* far as two words hold it.                                               *)
Zeros(n) == CHOOSE z \in 0..(Block - 1) : (n + 1 + z + 2) % Block = 0

Message(n) ==
    [i \in 1..n |-> FileByte(i)] \o <<PadByte(128)>>
    \o [i \in 1..Zeros(n) |-> PadByte(0)]
    \o LengthBytes(<<(n * 8) % Word, ((n * 8) \div Word) % Word>>)

(* The blocks absorbed are that message, for every length of the file and  *)
(* however it is cut into pieces (updater.c, 355-369; md5.c, 44-76).       *)
AbsorbsMessage ==
    pc = "done" =>
        LET m == Message(length)
        IN  /\ Len(m) = Len(ctx.blocks) * Block
            /\ \A b \in DOMAIN ctx.blocks :
                 ctx.blocks[b] = SubSeq(m, (b - 1) * Block + 1, b * Block)
=============================================================================
