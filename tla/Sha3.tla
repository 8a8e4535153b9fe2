-------------------------------- MODULE Sha3 --------------------------------
(***************************************************************************)
(* SHA-3 and SHAKE sessions behind alcp_digest_init / update / finalize /  *)
(* shake_squeeze / context_copy: the class Sha3, whose one permutation     *)
(* state takes the message in and gives the output out, and which is       *)
(* copied to fork a session.                                               *)
(*                                                                         *)
(* The state of Keccak is determined by the blocks xored into it before    *)
(* each permutation, so it is the sequence of them; a permutation without  *)
(* input takes in a block of zeros.  An output byte is the state it was    *)
(* read from and its place there.  Every operation works through the       *)
(* pointer m_state_flat, so which object it points into is kept, too.      *)
(***************************************************************************)
EXTENDS Integers, Sequences

CONSTANTS
  Handles,          (* the digest handles                                  *)
  Block,            (* m_block_len: 72 to 168 bytes in the code            *)
  DigestLen,        (* m_digest_len of a SHA-3 session                     *)
  Data,             (* what one update may hand over                       *)
  Sizes,            (* how many bytes may be asked for at once             *)
  MaxMsg,           (* bound: bytes one message may have                   *)
  MaxOut            (* bound: bytes taken from one message                 *)

ASSUME Sha3Assumption ==
  /\ Block \in Nat \ {0}
  /\ DigestLen \in 1 .. Block
  /\ Data \subseteq Seq(0 .. 255)
  /\ Sizes \subseteq Nat
  /\ MaxMsg \in Nat
  /\ MaxOut \in Nat

VARIABLES
  kind,             (* what every handle was requested for                 *)
  state,            (* m_state of each object                              *)
  flat,             (* the object m_state_flat of each object points into  *)
  s,                (* the rest of each object, see Blank                  *)
  ret               (* what the last call was, on what, and returned       *)

vars == <<kind, state, flat, s, ret>>

-----------------------------------------------------------------------------
Zeros(n) == [i \in 1 .. n |-> 0]

\* The two bits (or four) that tell a SHA-3 message from a SHAKE one, and the
\* first bit of the padding.
Suffix == IF kind = "shake" THEN 31 ELSE 6

\* The whole blocks of b, each followed by a permutation.
Absorbed(p, b) ==
  p \o [i \in 1 .. (Len(b) \div Block) |-> SubSeq(b, Block * (i - 1) + 1, Block * i)]

Turned(p, n) == p \o [i \in 1 .. n |-> Zeros(Block)]

(***************************************************************************)
(* FIPS 202: the message, its suffix and pad10*1 up to a whole block; and  *)
(* byte i of the output of the sponge.                                     *)
(***************************************************************************)
Standard(m) ==
  LET q == Block - (Len(m) % Block)
  IN IF q = 1 THEN m \o <<Suffix + 128>>
              ELSE ((m \o <<Suffix>>) \o Zeros(q - 2)) \o <<128>>

OutputOf(m, i) ==
  [sponge |-> Turned(Absorbed(<<>>, Standard(m)), (i - 1) \div Block),
   at |-> (i - 1) % Block]

-----------------------------------------------------------------------------
\* buf: what waits in m_buffer; squeezing: m_processing_state; index:
\* m_shake_index.  History: the message since init, the bytes given out, and
\* whether the session was given data or finalized after its first squeeze.
Blank ==
  [buf |-> <<>>, finished |-> FALSE, squeezing |-> FALSE, index |-> 0,
   fed |-> <<>>, given |-> <<>>, mixed |-> FALSE]

Init ==
  /\ kind \in {"sha3", "shake"}
  /\ state = [h \in Handles |-> <<>>]
  /\ flat = [h \in Handles |-> h]
  /\ s = [h \in Handles |-> Blank]
  /\ \E h \in Handles : ret = [op |-> "request", h |-> h, err |-> "NONE"]

Sponge(h) == state[flat[h]]

\* The call leaves session r and, behind the pointer, the state p.
Leaves(h, p, r, op) ==
  /\ state' = [state EXCEPT ![flat[h]] = p]
  /\ s' = [s EXCEPT ![h] = r]
  /\ ret' = [op |-> op, h |-> h, err |-> "NONE"]
  /\ UNCHANGED <<kind, flat>>

Fails(h, op, err) ==
  /\ ret' = [op |-> op, h |-> h, err |-> err]
  /\ UNCHANGED <<kind, state, flat, s>>

\* Variant of InitSession: m_idx is not reset.
InitSessionKeepsBuffer(h) ==
  /\ state' = [state EXCEPT ![h] = <<>>]
  /\ s' = [s EXCEPT ![h] = [Blank EXCEPT !.buf = s[h].buf]]
  /\ ret' = [op |-> "init", h |-> h, err |-> "NONE"]
  /\ UNCHANGED <<kind, flat>>

\* init clears the object's own state, not what the pointer points into.
InitSession(h) ==
  /\ state' = [state EXCEPT ![h] = <<>>]
  /\ s' = [s EXCEPT ![h] = Blank]
  /\ ret' = [op |-> "init", h |-> h, err |-> "NONE"]
  /\ UNCHANGED <<kind, flat>>

-----------------------------------------------------------------------------
UpdateRefused(h) ==
  /\ s[h].finished
  /\ Fails(h, "update", "INVALID_ARG")

UpdateNothing(h) ==
  /\ ~s[h].finished
  /\ Fails(h, "update", "NONE")

\* The session that took d and holds b.
Fed(r, d, b) ==
  [r EXCEPT !.buf = b, !.fed = @ \o d, !.mixed = @ \/ r.squeezing]

Accepts(h, d) ==
  /\ ~s[h].finished
  /\ d # <<>>
  /\ Len(s[h].fed) + Len(d) <= MaxMsg

UpdateBuffered(h, d) ==
  /\ Accepts(h, d)
  /\ Len(s[h].buf) + Len(d) < Block
  /\ Leaves(h, Sponge(h), Fed(s[h], d, s[h].buf \o d), "update")

\* The bytes of d that complete the block in the buffer.
Fill(b) == IF b = <<>> THEN 0 ELSE Block - Len(b)

\* That block, if there is one, then the whole blocks of d that follow; what
\* is left waits.  Nothing asks whether output was taken already.
UpdateProcessed(h, d) ==
  LET b == s[h].buf
      n == Fill(b)
      whole == Block * ((Len(d) - n) \div Block)
  IN /\ Accepts(h, d)
     /\ Len(b) + Len(d) >= Block
     /\ Leaves(h,
               Absorbed(Absorbed(Sponge(h), b \o SubSeq(d, 1, n)),
                        SubSeq(d, n + 1, n + whole)),
               Fed(s[h], d, SubSeq(d, n + whole + 1, Len(d))),
               "update")

Update(h, d) ==
  \/ UpdateRefused(h)
  \/ d = <<>> /\ UpdateNothing(h)
  \/ UpdateBuffered(h, d)
  \/ UpdateProcessed(h, d)

-----------------------------------------------------------------------------
\* m_buffer once it is padded: the suffix behind the bytes that wait, zeros,
\* and a one bit ored into the last byte, which may be that of the suffix.
LastBlock(b) ==
  [i \in 1 .. Block |->
     (IF i <= Len(b) THEN b[i] ELSE IF i = Len(b) + 1 THEN Suffix ELSE 0)
       + (IF i = Block THEN 128 ELSE 0)]

Closed(h) == Absorbed(Sponge(h), LastBlock(s[h].buf))

\* The permutations needed to read n bytes from place x on: one before each
\* block but the first.
Turns(x, n) == (x + n - 1) \div Block

\* Variant of IndexAfter: a block read to its end is taken to be permuted.
IndexAfterWrapped(x, n) == (x + n) % Block

\* Variant of IndexAfter: the index is never set back.
IndexAfterUnwrapped(x, n) == x + n

\* m_shake_index then: from 1 to the length of the block.
IndexAfter(x, n) == x + n - Block * Turns(x, n)

Read(p, x, n) ==
  [i \in 1 .. n |-> [sponge |-> Turned(p, (x + i - 1) \div Block),
                     at |-> (x + i - 1) % Block]]

\* squeezeChunk: n bytes from where the last one ended, from the state p.
Squeezed(h, p, n, op) ==
  LET x == s[h].index
  IN Leaves(h, Turned(p, Turns(x, n)),
            [s[h] EXCEPT !.squeezing = TRUE,
                         !.index = IndexAfter(x, n),
                         !.given = @ \o Read(p, x, n)], op)

Room(h, n) == Len(s[h].given) + n <= MaxOut

\* Only SHAKE's builder sets the function.
SqueezeUnsupported(h) ==
  /\ kind = "sha3"
  /\ Fails(h, "squeeze", "INVALID_DATA")

SqueezeRefused(h) ==
  /\ kind = "shake"
  /\ s[h].finished
  /\ Fails(h, "squeeze", "NOT_PERMITTED")

\* The first squeeze pads and absorbs the buffer; its bytes still count as
\* waiting.
SqueezeFirst(h, n) ==
  /\ kind = "shake"
  /\ ~s[h].finished
  /\ ~s[h].squeezing
  /\ Room(h, n)
  /\ Squeezed(h, Closed(h), n, "squeeze")

SqueezeMore(h, n) ==
  /\ kind = "shake"
  /\ ~s[h].finished
  /\ s[h].squeezing
  /\ Room(h, n)
  /\ Squeezed(h, Sponge(h), n, "squeeze")

Squeeze(h, n) ==
  \/ SqueezeUnsupported(h)
  \/ SqueezeRefused(h)
  \/ SqueezeFirst(h, n)
  \/ SqueezeMore(h, n)

-----------------------------------------------------------------------------
SizeOk(n) == IF kind = "sha3" THEN n = DigestLen ELSE n > 0

\* Success is reported and nothing written, whatever the caller's buffer.
FinalizeAgain(h) ==
  /\ s[h].finished
  /\ Fails(h, "finalize", "NONE")

FinalizeRefused(h, n) ==
  /\ ~s[h].finished
  /\ ~SizeOk(n)
  /\ Fails(h, "finalize", "INVALID_ARG")

\* A null buffer ends the session as well: only callers of the class get here,
\* the C function refuses the pointer before.
FinalizeNull(h, n) ==
  /\ ~s[h].finished
  /\ SizeOk(n)
  /\ s' = [s EXCEPT ![h].buf = <<>>, ![h].finished = TRUE]
  /\ ret' = [op |-> "finalize", h |-> h, err |-> "INVALID_ARG"]
  /\ UNCHANGED <<kind, state, flat>>

\* The session after finalize gave out the bytes o and stopped at place x.
Finished(r, x, o) ==
  [r EXCEPT !.buf = <<>>, !.finished = TRUE, !.index = x,
            !.squeezing = (kind = "shake"),
            !.given = @ \o o, !.mixed = @ \/ r.squeezing]

\* SHAKE goes on from m_shake_index as a squeeze does, but pads and absorbs
\* the buffer again if there was one.
FinalizeDelivers(h, n) ==
  LET p == Closed(h)
      x == s[h].index
  IN /\ ~s[h].finished
     /\ SizeOk(n)
     /\ Room(h, n)
     /\ IF kind = "shake"
        THEN Leaves(h, Turned(p, Turns(x, n)),
                    Finished(s[h], IndexAfter(x, n), Read(p, x, n)), "finalize")
        ELSE Leaves(h, p, Finished(s[h], 0, Read(p, 0, n)), "finalize")

Finalize(h, n) ==
  \/ FinalizeAgain(h)
  \/ FinalizeRefused(h, n)
  \/ FinalizeNull(h, n)
  \/ FinalizeDelivers(h, n)

-----------------------------------------------------------------------------
\* Variant of CopiedFlat: what a copy member by member would leave.
CopiedFlatMember(from, to) == flat[from]

\* The copy constructor points m_state_flat at the copy's own state.
CopiedFlat(from, to) == to

\* The new object in the context of `to'; what was there is forgotten.
Copy(from, to) ==
  /\ from # to
  /\ state' = [state EXCEPT ![to] = state[from]]
  /\ flat' = [flat EXCEPT ![to] = CopiedFlat(from, to)]
  /\ s' = [s EXCEPT ![to] = s[from]]
  /\ ret' = [op |-> "copy", h |-> to, err |-> "NONE"]
  /\ UNCHANGED kind

-----------------------------------------------------------------------------
Next ==
  \/ \E h \in Handles : InitSession(h)
  \/ \E h \in Handles, d \in Data : Update(h, d)
  \/ \E h \in Handles, n \in Sizes \ {0} : Squeeze(h, n)
  \/ \E h \in Handles, n \in Sizes : Finalize(h, n)
  \/ \E from, to \in Handles : Copy(from, to)

Spec == Init /\ [][Next]_vars

-----------------------------------------------------------------------------
Byte == 0 .. 255

Blocks == Seq([1 .. Block -> Byte])

Rets ==
  [op : {"request", "init", "update", "squeeze", "finalize", "copy"},
   h : Handles,
   err : {"NONE", "INVALID_ARG", "NOT_PERMITTED", "INVALID_DATA"}]

(* Every variable stays in the set its declaration gives it; the index     *)
(* never passes the end of the block.                                      *)
TypeOK ==
  /\ kind \in {"sha3", "shake"}
  /\ state \in [Handles -> Blocks]
  /\ flat \in [Handles -> Handles]
  /\ \A h \in Handles :
       /\ s[h].buf \in Seq(Byte)
       /\ s[h].finished \in BOOLEAN
       /\ s[h].squeezing \in BOOLEAN
       /\ s[h].index \in 0 .. Block
       /\ s[h].fed \in Seq(Byte)
       /\ s[h].given \in Seq([sponge : Blocks, at : 0 .. (Block - 1)])
       /\ s[h].mixed \in BOOLEAN
  /\ ret \in Rets

(***************************************************************************)
(* While a message is being absorbed, the state has taken in exactly its   *)
(* whole blocks and the rest waits, however it was cut into calls and      *)
(* whichever session it was copied from (sha3.cc:334-380).                 *)
(***************************************************************************)
MessageAccounted ==
  \A h \in Handles :
    LET fed == s[h].fed
        whole == Block * (Len(fed) \div Block)
    IN ~s[h].finished /\ ~s[h].squeezing =>
         /\ Sponge(h) = Absorbed(<<>>, SubSeq(fed, 1, whole))
         /\ s[h].buf = SubSeq(fed, whole + 1, Len(fed))

(***************************************************************************)
(* Whatever finalize and squeeze gave out, in any number of pieces, is the *)
(* beginning of the one output FIPS 202 defines for the message, as long   *)
(* as the session was not given data or finalized after its first squeeze: *)
(* those are accepted (sha3.cc:322, 418-440) but the output is of no       *)
(* message.                                                                *)
(***************************************************************************)
StreamIsXof ==
  \A h \in Handles :
    ~s[h].mixed =>
      \A i \in 1 .. Len(s[h].given) : s[h].given[i] = OutputOf(s[h].fed, i)

(***************************************************************************)
(* No call on a session changes another one or what it will give out, the  *)
(* copies of a session included (sha3.cc:294).                             *)
(***************************************************************************)
OthersUntouched ==
  [][ \A h \in Handles :
        h # ret'.h => s'[h] = s[h] /\ state'[flat'[h]] = state[flat[h]] ]_vars
=============================================================================
