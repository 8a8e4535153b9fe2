--------------------------------- MODULE Drbg ---------------------------------
(***************************************************************************)
(* One generator behind alcp_drbg_request / initialize / randomize, with   *)
(* the entropy source the builder made for it: the class Drbg over         *)
(* HmacDrbg or CtrDrbg, the latter with or without derivation function.    *)
(* A call that needs entropy waits for its source between its steps.  A    *)
(* random number handle (alcp_rng_gen_random) asks the same source.        *)
(*                                                                         *)
(* The working state (K, V) is what was done to it, in order: `ops' holds  *)
(* one record for each time a new K was made, with the number of V's made  *)
(* since the previous one and the data mixed in, and `steps' the number of *)
(* V's made under the current K.  An output block is the V (for HMAC) or   *)
(* the encrypted V (for CTR) after so many steps.  Two different histories *)
(* give different values unless HMAC or AES collide.                       *)
(***************************************************************************)
EXTENDS EntropySource, Sequences

CONSTANTS
  EntropyLen,     (* m_entropy_len                                         *)
  NonceLen,       (* m_nonce_len                                           *)
  ReseedLen,      (* bytes drawn for prediction resistance: 128            *)
  SeedBlocks,     (* blocks CTR encrypts to make a new K and V             *)
  MaxBlocks,      (* bound: output blocks of one request                   *)
  MaxCalls        (* bound: calls made on the handles                      *)

ASSUME DrbgAssumption ==
  /\ EntropyLen \in 1 .. MaxLen
  /\ NonceLen \in 0 .. MaxLen
  /\ ReseedLen \in 1 .. MaxLen
  /\ SeedBlocks \in Nat \ {0}
  /\ MaxBlocks \in Nat \ {0}
  /\ MaxCalls \in Nat

VARIABLES
  mech,           (* "hmac", "ctr" or "ctr_df"                             *)
  resist,         (* m_prediction_resistance                               *)
  pc,             (* "idle", or what the source has been asked for         *)
  arg,            (* personalization or additional input, and blocks asked *)
  entropy,        (* entropy_input while the nonce is drawn                *)
  kv,             (* K and V                                               *)
  seeded,         (* history: last draw and text of the last successful    *)
                  (* initialize, draw 0 if there was none                  *)
  delivered,      (* history: the blocks handed to the caller since        *)
  keyed,          (* history: the blocks CTR has made keys of since        *)
  calls,          (* calls made                                            *)
  ret             (* what the last call was and returned                   *)

vars == <<src, asked, out, reads, buf, status, draws, played,
          mech, resist, pc, arg, entropy, kv, seeded, delivered, keyed,
          calls, ret>>

Mechanisms == {"hmac", "ctr", "ctr_df"}

\* Nothing, something that fits the seed, something longer than the seed.
Inputs == {"none", "short", "long"}

NoArg == [data |-> "none", blocks |-> 0]

Nothing == [i \in {} |-> 0]

\* What is mixed into K and V: the caller's text, or entropy as well.
Text(d) == [kind |-> "input", ent |-> Nothing, nonce |-> Nothing, text |-> d]

Returned(op, err) == ret' = [op |-> op, err |-> err]

-----------------------------------------------------------------------------
\* A new K made of the current V and some data.
Keyed(w, round, d, steps) ==
  [base |-> w.base,
   ops |-> Append(w.ops, [at |-> w.steps, round |-> round, data |-> d]),
   steps |-> steps]

\* HMAC's update: K and V once, and once more if there is any data.
HmacUpdate(w, d) ==
  IF d = Text("none") THEN Keyed(w, 0, d, 1)
                      ELSE Keyed(Keyed(w, 0, d, 1), 1, d, 1)

\* CTR's update: the next blocks, xored with the data, are the new K and V.
CtrUpdate(w, d) == Keyed(w, 0, d, 0)

Updated(w, d) == IF mech = "hmac" THEN HmacUpdate(w, d) ELSE CtrUpdate(w, d)

Block(w, n) == [base |-> w.base, ops |-> w.ops, step |-> n]

\* The blocks that CTR's update of w uses up; HMAC uses none as a key.
KeyBlocks(w) ==
  IF mech = "hmac" THEN {}
  ELSE {Block(w, w.steps + i) : i \in 1 .. SeedBlocks}

\* (K, V) as the constructor leaves them: zeros.
Fresh == [base |-> "zero", ops |-> <<>>, steps |-> 0]

\* ... and as instantiate sets them first: HMAC's V is all ones.
Restarted ==
  [base |-> IF mech = "hmac" THEN "ones" ELSE "zero", ops |-> <<>>, steps |-> 0]

\* The seed material: without derivation function there is no nonce in it.
SeedMaterial(e, n, p) ==
  [kind |-> "seed", ent |-> e, text |-> p,
   nonce |-> IF mech = "ctr" THEN Nothing ELSE n]

\* A personalization string longer than the seed ends CtrDrbg::instantiate
\* with a message on the terminal, after K and V were set to zero.
TooLong(p) == mech = "ctr" /\ p = "long"

Instantiated(e, n, p) ==
  IF TooLong(p) THEN Restarted ELSE Updated(Restarted, SeedMaterial(e, n, p))

-----------------------------------------------------------------------------
Init ==
  /\ SourceInit
  /\ mech \in Mechanisms
  /\ resist = FALSE
  /\ pc = "idle"
  /\ arg = NoArg
  /\ entropy = Nothing
  /\ kv = Fresh
  /\ seeded = [draw |-> 0, text |-> "none"]
  /\ delivered = {}
  /\ keyed = {}
  /\ calls = 0
  /\ ret = [op |-> "request", err |-> "NONE"]

\* Bound: no call is made after the last.
Call ==
  /\ pc = "idle"
  /\ calls < MaxCalls
  /\ calls' = calls + 1

\* The call waits for n bytes from its source.
Wait(what, n) == pc' = what /\ Ask(n)

\* The call is over; what it asked its source for is dropped.
Done(op, err) ==
  /\ pc' = "idle"
  /\ arg' = NoArg
  /\ entropy' = Nothing
  /\ Taken
  /\ Returned(op, err)

Failed(op) ==
  /\ Done(op, "NO_ENTROPY")
  /\ UNCHANGED <<mech, resist, kv, seeded, delivered, keyed, calls>>

Answered(what) == pc = what /\ status = "NONE"

Refused(what) == pc = what /\ status = "NO_ENTROPY"

-----------------------------------------------------------------------------
Initialize(p) ==
  /\ Call
  /\ Wait("entropy", EntropyLen)
  /\ arg' = [data |-> p, blocks |-> 0]
  /\ UNCHANGED <<mech, resist, entropy, kv, seeded, delivered, keyed, ret>>

\* Variant of Instantiate: K and V are not set back first.
InstantiateOnTop(e, n) ==
  /\ kv' = Updated(kv, SeedMaterial(e, n, arg.data))
  /\ seeded' = [draw |-> draws, text |-> arg.data]
  /\ delivered' = {}
  /\ keyed' = IF TooLong(arg.data) THEN {} ELSE KeyBlocks(Restarted)
  /\ Done("initialize", "NONE")
  /\ UNCHANGED <<mech, resist, calls>>

Instantiate(e, n) ==
  /\ kv' = Instantiated(e, n, arg.data)
  /\ seeded' = [draw |-> draws, text |-> arg.data]
  /\ delivered' = {}
  /\ keyed' = IF TooLong(arg.data) THEN {} ELSE KeyBlocks(Restarted)
  /\ Done("initialize", "NONE")
  /\ UNCHANGED <<mech, resist, calls>>

EntropyFails == Refused("entropy") /\ Failed("initialize")

EntropyArrives ==
  /\ Answered("entropy")
  /\ IF NonceLen = 0
     THEN Instantiate(buf, Nothing)
     ELSE /\ entropy' = buf
          /\ Wait("nonce", NonceLen)
          /\ UNCHANGED <<mech, resist, arg, kv, seeded, delivered, keyed,
                         calls, ret>>

NonceFails == Refused("nonce") /\ Failed("initialize")

NonceArrives == Answered("nonce") /\ Instantiate(entropy, buf)

-----------------------------------------------------------------------------
\* Variant of Generate: CTR's counter is not stored before the last update.
GenerateOldCounter(w, d, n) ==
  LET w1 == IF d = "none" THEN w ELSE Updated(w, Text(d))
      made == {Block(w1, w1.steps + i) : i \in 1 .. n}
  IN /\ kv' = Updated(w1, Text(d))
     /\ delivered' = delivered \cup made
     /\ keyed' = keyed \cup (IF d = "none" THEN {} ELSE KeyBlocks(w))
                       \cup KeyBlocks(w1)

\* generate: the additional input is mixed in before the blocks, if there is
\* any, and after them in any case.
Generate(w, d, n) ==
  LET w1 == IF d = "none" THEN w ELSE Updated(w, Text(d))
      w2 == [w1 EXCEPT !.steps = @ + n]
      made == {Block(w1, w1.steps + i) : i \in 1 .. n}
  IN /\ kv' = Updated(w2, Text(d))
     /\ delivered' = delivered \cup made
     /\ keyed' = keyed \cup (IF d = "none" THEN {} ELSE KeyBlocks(w))
                       \cup KeyBlocks(w2)

\* n counts whole blocks and the one a remainder takes.
Randomize(d, n) ==
  /\ Call
  /\ ~resist
  /\ Generate(kv, d, n)
  /\ Returned("randomize", "NONE")
  /\ UNCHANGED <<src, asked, out, reads, buf, status, draws, played,
                 mech, resist, pc, arg, entropy, seeded>>

RandomizeResisting(d, n) ==
  /\ Call
  /\ resist
  /\ Wait("reseed", ReseedLen)
  /\ arg' = [data |-> d, blocks |-> n]
  /\ UNCHANGED <<mech, resist, entropy, kv, seeded, delivered, keyed, ret>>

\* Variant of Reseeded: nothing is done.
ReseededNot(w, e, d) == w

\* internalReseed: HMAC mixes in the entropy and the additional input, which
\* generate mixes in again; CTR's is still to be written.
Reseeded(w, e, d) ==
  IF mech = "hmac"
  THEN Updated(w, [kind |-> "reseed", ent |-> e, nonce |-> Nothing, text |-> d])
  ELSE w

ReseedFails == Refused("reseed") /\ Failed("randomize")

ReseedArrives ==
  /\ Answered("reseed")
  /\ Generate(Reseeded(kv, buf, arg.data), arg.data, arg.blocks)
  /\ Done("randomize", "NONE")
  /\ UNCHANGED <<mech, resist, seeded, calls>>

SetPredictionResistance(b) ==
  /\ pc = "idle"
  /\ resist' = b
  /\ Returned("setPredictionResistance", "NONE")
  /\ UNCHANGED <<src, asked, out, reads, buf, status, draws, played,
                 mech, pc, arg, entropy, kv, seeded, delivered, keyed, calls>>

-----------------------------------------------------------------------------
\* The random number handle: its wrapper drops what the source returns.
GenRandom(n) ==
  /\ Call
  /\ src # "custom"
  /\ Wait("random", n)
  /\ UNCHANGED <<mech, resist, arg, entropy, kv, seeded, delivered, keyed, ret>>

GenRandomReturns ==
  /\ pc = "random"
  /\ status \in {"NONE", "NO_ENTROPY"}
  /\ Done("gen_random", "NONE")
  /\ UNCHANGED <<mech, resist, kv, seeded, delivered, keyed, calls>>

-----------------------------------------------------------------------------
\* What goes on inside a call.
Proceed ==
  \/ EntropyFails \/ EntropyArrives
  \/ NonceFails \/ NonceArrives
  \/ ReseedFails \/ ReseedArrives
  \/ GenRandomReturns

Answer ==
  /\ SourceStep
  /\ UNCHANGED <<mech, resist, pc, arg, entropy, kv, seeded, delivered, keyed,
                 calls, ret>>

\* CtrDrbg copies additional input of any length into a buffer of fixed size;
\* callers are taken to keep to the seed length.
CallAny ==
  \/ \E p \in Inputs : Initialize(p)
  \/ \E d \in Inputs \ {"long"}, n \in 0 .. MaxBlocks :
       Randomize(d, n) \/ RandomizeResisting(d, n)
  \/ \E b \in BOOLEAN : SetPredictionResistance(b)
  \/ \E n \in 1 .. MaxLen : GenRandom(n)

Next == CallAny \/ Proceed \/ Answer

\* The system answers, and a call goes on when it has; nobody has to call.
Fairness == WF_vars(Answer) /\ WF_vars(Proceed)

Spec == Init /\ [][Next]_vars /\ Fairness

-----------------------------------------------------------------------------
TypeOK ==
  /\ SourceTypeOK
  /\ mech \in Mechanisms
  /\ resist \in BOOLEAN
  /\ pc \in {"idle", "entropy", "nonce", "reseed", "random"}
  /\ (pc = "idle") <=> (status = "idle")
  /\ arg.data \in Inputs
  /\ arg.blocks \in 0 .. MaxBlocks
  /\ seeded.draw \in 0 .. draws
  /\ seeded.text \in Inputs
  /\ kv.steps \in Nat
  /\ calls \in 0 .. MaxCalls

\* The two sources of which the code does not say that they write everything:
\* RDRAND leaves an odd last byte, the play-back source answers two requests.
Complete ==
  /\ src = "hw" => asked % Stride = 0
  /\ src = "custom" => draws <= 2

(***************************************************************************)
(* A source that reports success has written every byte of the request,    *)
(* however its reads were cut and failed (system_rng.cc:98-117), with the  *)
(* two exceptions of Complete.                                             *)
(***************************************************************************)
SourceHonest == status = "NONE" /\ Complete => Filled

(***************************************************************************)
(* When initialize has returned success, K and V were made from the entropy*)
(* and the nonce drawn by that call, from all of their bytes and from      *)
(* nothing older (drbg.cc:62-76 and the two instantiate functions).  Named *)
(* exceptions: the sources above, and a personalization string that        *)
(* CtrDrbg drops together with the seed (drbg_ctr.cc:215-219).             *)
(***************************************************************************)
SeedIsFresh ==
  LET seed == kv.ops[1].data
      nonceDrawn == IF NonceLen = 0 THEN 0 ELSE 1
  IN /\ seeded.draw > 0
     /\ ~TooLong(seeded.text)
     /\ src = "hw" => EntropyLen % Stride = 0 /\ NonceLen % Stride = 0
     /\ src = "custom" => seeded.draw <= 2
     => /\ kv.base = Restarted.base
        /\ kv.ops # <<>>
        /\ kv.ops[1].at = 0
        /\ seed.kind = "seed"
        /\ seed.text = seeded.text
        /\ DOMAIN seed.ent = 1 .. EntropyLen
        /\ \A i \in DOMAIN seed.ent : seed.ent[i] = seeded.draw - nonceDrawn
        /\ mech # "ctr" => DOMAIN seed.nonce = 1 .. NonceLen
        /\ \A i \in DOMAIN seed.nonce : seed.nonce[i] = seeded.draw

(***************************************************************************)
(* Whoever learns K and V after a request cannot compute what it, or any   *)
(* request before it, delivered: K has been replaced since, one way; and   *)
(* no key of CTR was made of blocks the caller has seen (the last update   *)
(* of generate, drbg_hmac.cc:506, drbg_ctr_avx2.cc:214).  In particular no *)
(* block is delivered twice.                                               *)
(***************************************************************************)
PastIsSafe ==
  /\ \A b \in delivered : b.base = kv.base => Len(b.ops) < Len(kv.ops)
  /\ delivered \cap keyed = {}

(***************************************************************************)
(* With prediction resistance, what HmacDrbg delivers depends on entropy   *)
(* drawn during the request (drbg.cc:126-138).  CtrDrbg is left out: its   *)
(* internalReseed is empty (drbg_ctr.cc:282).                              *)
(***************************************************************************)
ReseedReaches ==
  [][ pc = "reseed" /\ pc' = "idle" /\ mech = "hmac" /\ Complete
      => \A b \in delivered' \ delivered :
           \E i \in DOMAIN b.ops :
             /\ b.ops[i].data.kind = "reseed"
             /\ \A j \in 1 .. ReseedLen : b.ops[i].data.ent[j] = draws ]_vars

(***************************************************************************)
(* Every call returns, however the system cuts, fails or repeats its       *)
(* answers: the loop of SystemRng gives up after ten more attempts         *)
(* (system_rng.cc:104).                                                     *)
(***************************************************************************)
CallsReturn == (pc # "idle") ~> (pc = "idle")
=============================================================================
