----------------------------- MODULE HmacProofs -----------------------------
(***************************************************************************)
(* Proofs about Hmac for any number of handles, keys, digest modes and any *)
(* message bound.  The inductive invariant adds two facts to the           *)
(* properties the run checks: a handle names no digest object but its own, *)
(* so that no call reaches another handle's, and nothing has been written  *)
(* while a message is still open.  The last part is about multi-buffer     *)
(* handles, HmacMB.                                                        *)
(***************************************************************************)
EXTENDS Hmac, HmacMB, SequenceTheorems, TLAPS

OwnDigest ==
  \A h \in Handles :
    /\ dptr[h] \in {Null, Dangling, h}
    /\ dptr[h] \in Handles => key[h] # Null

NothingWrittenYet == \A h \in Handles : ~finalized[h] => out[h] = Null

\* mem and out are indexed by handles.
Indexed ==
  /\ mem = [h \in Handles |-> mem[h]]
  /\ out = [h \in Handles |-> out[h]]

IInv ==
  /\ TypeOK
  /\ Indexed
  /\ OwnDigest
  /\ NothingWrittenYet
  /\ DigestHoldsMessage
  /\ CleanMac

-----------------------------------------------------------------------------
LEMMA InitIInv == Init => IInv
<1> SUFFICES ASSUME Init PROVE IInv
  OBVIOUS
<1>1. TypeOK
  BY EmptySeq DEF Init, TypeOK, Rets
<1>2. Indexed /\ OwnDigest /\ NothingWrittenYet
  BY HmacAssumption DEF Init, Indexed, OwnDigest, NothingWrittenYet
<1>3. DigestHoldsMessage /\ CleanMac
  BY HmacAssumption DEF Init, DigestHoldsMessage, CleanMac, Open, IsInit
<1>4. QED
  BY <1>1, <1>2, <1>3 DEF IInv

(* What a caller hands to update is NoData or a sequence of bytes.         *)
LEMMA DataIsSeq ==
  ASSUME NEW d \in Data, d # NoData
  PROVE  d \in Seq(Byte)
BY DEF Data

(* Feeding the digest and then some more data feeds both, after the pad.   *)
LEMMA PadThenData ==
  ASSUME NEW x, NEW m \in Seq(Byte), NEW d \in Seq(Byte)
  PROVE  (<<x>> \o m) \o d = <<x>> \o (m \o d)
<1> DEFINE S == Byte \cup {x}
<1>1. <<x>> \in Seq(S)
  OBVIOUS
<1>2. \A s \in Seq(Byte) : s \in Seq(S)
  <2> SUFFICES ASSUME NEW s \in Seq(Byte) PROVE s \in Seq(S)
    OBVIOUS
  <2>1. Len(s) \in Nat /\ s \in [1 .. Len(s) -> Byte]
    BY LenProperties
  <2>2. s \in [1 .. Len(s) -> S]
    BY <2>1
  <2>3. QED
    BY <2>1, <2>2
<1> HIDE DEF S
<1>3. m \in Seq(S) /\ d \in Seq(S)
  BY <1>2
<1>4. QED
  BY <1>1, <1>3, ConcatAssociative

-----------------------------------------------------------------------------
\* DigestHoldsMessage and CleanMac, for one handle.
Good(g) ==
  /\ Open(g) /\ dptr[g] \in Handles /\ ~spoiled[g] =>
       mem[dptr[g]] = <<IPad(key[g])>> \o fed[g]
  /\ out[g] # Null /\ ~spoiled[g] => out[g] = HmacOf(key[g], fed[g])

\* A step leaves everything that belongs to handle g as it was.
Kept(g) ==
  /\ live'[g] = live[g] /\ key'[g] = key[g] /\ dptr'[g] = dptr[g]
  /\ finalized'[g] = finalized[g] /\ fed'[g] = fed[g]
  /\ spoiled'[g] = spoiled[g] /\ out'[g] = out[g] /\ mem'[g] = mem[g]

\* What every step of handle h does for the invariant and for the others.
StepOf(h) == IInv' /\ \A g \in Handles \ {h} : Kept(g)

(* A handle that a step leaves alone stays good.                           *)
LEMMA KeptIsGood ==
  ASSUME IInv, NEW g \in Handles, Kept(g)
  PROVE  Good(g)'
<1>1. dptr[g] \in Handles => dptr[g] = g
  BY HmacAssumption DEF IInv, OwnDigest
<1>2. Good(g)
  BY DEF IInv, DigestHoldsMessage, CleanMac, Good
<1>3. (Open(g)' <=> Open(g)) /\ IPad(key[g])' = IPad(key[g])
      /\ HmacOf(key[g], fed[g])' = HmacOf(key[g], fed[g])
  BY DEF Kept, Open, IsInit, IPad, HmacOf, HashOf, OPad, K0
<1>4. dptr[g] \in Handles => mem'[dptr'[g]] = mem[dptr[g]]
  BY <1>1 DEF Kept
<1>5. QED
  BY <1>2, <1>3, <1>4 DEF Good, Kept

(* The step keeps the invariant if it keeps the types, and handle h's part *)
(* of it, and leaves the other handles alone.                              *)
LEMMA Assemble ==
  ASSUME IInv, NEW h \in Handles, TypeOK', Indexed', OwnDigest',
         \A g \in Handles \ {h} : Kept(g),
         ~finalized'[h] => out'[h] = Null,
         Good(h)'
  PROVE  StepOf(h)
<1>1. \A g \in Handles : Good(g)'
  BY KeptIsGood
<1>2. DigestHoldsMessage' /\ CleanMac'
  BY <1>1 DEF DigestHoldsMessage, CleanMac, Good
<1>3. NothingWrittenYet'
  <2>1. \A g \in Handles \ {h} : ~finalized'[g] => out'[g] = Null
    BY DEF IInv, NothingWrittenYet, Kept
  <2>2. QED
    BY <2>1 DEF NothingWrittenYet
<1>4. QED
  BY <1>2, <1>3 DEF IInv, StepOf

(* A call that only reports changes no handle.                             *)
LEMMA InertStep ==
  ASSUME IInv, NEW h \in Handles, ret' \in Rets,
         UNCHANGED <<live, mode, key, dptr, mem, finalized, fed, spoiled, out>>
  PROVE  StepOf(h)
<1>1. TypeOK' /\ Indexed' /\ OwnDigest'
  BY DEF IInv, TypeOK, Indexed, OwnDigest
<1>2. \A g \in Handles : Kept(g)
  BY DEF Kept
<1>3. ~finalized'[h] => out'[h] = Null
  BY DEF IInv, NothingWrittenYet
<1>4. Good(h)'
  BY <1>2, KeptIsGood
<1>5. QED
  BY <1>1, <1>2, <1>3, <1>4, Assemble

(* request, finish and a failed copy leave a handle without a session.     *)
LEMMA BlankStep ==
  ASSUME IInv, NEW h \in Handles, NEW l \in {"none", "empty", "built"},
         Blank(h, l), ret' \in Rets
  PROVE  StepOf(h)
<1>1. TypeOK'
  BY EmptySeq DEF IInv, TypeOK, Blank
<1>2. Indexed' /\ OwnDigest'
  BY HmacAssumption DEF IInv, TypeOK, Indexed, OwnDigest, Blank
<1>3. \A g \in Handles \ {h} : Kept(g)
  BY DEF IInv, TypeOK, Indexed, Blank, Kept
<1>4. key'[h] = Null /\ out'[h] = Null
  BY DEF IInv, TypeOK, Indexed, Blank
<1>5. Good(h)'
  BY <1>4 DEF Good, Open, IsInit
<1>6. QED
  BY <1>1, <1>2, <1>3, <1>4, <1>5, Assemble

(* init and reset start a message under the handle's key.                  *)
LEMMA FreshStep ==
  ASSUME IInv, NEW h \in Handles, NEW k \in Keys, Fresh(h, h, k),
         key' = [key EXCEPT ![h] = k], dptr' = [dptr EXCEPT ![h] = h],
         mode' \in [Handles -> Modes \cup {Null}],
         ret' \in Rets, UNCHANGED live
  PROVE  StepOf(h)
<1>1. TypeOK'
  BY EmptySeq DEF IInv, TypeOK, Fresh
<1>2. Indexed' /\ OwnDigest'
  BY HmacAssumption DEF IInv, TypeOK, Indexed, OwnDigest, Fresh
<1>3. \A g \in Handles \ {h} : Kept(g)
  BY DEF IInv, TypeOK, Indexed, Fresh, Kept
<1>4. /\ key'[h] = k /\ out'[h] = Null /\ fed'[h] = <<>>
      /\ dptr'[h] = h /\ mem'[h] = <<IPad(k)>>
  BY DEF IInv, TypeOK, Indexed, Fresh
<1>5. Good(h)'
  <2>1. <<IPad(k)>> \o <<>> = <<IPad(k)>>
    OBVIOUS
  <2>2. IPad(key[h])' = IPad(k)
    BY <1>4 DEF IPad, K0, HashOf
  <2>3. QED
    BY <1>4, <2>1, <2>2 DEF Good
<1>6. QED
  BY <1>1, <1>2, <1>3, <1>4, <1>5, Assemble

(* An unsupported mode leaves a session that can only be refused.          *)
LEMMA UnsupportedStep ==
  ASSUME IInv, NEW h \in Handles, InitUnsupported(h)
  PROVE  StepOf(h)
<1>1. TypeOK'
  BY DEF IInv, TypeOK, InitUnsupported, Returned, Rets
<1>2. Indexed' /\ OwnDigest'
  BY DEF IInv, TypeOK, Indexed, OwnDigest, InitUnsupported
<1>3. \A g \in Handles \ {h} : Kept(g)
  BY DEF IInv, TypeOK, Indexed, InitUnsupported, Kept
<1>4. ~finalized'[h] => out'[h] = Null
  BY DEF IInv, NothingWrittenYet, InitUnsupported
<1>5. dptr'[h] \notin Handles
  BY HmacAssumption DEF IInv, TypeOK, InitUnsupported
<1>6. out[h] # Null /\ ~spoiled[h] => out[h] = HmacOf(key[h], fed[h])
  BY DEF IInv, CleanMac
<1>7. Good(h)'
  BY <1>5, <1>6 DEF Good, InitUnsupported, HmacOf, HashOf, IPad, OPad, K0
<1>8. QED
  BY <1>1, <1>2, <1>3, <1>4, <1>7, Assemble

(* What holds of a session that takes data or is finalized.                *)
LEMMA OpenFacts ==
  ASSUME IInv, NEW h \in Handles, Open(h), dptr[h] \in Handles
  PROVE  /\ dptr[h] = h
         /\ key[h] \in Keys
         /\ out[h] = Null
         /\ fed[h] \in Seq(Byte)
         /\ ~spoiled[h] => mem[h] = <<IPad(key[h])>> \o fed[h]
<1>1. dptr[h] = h
  BY HmacAssumption DEF IInv, OwnDigest
<1>2. key[h] \in Keys /\ out[h] = Null /\ fed[h] \in Seq(Byte)
  BY DEF IInv, TypeOK, NothingWrittenYet, Open, IsInit
<1>3. QED
  BY <1>1, <1>2 DEF IInv, DigestHoldsMessage

LEMMA UpdateStep ==
  ASSUME IInv, NEW h \in Handles, NEW d \in Data, UpdateDigest(h, d)
  PROVE  StepOf(h)
<1>1. /\ dptr[h] = h /\ fed[h] \in Seq(Byte) /\ out[h] = Null
      /\ ~spoiled[h] => mem[h] = <<IPad(key[h])>> \o fed[h]
  BY OpenFacts DEF UpdateDigest
<1>2. d \in Seq(Byte)
  BY DataIsSeq DEF UpdateDigest
<1>3. fed[h] \o d \in Seq(Byte)
  BY <1>1, <1>2, ConcatProperties
<1>4. /\ mem' = [mem EXCEPT ![h] = mem[h] \o d]
      /\ fed' = [fed EXCEPT ![h] = fed[h] \o d]
      /\ UNCHANGED <<live, mode, key, dptr, finalized, spoiled, out>>
  BY <1>1 DEF UpdateDigest
<1>5. TypeOK'
  BY <1>3, <1>4 DEF IInv, TypeOK, UpdateDigest, Returned, Rets
<1>6. Indexed' /\ OwnDigest'
  BY <1>4 DEF IInv, TypeOK, Indexed, OwnDigest
<1>7. \A g \in Handles \ {h} : Kept(g)
  BY <1>4 DEF IInv, TypeOK, Indexed, Kept
<1>8. mem'[h] = mem[h] \o d /\ fed'[h] = fed[h] \o d
  BY <1>4 DEF IInv, TypeOK, Indexed
<1>9. Good(h)'
  <2>1. (<<IPad(key[h])>> \o fed[h]) \o d = <<IPad(key[h])>> \o (fed[h] \o d)
    BY <1>1, <1>2, PadThenData
  <2>2. IPad(key[h])' = IPad(key[h])
    BY <1>4 DEF IPad, K0, HashOf
  <2>3. QED
    BY <1>1, <1>4, <1>8, <2>1, <2>2 DEF Good
<1>10. QED
  BY <1>1, <1>4, <1>5, <1>6, <1>7, <1>9, Assemble

LEMMA DeliverStep ==
  ASSUME IInv, NEW h \in Handles, FinalizeDelivers(h)
  PROVE  StepOf(h)
<1>1. /\ dptr[h] = h
      /\ ~spoiled[h] => mem[h] = <<IPad(key[h])>> \o fed[h]
  BY OpenFacts DEF FinalizeDelivers
<1>2. /\ mem' = [mem EXCEPT ![h] = Outer(h)]
      /\ out' = [out EXCEPT ![h] = HashOf(Outer(h))]
      /\ finalized' = [finalized EXCEPT ![h] = TRUE]
      /\ UNCHANGED <<live, mode, key, dptr, fed, spoiled>>
  BY <1>1 DEF FinalizeDelivers
<1>3. TypeOK'
  BY <1>2 DEF IInv, TypeOK, FinalizeDelivers, Returned, Rets
<1>4. Indexed' /\ OwnDigest'
  BY <1>2 DEF IInv, TypeOK, Indexed, OwnDigest
<1>5. \A g \in Handles \ {h} : Kept(g)
  BY <1>2 DEF IInv, TypeOK, Indexed, Kept
<1>6. out'[h] = HashOf(Outer(h)) /\ finalized'[h]
  BY <1>2 DEF IInv, TypeOK, Indexed
<1>7. Good(h)'
  <2>1. ~spoiled[h] => HashOf(Outer(h)) = HmacOf(key[h], fed[h])
    BY <1>1 DEF Outer, HmacOf
  <2>2. HmacOf(key[h], fed[h])' = HmacOf(key[h], fed[h])
    BY <1>2 DEF HmacOf, HashOf, IPad, OPad, K0
  <2>3. QED
    BY <1>2, <1>6, <2>1, <2>2 DEF Good, Open
<1>8. QED
  BY <1>3, <1>4, <1>5, <1>6, <1>7, Assemble

LEMMA FailStep ==
  ASSUME IInv, NEW h \in Handles, FinalizeFails(h)
  PROVE  StepOf(h)
<1>1. dptr[h] = h /\ out[h] = Null
  BY OpenFacts DEF FinalizeFails
<1>2. /\ \E x : mem' = [mem EXCEPT ![h] = x]
      /\ spoiled' = [spoiled EXCEPT ![h] = TRUE]
      /\ UNCHANGED <<live, mode, key, dptr, finalized, fed, out>>
  BY <1>1 DEF FinalizeFails
<1>3. TypeOK'
  BY <1>2 DEF IInv, TypeOK, FinalizeFails, Returned, Rets
<1>4. Indexed' /\ OwnDigest'
  BY <1>2 DEF IInv, TypeOK, Indexed, OwnDigest
<1>5. \A g \in Handles \ {h} : Kept(g)
  BY <1>2 DEF IInv, TypeOK, Indexed, Kept
<1>6. spoiled'[h] /\ out'[h] = Null
  BY <1>1, <1>2 DEF IInv, TypeOK
<1>7. QED
  BY <1>3, <1>4, <1>5, <1>6, Assemble DEF Good

LEMMA CopyStep ==
  ASSUME IInv, NEW origin \in Handles, NEW dst \in Handles, CopyDone(origin, dst)
  PROVE  StepOf(dst)
<1>1. dptr[origin] = origin /\ origin # dst
  BY HmacAssumption DEF IInv, OwnDigest, CopyDone, CloneOf
<1>2. TypeOK'
  BY DEF IInv, TypeOK, CopyDone, CloneOf, Returned, Rets
<1>3. Indexed' /\ OwnDigest'
  BY DEF IInv, TypeOK, Indexed, OwnDigest, CopyDone, CloneOf
<1>4. \A g \in Handles \ {dst} : Kept(g)
  BY DEF IInv, TypeOK, Indexed, CopyDone, CloneOf, Kept
<1>5. /\ live'[dst] = "copied" /\ key'[dst] = key[origin]
      /\ dptr'[dst] \in {dst, Null} /\ mem'[dst] = mem[origin]
      /\ finalized'[dst] = finalized[origin] /\ fed'[dst] = fed[origin]
      /\ (spoiled'[dst] <=> spoiled[origin]) /\ out'[dst] = out[origin]
      /\ live[origin] \in {"built", "copied"}
  BY <1>1 DEF IInv, TypeOK, Indexed, CopyDone, CloneOf
<1>6. Good(origin)
  BY DEF IInv, DigestHoldsMessage, CleanMac, Good
<1>7. Good(dst)'
  <2>1. /\ HmacOf(key[dst], fed[dst])' = HmacOf(key[origin], fed[origin])
        /\ IPad(key[dst])' = IPad(key[origin])
    BY <1>5 DEF HmacOf, HashOf, IPad, OPad, K0
  <2>2. Open(dst)' <=> Open(origin)
    BY <1>5 DEF Open, IsInit
  <2>3. dptr'[dst] \in Handles => dptr'[dst] = dst
    BY <1>5, HmacAssumption
  <2>4. QED
    BY <1>1, <1>5, <1>6, <2>1, <2>2, <2>3 DEF Good
<1>8. ~finalized'[dst] => out'[dst] = Null
  BY <1>5 DEF IInv, NothingWrittenYet
<1>9. QED
  BY <1>2, <1>3, <1>4, <1>7, <1>8, Assemble

-----------------------------------------------------------------------------
(* Every step is a step of one handle, the one it reports on.              *)
LEMMA NextStep ==
  ASSUME IInv, NEW h \in Handles,
         \/ Request(h)
         \/ Finish(h)
         \/ \E k \in Keys, m \in Modes : InitKey(h, k, m)
         \/ InitUnsupported(h)
         \/ Reset(h)
         \/ \E op \in {"update", "finalize", "reset"} : Refused(h, op)
         \/ \E d \in Data : Update(h, d)
         \/ Finalize(h)
         \/ \E origin \in Handles : CopyDone(origin, h) \/ CopyFails(origin, h)
  PROVE  StepOf(h) /\ ret'.h = h
<1>1. CASE Request(h)
  <2>1. Blank(h, "built") /\ ret' \in Rets /\ ret'.h = h
    BY <1>1 DEF Request, Returned, Rets
  <2>2. QED
    BY <2>1, BlankStep
<1>2. CASE Finish(h)
  <2>1. Blank(h, "none") /\ ret' \in Rets /\ ret'.h = h
    BY <1>2 DEF Finish, Returned, Rets
  <2>2. QED
    BY <2>1, BlankStep
<1>3. CASE \E k \in Keys, m \in Modes : InitKey(h, k, m)
  <2>1. PICK k \in Keys, m \in Modes : InitKey(h, k, m)
    BY <1>3
  <2>2. mode' \in [Handles -> Modes \cup {Null}]
    BY <2>1 DEF InitKey, IInv, TypeOK
  <2>3. ret' \in Rets /\ ret'.h = h
    BY <2>1 DEF InitKey, Returned, Rets
  <2>4. QED
    BY <2>1, <2>2, <2>3, FreshStep DEF InitKey
<1>4. CASE InitUnsupported(h)
  BY <1>4, UnsupportedStep DEF InitUnsupported, Returned
<1>5. CASE Reset(h)
  <2>1. dptr[h] = h /\ key[h] \in Keys
    BY <1>5, HmacAssumption DEF Reset, IInv, TypeOK, OwnDigest
  <2>2. Fresh(h, h, key[h]) /\ ret' \in Rets /\ ret'.h = h
    BY <1>5, <2>1 DEF Reset, Returned, Rets
  <2>3. /\ key' = [key EXCEPT ![h] = key[h]]
        /\ dptr' = [dptr EXCEPT ![h] = h]
        /\ mode' \in [Handles -> Modes \cup {Null}]
        /\ UNCHANGED live
    BY <1>5, <2>1 DEF Reset, IInv, TypeOK
  <2>4. QED
    BY <2>1, <2>2, <2>3, FreshStep
<1>6. CASE \E op \in {"update", "finalize", "reset"} : Refused(h, op)
  <2>1. PICK op \in {"update", "finalize", "reset"} : Refused(h, op)
    BY <1>6
  <2>2. QED
    BY <2>1, InertStep DEF Refused, Returned, Rets
<1>7. CASE \E d \in Data : Update(h, d)
  <2>1. PICK d \in Data : Update(h, d)
    BY <1>7
  <2>2. CASE UpdateRefused(h) \/ UpdateNothing(h, d)
    BY <2>2, InertStep DEF UpdateRefused, UpdateNothing, Returned, Rets
  <2>3. CASE UpdateDigest(h, d)
    BY <2>3, UpdateStep DEF UpdateDigest, Returned
  <2>4. QED
    BY <2>1, <2>2, <2>3 DEF Update
<1>8. CASE Finalize(h)
  <2>1. CASE FinalizeRefused(h)
    BY <2>1, InertStep DEF FinalizeRefused, Returned, Rets
  <2>2. CASE FinalizeDelivers(h)
    BY <2>2, DeliverStep DEF FinalizeDelivers, Returned
  <2>3. CASE FinalizeFails(h)
    BY <2>3, FailStep DEF FinalizeFails, Returned
  <2>4. QED
    BY <1>8, <2>1, <2>2, <2>3 DEF Finalize
<1>9. CASE \E origin \in Handles : CopyDone(origin, h) \/ CopyFails(origin, h)
  <2>1. PICK origin \in Handles : CopyDone(origin, h) \/ CopyFails(origin, h)
    BY <1>9
  <2>2. CASE CopyDone(origin, h)
    BY <2>2, CopyStep DEF CopyDone, Returned
  <2>3. CASE CopyFails(origin, h)
    <3>1. Blank(h, "empty") /\ ret' \in Rets /\ ret'.h = h
      BY <2>3 DEF CopyFails, Returned, Rets
    <3>2. QED
      BY <3>1, BlankStep
  <2>4. QED
    BY <2>1, <2>2, <2>3
<1>10. QED
  BY <1>1, <1>2, <1>3, <1>4, <1>5, <1>6, <1>7, <1>8, <1>9

(* What a step keeps of a handle includes all that its caller can tell.    *)
LEMMA KeptView ==
  ASSUME IInv, NEW g \in Handles, Kept(g)
  PROVE  View(g)' = View(g)
<1>1. dptr[g] \in Handles => dptr[g] = g
  BY HmacAssumption DEF IInv, OwnDigest
<1>2. QED
  BY <1>1 DEF Kept, View

LEMMA StepIInv ==
  ASSUME IInv, [Next]_vars
  PROVE  /\ IInv'
         /\ [\A h \in Handles : h # ret'.h => View(h)' = View(h)]_vars
<1>1. CASE Next
  <2>1. PICK h \in Handles : StepOf(h) /\ ret'.h = h
    BY <1>1, NextStep DEF Next
  <2>2. \A g \in Handles : g # ret'.h => View(g)' = View(g)
    BY <2>1, KeptView DEF StepOf
  <2>3. QED
    BY <2>1, <2>2 DEF StepOf
<1>2. CASE UNCHANGED vars
  <2>1. IInv'
    BY <1>2 DEF vars, IInv, TypeOK, Indexed, OwnDigest, NothingWrittenYet,
                DigestHoldsMessage, CleanMac, Open, IsInit, HmacOf, HashOf,
                IPad, OPad, K0
  <2>2. QED
    BY <1>2, <2>1
<1>3. QED
  BY <1>1, <1>2

(* The invariant holds of every state, for any number of handles.          *)
THEOREM InvariantHolds == Spec => []IInv
<1>1. Init => IInv
  BY InitIInv
<1>2. IInv /\ [Next]_vars => IInv'
  BY StepIInv
<1>3. QED
  BY <1>1, <1>2, PTL DEF Spec

(* Hmac's variables keep their types.                                      *)
THEOREM TypeCorrect == Spec => []TypeOK
<1>1. IInv => TypeOK
  BY DEF IInv
<1>2. QED
  BY <1>1, InvariantHolds, PTL

(* An open session's digest holds the pad and the message (hmac.cc), for   *)
(* any number of handles copied from one another.                          *)
THEOREM DigestAlwaysHoldsMessage == Spec => []DigestHoldsMessage
<1>1. IInv => DigestHoldsMessage
  BY DEF IInv
<1>2. QED
  BY <1>1, InvariantHolds, PTL

(* Hmac::finalize delivers HMAC of the message, unless an earlier finalize *)
(* of the same message failed.                                             *)
THEOREM CleanMacIsHmac == Spec => []CleanMac
<1>1. IInv => CleanMac
  BY DEF IInv
<1>2. QED
  BY <1>1, InvariantHolds, PTL

(* No call on one handle changes another's session.                        *)
THEOREM SessionsAreIndependent == Spec => OthersUntouched
<1>1. IInv /\ [Next]_vars
        => [\A h \in Handles : h # ret'.h => View(h)' = View(h)]_vars
  BY StepIInv
<1>2. QED
  BY <1>1, InvariantHolds, PTL DEF Spec, OthersUntouched
-----------------------------------------------------------------------------
(* The multi-buffer handle.                                                *)

(* Division with remainder, as the C++ operators / and % compute it on     *)
(* unsigned operands.                                                      *)
LEMMA DivMod ==
  ASSUME NEW B \in Nat \ {0}, NEW n \in Nat
  PROVE  /\ n \div B \in Nat
         /\ n % B \in 0 .. (B - 1)
         /\ n = B * (n \div B) + (n % B)
BY SMT

\* What a function that is given on 1 .. n is as a sequence.
LEMMA FunctionIsSeq ==
  ASSUME NEW S, NEW n \in Nat, NEW f \in [1 .. n -> S]
  PROVE  f \in Seq(S) /\ Len(f) = n
OBVIOUS

(* Reading the whole blocks of a message and then its rest is reading the  *)
(* message, however the two are divided.                                   *)
LEMMA ReadsJoin ==
  ASSUME NEW S, NEW m \in Seq(S), NEW k \in Nat, NEW n \in Nat, k + n = Len(m)
  PROVE  /\ Read(m, 0, k) \in Seq(S) /\ Read(m, k, n) \in Seq(S)
         /\ Read(m, 0, k) \o Read(m, k, n) = m
<1> DEFINE p == Read(m, 0, k)
           q == Read(m, k, n)
<1>1. Len(m) \in Nat /\ m \in [1 .. Len(m) -> S]
  BY LenProperties
<1>2. p = [j \in 1 .. k |-> m[j]] /\ q = [j \in 1 .. n |-> m[k + j]]
  BY <1>1 DEF Read
<1>3. p \in [1 .. k -> S] /\ q \in [1 .. n -> S]
  BY <1>1, <1>2
<1>4. p \in Seq(S) /\ Len(p) = k /\ q \in Seq(S) /\ Len(q) = n
  BY <1>3, FunctionIsSeq
<1>5. \A j \in 1 .. k : p[j] = m[j]
  BY <1>2
<1>6. \A j \in 1 .. n : q[j] = m[k + j]
  BY <1>2
<1> HIDE DEF p, q
<1> DEFINE c == p \o q
<1>7. c \in Seq(S) /\ Len(c) = k + n
  BY <1>4, ConcatProperties
<1>8. \A j \in 1 .. (k + n) : c[j] = IF j <= k THEN p[j] ELSE q[j - k]
  BY <1>4, ConcatProperties
<1> HIDE DEF c
<1>9. \A j \in 1 .. Len(m) : c[j] = m[j]
  <2> SUFFICES ASSUME NEW j \in 1 .. Len(m) PROVE c[j] = m[j]
    OBVIOUS
  <2>1. CASE j <= k
    BY <1>5, <1>8, <2>1
  <2>2. CASE j > k
    <3>1. j - k \in 1 .. n /\ k + (j - k) = j
      BY <2>2
    <3> QED BY <1>6, <1>8, <2>2, <3>1
  <2> QED BY <2>1, <2>2
<1>10. c = m
  BY <1>7, <1>9, SeqEqual
<1> QED
  BY <1>4, <1>10 DEF c, p, q

\* The blocks of a message and what they leave over.
LEMMA BlocksAndRest ==
  \A l \in Nat :
    /\ l \div BlockLen \in Nat
    /\ l % BlockLen \in Nat
    /\ l = BlockLen * (l \div BlockLen) + (l % BlockLen)
<1> TAKE l \in Nat
<1>1. BlockLen \in Nat \ {0}
  BY MultiBufferAssumption
<1>2. /\ l \div BlockLen \in Nat
      /\ l % BlockLen \in 0 .. (BlockLen - 1)
      /\ l = BlockLen * (l \div BlockLen) + (l % BlockLen)
  BY <1>1, DivMod
<1>3. \A r \in 0 .. (BlockLen - 1) : r \in Nat
  OBVIOUS
<1> QED
  BY <1>2, <1>3

\* One block more, of which the digest object knows before it starts.
LEMMA KeyBlockAccounted ==
  \A l \in Nat :
    LET k == ((BlockLen + l) \div BlockLen - 1) * BlockLen
        n == (BlockLen + l) % BlockLen
    IN k \in Nat /\ n \in Nat /\ k + n = l
<1> TAKE l \in Nat
<1> DEFINE q == (BlockLen + l) \div BlockLen
           n == (BlockLen + l) % BlockLen
<1>1. BlockLen \in Nat \ {0} /\ BlockLen + l \in Nat
  BY MultiBufferAssumption
<1>2. /\ q \in Nat /\ n \in 0 .. (BlockLen - 1)
      /\ BlockLen + l = BlockLen * q + n
  BY ONLY <1>1, DivMod
<1> HIDE DEF q, n
<1>3. q >= 1
  <2> SUFFICES ASSUME q = 0 PROVE FALSE
    BY <1>2
  <2>1. BlockLen * q = 0
    BY ONLY <1>1, q = 0
  <2> QED BY <1>1, <1>2, <2>1
<1>4. q - 1 \in Nat /\ (q - 1) * BlockLen = BlockLen * q - BlockLen
  BY ONLY <1>1, <1>2, <1>3
<1>5. (q - 1) * BlockLen \in Nat
  BY ONLY <1>1, <1>4
<1>6. (q - 1) * BlockLen + n = l
  BY <1>1, <1>2, <1>4
<1> QED
  BY <1>2, <1>5, <1>6 DEF q, n

\* An object with its five members.
Shaped(o) == DOMAIN o = {"hash", "src", "len", "num", "blocks"}

LEMMA LoadedFields ==
  ASSUME NEW o, Shaped(o), NEW state, NEW batch, NEW n, NEW l
  PROVE  LET p == Loaded(o, state, batch, n, l)
         IN /\ Shaped(p) /\ p.hash = state /\ p.src = batch /\ p.len = BlockLen + l
            /\ p.blocks = (BlockLen + l) \div BlockLen - 1
BY DEF Loaded, SetBlocks, Flushed, SetState, Shaped

\* A sequence of n elements.
OfLength(s, n) == n \in Nat /\ s = [j \in 1 .. n |-> s[j]]

Elements(s, k, t, n) == {s[j] : j \in 1 .. k} \cup {t[j] : j \in 1 .. n}

LEMMA BothAreSeqs ==
  ASSUME NEW s, NEW k, OfLength(s, k), NEW t, NEW n, OfLength(t, n)
  PROVE  /\ s \in Seq(Elements(s, k, t, n)) /\ Len(s) = k
         /\ t \in Seq(Elements(s, k, t, n)) /\ Len(t) = n
<1> DEFINE S == Elements(s, k, t, n)
<1>1. k \in Nat /\ n \in Nat /\ s = [j \in 1 .. k |-> s[j]] /\ t = [j \in 1 .. n |-> t[j]]
  BY DEF OfLength
<1>2. (\A j \in 1 .. k : s[j] \in S) /\ (\A j \in 1 .. n : t[j] \in S)
  BY DEF Elements
<1> HIDE DEF S
<1>3. s \in [1 .. k -> S] /\ t \in [1 .. n -> S]
  BY <1>1, <1>2
<1>4. s \in Seq(S) /\ Len(s) = k /\ t \in Seq(S) /\ Len(t) = n
  BY <1>1, <1>3, FunctionIsSeq
<1> QED
  BY <1>4 DEF S

(* A digest that starts from the chaining value of one block, and is told  *)
(* so, is the hash of that block and the message.                          *)
LEMMA LoadedDigest ==
  ASSUME NEW o, Shaped(o), NEW state, OfLength(state, BlockLen),
         NEW batch, NEW n, NEW l, NEW i, OfLength(batch[i], l)
  PROVE  VectorDigest(Loaded(o, state, batch, n, l), i) = Hash(state \o batch[i])
<1> DEFINE m == batch[i]
           p == Loaded(o, state, batch, n, l)
           k == ((BlockLen + l) \div BlockLen - 1) * BlockLen
           r == (BlockLen + l) % BlockLen
           S == Elements(state, BlockLen, m, l)
<1>1. /\ p.hash = state /\ p.src[i] = m /\ p.len = BlockLen + l
      /\ p.blocks = (BlockLen + l) \div BlockLen - 1
  BY LoadedFields
<1>2. VectorDigest(p, i) = [data |-> (state \o Read(m, 0, k)) \o Read(m, k, r),
                            bits |-> 8 * (BlockLen + l)]
  BY <1>1 DEF VectorDigest
<1>3. k \in Nat /\ r \in Nat /\ k + r = l
  BY KeyBlockAccounted DEF OfLength
<1>4. state \in Seq(S) /\ Len(state) = BlockLen /\ m \in Seq(S) /\ Len(m) = l
  BY BothAreSeqs
<1> HIDE DEF p, k, r, m, S
<1>5. /\ Read(m, 0, k) \in Seq(S) /\ Read(m, k, r) \in Seq(S)
      /\ Read(m, 0, k) \o Read(m, k, r) = m
  BY <1>3, <1>4, ReadsJoin
<1>6. (state \o Read(m, 0, k)) \o Read(m, k, r) = state \o (Read(m, 0, k) \o Read(m, k, r))
  <2> DEFINE a == Read(m, 0, k)
             b == Read(m, k, r)
  <2>1. a \in Seq(S) /\ b \in Seq(S)
    BY <1>5
  <2> HIDE DEF a, b
  <2>2. (state \o a) \o b = state \o (a \o b)
    <3>1. state \in Seq(S)
      BY <1>4
    <3>2. QED
      BY ONLY <2>1, <3>1, ConcatAssociative
  <2> QED BY <2>2 DEF a, b
<1>7. Len(state \o m) = BlockLen + l
  BY <1>4, ConcatProperties
<1> QED
  BY <1>2, <1>5, <1>6, <1>7 DEF Hash, p, m

LEMMA WholeIsSub ==
  ASSUME NEW s, NEW n, OfLength(s, n)
  PROVE  SubSeq(s, 1, n) = s
<1>1. s \in Seq(Elements(s, n, s, n)) /\ Len(s) = n
  BY BothAreSeqs
<1> QED
  BY <1>1, SubSeqFull

LEMMA PaddedIsBlock ==
  ASSUME NEW pad, NEW k
  PROVE  OfLength(Padded(pad, k), BlockLen)
BY MultiBufferAssumption DEF Padded, OfLength

LEMMA DigestLength ==
  ASSUME NEW d
  PROVE  OfLength(Bytes(d), DigestLen)
BY HmacMBAssumption DEF Bytes, OfLength

(* The first hashing: the digest object is left with H((K0 ^ ipad) || m).  *)
LEMMA InnerIsHash ==
  ASSUME Shaped(mb), NEW n, NEW i, OfLength(src[i], len)
  PROVE  VectorDigest(InnerHash(n), i) = Hash(Padded("ipad", padKey) \o src[i])
BY PaddedIsBlock, LoadedDigest DEF InnerHash

(* The second: of (K0 ^ opad) and what the first has left.                 *)
LEMMA OuterIsMac ==
  ASSUME Shaped(mb), NEW n \in Nat, n >= VectorMin, NEW i \in 1 .. n,
         OfLength(src[i], len)
  PROVE  VectorDigest(OuterHash(n), i) = MacOf(padKey, src[i])
<1> DEFINE d == InnerDigests(n)[i]
           state == Padded("opad", padKey)
           batch == [j \in 1 .. n |-> Bytes(InnerDigests(n)[j])]
           o == Dequeued(InnerHash(n))
<1>1. d = Hash(Padded("ipad", padKey) \o src[i])
  BY InnerIsHash DEF InnerDigests, Digests
<1>2. MacOf(padKey, src[i]) = Hash(state \o Bytes(d))
  BY <1>1 DEF MacOf
<1>3. OuterHash(n) = Loaded(o, state, batch, n, DigestLen) /\ batch[i] = Bytes(d)
  BY DEF OuterHash
<1>4. Shaped(o)
  BY LoadedFields DEF InnerHash, Dequeued, SetBlocks, Shaped
<1>5. OfLength(state, BlockLen) /\ OfLength(batch[i], DigestLen)
  BY <1>3, PaddedIsBlock, DigestLength
<1> HIDE DEF d, state, batch, o
<1>6. VectorDigest(Loaded(o, state, batch, n, DigestLen), i) = Hash(state \o batch[i])
  BY <1>4, <1>5, LoadedDigest
<1> QED
  BY <1>2, <1>3, <1>6

(***************************************************************************)
(* Between calls the digest object holds no number of blocks, whatever     *)
(* batch and chaining value were left in it, and what is staged are num    *)
(* messages of len bytes.                                                  *)
(***************************************************************************)
Staged ==
  /\ {keyMem, padKey} \subseteq KeyTexts
  /\ Shaped(mb)
  /\ mb.blocks = Unset
  /\ num \in 0 .. MaxBuffers
  /\ len \in 0 .. (LenLimit - 1)
  /\ src = [i \in 1 .. num |-> src[i]]
  /\ \A i \in 1 .. num : OfLength(src[i], len)

Written == \E n \in 0 .. MaxBuffers : macs = [i \in 1 .. n |-> macs[i]]

LastTyped ==
  last \in [op : {"init", "rewrite", "flush", "dequeue"}, err : {"NONE", "INVALID_ARG"}]

BatchInv == Staged /\ Written /\ LastTyped /\ BatchAuthenticated

LEMMA BatchTyped == BatchInv => BatchTypeOK
<1> SUFFICES ASSUME BatchInv PROVE BatchTypeOK
  OBVIOUS
<1>1. Len(src) = num
  BY MultiBufferAssumption DEF BatchInv, Staged
<1>2. Len(macs) <= MaxBuffers
  BY MultiBufferAssumption DEF BatchInv, Written
<1> QED
  BY <1>1, <1>2 DEF BatchInv, Staged, LastTyped, BatchTypeOK

LEMMA FreshIsStaged == Shaped(FreshObject) /\ FreshObject.blocks = Unset
BY DEF FreshObject, Shaped

LEMMA BatchInitInv == BatchInit => BatchInv
<1> SUFFICES ASSUME BatchInit PROVE BatchInv
  OBVIOUS
<1>1. Staged
  BY FreshIsStaged, MultiBufferAssumption DEF BatchInit, Staged
<1>2. Written
  BY MultiBufferAssumption DEF BatchInit, Written
<1>3. LastTyped /\ BatchAuthenticated
  BY DEF BatchInit, LastTyped, BatchAuthenticated
<1> QED
  BY <1>1, <1>2, <1>3 DEF BatchInv

\* A call that is no dequeue, or a refused one.
LEMMA NothingDelivered ==
  ASSUME NEW op \in {"init", "rewrite", "flush", "dequeue"},
         NEW err \in {"NONE", "INVALID_ARG"}, LastWas(op, err), op = "dequeue" => err # "NONE"
  PROVE  LastTyped' /\ BatchAuthenticated'
<1>1. last' = [op |-> op, err |-> err]
  BY DEF LastWas
<1> QED
  BY <1>1 DEF LastTyped, BatchAuthenticated

LEMMA KeyCallInv ==
  ASSUME BatchInv, NEW k \in KeyTexts, InitAgain(k) \/ KeyRewritten(k)
  PROVE  BatchInv'
<1>1. Staged /\ Written
  BY DEF BatchInv
<1>2. UNCHANGED <<src, len, num, macs>> /\ keyMem' = k /\ padKey' \in {k, padKey}
      /\ mb' \in {mb, FreshObject}
  BY DEF InitAgain, KeyRewritten, staged
<1>3. Staged' /\ Written'
  BY <1>1, <1>2, FreshIsStaged DEF Staged, Written
<1>4. LastTyped' /\ BatchAuthenticated'
  BY NothingDelivered DEF InitAgain, KeyRewritten
<1> QED
  BY <1>3, <1>4 DEF BatchInv

LEMMA FlushInv ==
  ASSUME BatchInv, NEW b \in Batches, NEW n \in Nat, NEW l \in Nat, Flush(b, n, l)
  PROVE  BatchInv'
<1>1. Staged /\ Written
  BY DEF BatchInv
<1>2. LastTyped' /\ BatchAuthenticated'
  BY NothingDelivered DEF Flush, FlushRefused, FlushStages
<1>3. CASE FlushRefused(n, l)
  BY <1>1, <1>2, <1>3 DEF FlushRefused, staged, Staged, Written, BatchInv
<1>4. CASE FlushStages(b, n, l)
  <2>1. /\ src' = Batch(b, n, l) /\ len' = l /\ num' = n
        /\ UNCHANGED <<keyMem, padKey, mb, macs>>
        /\ n \in 1 .. MaxBuffers /\ l \in 0 .. (LenLimit - 1)
    BY <1>4, MultiBufferAssumption DEF FlushStages, FlushAllowed
  <2>2. src' = [i \in 1 .. n |-> src'[i]]
    BY <2>1 DEF Batch
  <2>3. \A i \in 1 .. n : OfLength(src'[i], l)
    BY <2>1 DEF Batch, OfLength
  <2>4. n \in 0 .. MaxBuffers
    BY <2>1, MultiBufferAssumption
  <2>5. Staged' /\ Written'
    BY <1>1, <2>1, <2>2, <2>3, <2>4 DEF Staged, Written
  <2> QED BY <1>2, <2>5 DEF BatchInv
<1> QED
  BY <1>3, <1>4 DEF Flush

\* n MACs, each the one of its message, are what a dequeue delivers.
LEMMA DeliveredInv ==
  ASSUME Staged, Staged', NEW n \in 1 .. num, UNCHANGED <<keyMem, padKey, src>>,
         LastWas("dequeue", "NONE"), macs' = [i \in 1 .. n |-> macs'[i]],
         \A i \in 1 .. n :
           macs'[i] = MacOf(IF n < VectorMin THEN keyMem ELSE padKey, src[i])
  PROVE  BatchInv'
<1>1. n \in Nat /\ n \in 0 .. MaxBuffers
  BY MultiBufferAssumption DEF Staged
<1>2. Len(macs') = n
  BY <1>1
<1>3. Written'
  BY <1>1 DEF Written
<1>4. LastTyped'
  BY DEF LastWas, LastTyped
<1>5. BatchAuthenticated'
  BY <1>2 DEF BatchAuthenticated
<1> QED
  BY <1>3, <1>4, <1>5 DEF BatchInv

LEMMA DequeueInv ==
  ASSUME BatchInv, NEW n \in Nat, Dequeue(n)
  PROVE  BatchInv'
<1>1. Staged /\ Written
  BY DEF BatchInv
<1>2. CASE DequeueRefused(n)
  <2>1. LastTyped' /\ BatchAuthenticated'
    BY <1>2, NothingDelivered DEF DequeueRefused
  <2>2. UNCHANGED <<keyMem, padKey, mb, src, len, num, macs>>
    BY <1>2 DEF DequeueRefused, staged
  <2> QED BY <1>1, <2>1, <2>2 DEF Staged, Written, BatchInv
<1>3. CASE DequeueVector(n)
  <2>1. /\ n \in 1 .. num /\ n >= VectorMin
        /\ macs' = Digests(OuterHash(n), n) /\ mb' = Dequeued(OuterHash(n))
        /\ LastWas("dequeue", "NONE")
        /\ UNCHANGED <<keyMem, padKey, src, len, num>>
    BY <1>3 DEF DequeueVector, staged
  <2>2. Shaped(mb') /\ mb'.blocks = Unset
    <3>1. Shaped(Dequeued(InnerHash(n)))
      BY <1>1, LoadedFields DEF InnerHash, Dequeued, SetBlocks, Shaped, Staged
    <3>2. Shaped(OuterHash(n))
      BY <3>1, LoadedFields DEF OuterHash
    <3> QED BY <2>1, <3>2 DEF Dequeued, SetBlocks, Shaped
  <2>3. Staged'
    BY <1>1, <2>1, <2>2 DEF Staged
  <2>4. macs' = [i \in 1 .. n |-> VectorDigest(OuterHash(n), i)]
    BY <2>1 DEF Digests
  <2>5. \A i \in 1 .. n : macs'[i] = MacOf(padKey, src[i])
    <3> SUFFICES ASSUME NEW i \in 1 .. n PROVE macs'[i] = MacOf(padKey, src[i])
      OBVIOUS
    <3>1. i \in 1 .. num
      BY <1>1, <2>1 DEF Staged
    <3>2. Shaped(mb) /\ OfLength(src[i], len)
      BY <1>1, <3>1 DEF Staged
    <3>3. VectorDigest(OuterHash(n), i) = MacOf(padKey, src[i])
      BY <2>1, <3>2, OuterIsMac
    <3> QED BY <2>4, <3>3
  <2>6. macs' = [i \in 1 .. n |-> macs'[i]]
    BY <2>4
  <2>7. ~(n < VectorMin)
    BY <2>1, MultiBufferAssumption
  <2> QED BY <1>1, <2>1, <2>3, <2>5, <2>6, <2>7, DeliveredInv
<1>4. CASE DequeueTooLong(n)
  <2>1. LastTyped' /\ BatchAuthenticated'
    BY <1>4, NothingDelivered DEF DequeueTooLong
  <2>2. UNCHANGED <<keyMem, padKey, src, len, num, macs>>
        /\ mb' = SetState(mb, Padded("ipad", padKey))
    BY <1>4 DEF DequeueTooLong, staged
  <2>3. Shaped(mb') /\ mb'.blocks = Unset
    BY <1>1, <2>2 DEF SetState, Shaped, Staged
  <2> QED BY <1>1, <2>1, <2>2, <2>3 DEF Staged, Written, BatchInv
<1>5. CASE DequeueSingle(n)
  <2>1. /\ n \in 1 .. num /\ n < VectorMin
        /\ macs' = [i \in 1 .. n |-> MacOf(keyMem, SubSeq(src[i], 1, len))]
        /\ LastWas("dequeue", "NONE")
        /\ UNCHANGED <<keyMem, padKey, mb, src, len, num>>
    BY <1>5 DEF DequeueSingle, staged
  <2>2. Staged'
    BY <1>1, <2>1 DEF Staged
  <2>3. \A i \in 1 .. num : SubSeq(src[i], 1, len) = src[i]
    BY <1>1, WholeIsSub DEF Staged
  <2>4. n \in 1 .. num /\ \A i \in 1 .. n : i \in 1 .. num
    BY <1>1, <2>1 DEF Staged
  <2>5. \A i \in 1 .. n : macs'[i] = MacOf(keyMem, src[i])
    BY <2>1, <2>3, <2>4
  <2>6. macs' = [i \in 1 .. n |-> macs'[i]]
    BY <2>1
  <2> QED BY <1>1, <2>1, <2>2, <2>5, <2>6, DeliveredInv
<1> QED
  BY <1>2, <1>3, <1>4, <1>5 DEF Dequeue

LEMMA BatchNextInv == BatchInv /\ [BatchNext]_batchVars => BatchInv'
<1> SUFFICES ASSUME BatchInv, [BatchNext]_batchVars PROVE BatchInv'
  OBVIOUS
<1>1. CASE \E k \in KeyTexts : InitAgain(k) \/ KeyRewritten(k)
  BY <1>1, KeyCallInv
<1>2. CASE \E b \in Batches, n \in 1 .. (MaxBuffers + 1), l \in 0 .. MaxLen : Flush(b, n, l)
  <2>1. PICK b \in Batches, n \in 1 .. (MaxBuffers + 1), l \in 0 .. MaxLen : Flush(b, n, l)
    BY <1>2
  <2>2. n \in Nat /\ l \in Nat
    BY MultiBufferAssumption, HmacMBAssumption
  <2> QED BY <2>1, <2>2, FlushInv
<1>3. CASE \E n \in 1 .. (MaxBuffers + 1) : Dequeue(n)
  <2>1. \A n \in 1 .. (MaxBuffers + 1) : n \in Nat
    BY MultiBufferAssumption
  <2> QED BY <1>3, <2>1, DequeueInv
<1>4. CASE UNCHANGED batchVars
  <2>1. UNCHANGED <<keyMem, padKey, mb, src, len, num, macs, last>>
    BY <1>4 DEF batchVars
  <2> QED
    BY <2>1 DEF BatchInv, Staged, Written, LastTyped, BatchAuthenticated
<1> QED
  BY <1>1, <1>2, <1>3, <1>4 DEF BatchNext

LEMMA BatchInvariance == BatchSpec => []BatchInv
BY BatchInitInv, BatchNextInv, PTL DEF BatchSpec

(***************************************************************************)
(* Keys, staged batches and results of a multi-buffer handle stay in their *)
(* sets, and no call leaves a number of blocks behind in the digest object.*)
(***************************************************************************)
THEOREM BatchTypeCorrect == BatchSpec => []BatchTypeOK
BY BatchInvariance, BatchTyped, PTL

(***************************************************************************)
(* Every batch delivered holds the HMACs of FIPS 198-1 of the messages of  *)
(* the last flush, on either path (hmac_mb.cc:88-133, 216-298), under the  *)
(* key that path uses.                                                     *)
(***************************************************************************)
THEOREM BatchesAreAuthenticated == BatchSpec => []BatchAuthenticated
BY BatchInvariance, PTL DEF BatchInv
=============================================================================
