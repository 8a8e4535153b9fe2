-------------------------------- MODULE Hmac --------------------------------
(***************************************************************************)
(* HMAC sessions behind alcp_mac_* handles: the class alcp::mac::Hmac, the *)
(* wrappers of HmacBuilder that allocate, clone and delete its digest, and *)
(* the C functions that call them.  Handles are independent sessions as    *)
(* the caller sees them; in memory each points to a digest object, and     *)
(* context_copy makes one handle from another.                             *)
(*                                                                         *)
(* A digest object is the sequence of what went into it since its init:    *)
(* message bytes and, as one element each, a key pad or a hash.  This is   *)
(* what Sha2 is shown to compute with.  Hmac::finalize runs two digests    *)
(* one after the other through the same object.                            *)
(***************************************************************************)
EXTENDS Integers, Sequences

CONSTANTS
  Handles,
  Keys,
  LongKeys,         (* keys longer than a block of the digest              *)
  Modes,            (* digest modes HmacBuilder can build                  *)
  Clonable,         (* those its copy knows: every mode but ALC_MD5_SHA1   *)
  Eager,            (* those that pad before checking the size: Sha2_512   *)
  Byte,
  NoData,           (* a null message pointer                              *)
  Null,             (* a null pointer, key or MAC                          *)
  Dangling,         (* a pointer to a digest that has been deleted         *)
  MaxMsg            (* bound: bytes one message may have                   *)

ASSUME HmacAssumption ==
  /\ LongKeys \subseteq Keys
  /\ Clonable \subseteq Modes
  /\ Eager \subseteq Modes
  /\ MaxMsg \in Nat
  /\ Null \notin Handles \cup Keys \cup Modes
  /\ Dangling \notin Handles \cup {Null}
  /\ NoData \notin Seq(Byte)

VARIABLES
  live,             (* none, empty (a copy failed), built, or copied       *)
  mode,             (* the digest mode given to init                       *)
  key,              (* the key m_pK0_xor_ipad and _opad come from          *)
  dptr,             (* the digest object m_pDigest and ctx->m_digest name  *)
  mem,              (* digest objects; `new' in handle h's calls yields h  *)
  finalized,        (* m_finalized                                         *)
  fed,              (* history: bytes update took for this message         *)
  spoiled,          (* history: a finalize of this message failed          *)
  out,              (* the MAC written for this message, or Null           *)
  ret               (* the last call: operation, handle and error          *)

vars == <<live, mode, key, dptr, mem, finalized, fed, spoiled, out, ret>>

-----------------------------------------------------------------------------
HashOf(stream) == [t |-> "hash", v |-> stream]

\* The key at block size: a long key is hashed first.
K0(k) == IF k \in LongKeys THEN HashOf(<<k>>) ELSE k

IPad(k) == [t |-> "ipad", v |-> K0(k)]
OPad(k) == [t |-> "opad", v |-> K0(k)]

\* HMAC (FIPS 198-1) of a whole message.
HmacOf(k, m) == HashOf(<<OPad(k), HashOf(<<IPad(k)>> \o m)>>)

\* What a finalize that pads and then fails leaves in the digest.
PadMark == [t |-> "pad", v |-> Null]

Returned(op, h, err) == ret' = [op |-> op, h |-> h, err |-> err]

\* m_isInit: once init succeeded the object stays initialised.
IsInit(h) == key[h] # Null

-----------------------------------------------------------------------------
Init ==
  /\ live = [h \in Handles |-> "none"]
  /\ mode = [h \in Handles |-> Null]
  /\ key = [h \in Handles |-> Null]
  /\ dptr = [h \in Handles |-> Null]
  /\ mem = [h \in Handles |-> <<>>]
  /\ finalized = [h \in Handles |-> FALSE]
  /\ fed = [h \in Handles |-> <<>>]
  /\ spoiled = [h \in Handles |-> FALSE]
  /\ out = [h \in Handles |-> Null]
  /\ ret = [op |-> "finish", h |-> Null, err |-> "NONE"]

\* A handle without a session: never requested, finished, or a failed copy.
Blank(h, l) ==
  /\ live' = [live EXCEPT ![h] = l]
  /\ mode' = [mode EXCEPT ![h] = Null]
  /\ key' = [key EXCEPT ![h] = Null]
  /\ dptr' = [dptr EXCEPT ![h] = Null]
  /\ finalized' = [finalized EXCEPT ![h] = FALSE]
  /\ fed' = [fed EXCEPT ![h] = <<>>]
  /\ spoiled' = [spoiled EXCEPT ![h] = FALSE]
  /\ out' = [out EXCEPT ![h] = Null]
  /\ mem' = [mem EXCEPT ![h] = <<>>]

Request(h) ==
  /\ live[h] \in {"none", "empty"}
  /\ Blank(h, "built")
  /\ Returned("request", h, "NONE")

\* finish deletes the digest.  It may not be called on a context that a failed
\* copy left without functions, nor when the digest is deleted already.
Finish(h) ==
  /\ live[h] \in {"built", "copied"}
  /\ dptr[h] # Dangling
  /\ Blank(h, "none")
  /\ Returned("finish", h, "NONE")

\* Variant of Fresh: the digest is not initialised before it takes the pad.
FreshWithoutInit(h, object, k) ==
  /\ mem' = [mem EXCEPT ![object] = @ \o <<IPad(k)>>]
  /\ finalized' = [finalized EXCEPT ![h] = FALSE]
  /\ fed' = [fed EXCEPT ![h] = <<>>]
  /\ spoiled' = [spoiled EXCEPT ![h] = FALSE]
  /\ out' = [out EXCEPT ![h] = Null]

\* A message starts: the digest has taken in the inner pad and nothing else.
Fresh(h, object, k) ==
  /\ mem' = [mem EXCEPT ![object] = <<IPad(k)>>]
  /\ finalized' = [finalized EXCEPT ![h] = FALSE]
  /\ fed' = [fed EXCEPT ![h] = <<>>]
  /\ spoiled' = [spoiled EXCEPT ![h] = FALSE]
  /\ out' = [out EXCEPT ![h] = Null]

\* init replaces the digest object.  A copied context has no init function.
InitKey(h, k, m) ==
  /\ live[h] = "built"
  /\ dptr[h] # Dangling
  /\ key' = [key EXCEPT ![h] = k]
  /\ mode' = [mode EXCEPT ![h] = m]
  /\ dptr' = [dptr EXCEPT ![h] = h]
  /\ Fresh(h, h, k)
  /\ Returned("init", h, "NONE")
  /\ UNCHANGED live

\* Variant of InitUnsupported: the mode is recorded before it is refused.
InitUnsupportedKeepsMode(h) ==
  /\ live[h] = "built"
  /\ dptr[h] # Dangling
  /\ mode' = [mode EXCEPT ![h] = "unsupported"]
  /\ Returned("init", h, "NOT_SUPPORTED")
  /\ UNCHANGED <<live, key, dptr, mem, finalized, fed, spoiled, out>>

\* SHAKE and the multi-buffer modes are refused after the old digest has been
\* deleted; the session keeps the pointer to it.
InitUnsupported(h) ==
  /\ live[h] = "built"
  /\ dptr[h] # Dangling
  /\ dptr' = [dptr EXCEPT ![h] = IF @ = Null THEN Null ELSE Dangling]
  /\ mem' = [mem EXCEPT ![h] = <<>>]
  /\ Returned("init", h, "NOT_SUPPORTED")
  /\ UNCHANGED <<live, mode, key, finalized, fed, spoiled, out>>

\* reset needs a digest: before init m_pDigest is null and is not checked.
Reset(h) ==
  /\ live[h] \in {"built", "copied"}
  /\ dptr[h] \in Handles
  /\ Fresh(h, dptr[h], key[h])
  /\ Returned("reset", h, "NONE")
  /\ UNCHANGED <<live, mode, key, dptr>>

\* update, finalize and reset of a context whose functions are null.
Refused(h, op) ==
  /\ live[h] = "empty"
  /\ Returned(op, h, "INVALID_ARG")
  /\ UNCHANGED <<live, mode, key, dptr, mem, finalized, fed, spoiled, out>>

-----------------------------------------------------------------------------
UpdateRefused(h) ==
  /\ live[h] \in {"built", "copied"}
  /\ finalized[h] \/ ~IsInit(h)
  /\ Returned("update", h, "BAD_STATE")
  /\ UNCHANGED <<live, mode, key, dptr, mem, finalized, fed, spoiled, out>>

\* A session that takes part in update and finalize.
Open(h) ==
  /\ live[h] \in {"built", "copied"}
  /\ ~finalized[h]
  /\ IsInit(h)

UpdateNothing(h, d) ==
  /\ Open(h)
  /\ d \in {NoData, <<>>}
  /\ Returned("update", h, "NONE")
  /\ UNCHANGED <<live, mode, key, dptr, mem, finalized, fed, spoiled, out>>

\* A session whose digest is null or deleted cannot be used any more: the call
\* would go through that pointer.
UpdateDigest(h, d) ==
  /\ Open(h)
  /\ d \notin {NoData, <<>>}
  /\ dptr[h] \in Handles
  /\ Len(fed[h]) + Len(d) <= MaxMsg
  /\ mem' = [mem EXCEPT ![dptr[h]] = @ \o d]
  /\ fed' = [fed EXCEPT ![h] = @ \o d]
  /\ Returned("update", h, "NONE")
  /\ UNCHANGED <<live, mode, key, dptr, finalized, spoiled, out>>

Update(h, d) == UpdateRefused(h) \/ UpdateNothing(h, d) \/ UpdateDigest(h, d)

-----------------------------------------------------------------------------
FinalizeRefused(h) ==
  /\ live[h] \in {"built", "copied"}
  /\ finalized[h] \/ ~IsInit(h)
  /\ Returned("finalize", h, "BAD_STATE")
  /\ UNCHANGED <<live, mode, key, dptr, mem, finalized, fed, spoiled, out>>

\* Variant of Outer: the inner pad is used twice.
OuterWithInnerPad(h) == <<IPad(key[h]), HashOf(mem[dptr[h]])>>

\* The inner digest is taken and the outer one fed, in the same object.
Outer(h) == <<OPad(key[h]), HashOf(mem[dptr[h]])>>

\* The caller's buffer takes the whole MAC, or more than that.
FinalizeDelivers(h) ==
  /\ Open(h)
  /\ dptr[h] \in Handles
  /\ out' = [out EXCEPT ![h] = HashOf(Outer(h))]
  /\ mem' = [mem EXCEPT ![dptr[h]] = Outer(h)]
  /\ finalized' = [finalized EXCEPT ![h] = TRUE]
  /\ Returned("finalize", h, "NONE")
  /\ UNCHANGED <<live, mode, key, dptr, fed, spoiled>>

\* A shorter buffer: the digest refuses its size, after the message it held
\* has been replaced by the outer one.  Bound: once for each message.
FinalizeFails(h) ==
  /\ Open(h)
  /\ dptr[h] \in Handles
  /\ ~spoiled[h]
  /\ mem' = [mem EXCEPT ![dptr[h]] =
                IF mode[h] \in Eager THEN Outer(h) \o <<PadMark>> ELSE Outer(h)]
  /\ spoiled' = [spoiled EXCEPT ![h] = TRUE]
  /\ Returned("finalize", h, "INVALID_ARG")
  /\ UNCHANGED <<live, mode, key, dptr, finalized, fed, out>>

Finalize(h) == FinalizeRefused(h) \/ FinalizeDelivers(h) \/ FinalizeFails(h)

-----------------------------------------------------------------------------
\* Variant of CloneOf: the copy shares the source's digest object.
SharedDigest(src, dst) == dptr[src]

\* The digest of the copy, an object of its own.  A mode the chain of
\* dynamic_casts does not name leaves it without one.
CloneOf(src, dst) == IF mode[src] \in Clonable THEN dst ELSE Null

\* context_copy: dst becomes a context of its own with a clone of the digest.
CopyDone(src, dst) ==
  /\ src # dst
  /\ live[src] \in {"built", "copied"}
  /\ dptr[src] \in Handles
  /\ live' = [live EXCEPT ![dst] = "copied"]
  /\ mode' = [mode EXCEPT ![dst] = mode[src]]
  /\ key' = [key EXCEPT ![dst] = key[src]]
  /\ dptr' = [dptr EXCEPT ![dst] = CloneOf(src, dst)]
  /\ mem' = [mem EXCEPT ![dst] = mem[dptr[src]]]
  /\ finalized' = [finalized EXCEPT ![dst] = finalized[src]]
  /\ fed' = [fed EXCEPT ![dst] = fed[src]]
  /\ spoiled' = [spoiled EXCEPT ![dst] = spoiled[src]]
  /\ out' = [out EXCEPT ![dst] = out[src]]
  /\ Returned("copy", dst, "NONE")

\* Without a digest in the source the copy fails, its context already blank.
CopyFails(src, dst) ==
  /\ src # dst
  /\ live[src] \in {"built", "copied"}
  /\ dptr[src] = Null
  /\ Blank(dst, "empty")
  /\ Returned("copy", dst, "BAD_STATE")

-----------------------------------------------------------------------------
Data == {NoData} \cup UNION {[1..n -> Byte] : n \in 0..MaxMsg}

Next ==
  \E h \in Handles :
    \/ Request(h)
    \/ Finish(h)
    \/ \E k \in Keys, m \in Modes : InitKey(h, k, m)
    \/ InitUnsupported(h)
    \/ Reset(h)
    \/ \E op \in {"update", "finalize", "reset"} : Refused(h, op)
    \/ \E d \in Data : Update(h, d)
    \/ Finalize(h)
    \/ \E src \in Handles : CopyDone(src, h) \/ CopyFails(src, h)

Spec == Init /\ [][Next]_vars

-----------------------------------------------------------------------------
Rets == [op : {"request", "finish", "init", "reset", "update", "finalize", "copy"},
         h : Handles \cup {Null},
         err : {"NONE", "BAD_STATE", "INVALID_ARG", "NOT_SUPPORTED"}]

(* Every variable stays in the set its declaration gives it; what a digest *)
(* object holds and what it returns are left to the properties below.      *)
TypeOK ==
  /\ live \in [Handles -> {"none", "empty", "built", "copied"}]
  /\ mode \in [Handles -> Modes \cup {Null}]
  /\ key \in [Handles -> Keys \cup {Null}]
  /\ dptr \in [Handles -> Handles \cup {Null, Dangling}]
  /\ finalized \in [Handles -> BOOLEAN]
  /\ fed \in [Handles -> Seq(Byte)]
  /\ spoiled \in [Handles -> BOOLEAN]
  /\ ret \in Rets

(***************************************************************************)
(* The digest of a session that takes data holds the inner pad of the      *)
(* session's key and the bytes handed over since the last init or reset,   *)
(* whatever was called on other handles, copies of it included.            *)
(***************************************************************************)
DigestHoldsMessage ==
  \A h \in Handles :
    Open(h) /\ dptr[h] \in Handles /\ ~spoiled[h] =>
      mem[dptr[h]] = <<IPad(key[h])>> \o fed[h]

(***************************************************************************)
(* A MAC written when no finalize of its message failed is HMAC, as FIPS   *)
(* 198-1 defines it, of that message under the session's key: the reuse of *)
(* one digest object for the key, the inner and the outer hash, reset and  *)
(* copies notwithstanding.                                                 *)
(***************************************************************************)
CleanMac ==
  \A h \in Handles :
    out[h] # Null /\ ~spoiled[h] => out[h] = HmacOf(key[h], fed[h])

\* What the caller can tell of a session.
View(h) ==
  [live |-> live[h], key |-> key[h], finalized |-> finalized[h],
   digest |-> IF dptr[h] \in Handles THEN mem[dptr[h]] ELSE dptr[h],
   out |-> out[h]]

(***************************************************************************)
(* A call on one handle changes the session of no other: copies share no   *)
(* digest, and init, reset or finish of one leaves the other's alone.      *)
(***************************************************************************)
OthersUntouched ==
  [][\A h \in Handles : h # ret'.h => View(h)' = View(h)]_vars
=============================================================================
