------------------------------ MODULE FdirHash ------------------------------
(***************************************************************************)
(* The arithmetic of the flow director: the two hash functions, unrolled   *)
(* in the code, and the bit swap of the port masks.  A word is the set of  *)
(* its bits that are 1, so the keys and words have their full width.  Both *)
(* hashes are linear over exclusive or, and the inputs with one or two     *)
(* bits set are enough to tell two such functions apart.  The byte order   *)
(* of the registers is left out.                                           *)
(***************************************************************************)
EXTENDS Naturals, FiniteSetsExt

CONSTANTS
    FhDwords,   \* dwords of an ixgbe_atr_input (11)
    FhBits,     \* bits of a dword to set in the inputs
    FhPorts     \* bits of a port to set in the masks

ASSUME FhAssumption ==
    FhDwords \in Nat /\ FhBits \subseteq 0 .. 31 /\ FhPorts \subseteq 0 .. 15

VARIABLES
    fh_in,      \* a filter, a mask, and the masks of its two ports
    fh_out      \* what the driver computes from them

fhVars == <<fh_in, fh_out>>

FhWord(n) == {b \in 0 .. 30 : (n \div 2 ^ b) % 2 = 1}
FhBucketKey == FhWord(\h3DAD14E2)
FhSigKey == FhWord(\h174D3614)

FhXor(a, b) == (a \ b) \cup (b \ a)
FhShr(w, n) == {b \in 0 .. 31 : b + n \in w}
FhShl(w, n) == {b \in 0 .. 31 : b >= n /\ b - n \in w}
FhXorOver(S, f(_)) == FoldSet(LAMBDA n, acc : FhXor(f(n), acc), {}, S)

-----------------------------------------------------------------------------
(***************************************************************************)
(* What both functions hash: the low and the high dword of step n.  The    *)
(* flow_vm_vlan word joins the low dword after step 0.                     *)
(***************************************************************************)
FhLo(flow_vm_vlan, common, n) ==
    LET swapped == FhShr(common, 16) \cup FhShl(common, 16)
    IN  IF n = 0 THEN swapped
        ELSE FhXor(swapped, FhXor(flow_vm_vlan, FhShl(flow_vm_vlan, 16)))

FhHi(flow_vm_vlan, common) == FhXor(common, FhXor(flow_vm_vlan, FhShr(flow_vm_vlan, 16)))

\* IXGBE_ATR_COMMON_HASH_KEY
FhCommonKey == FhBucketKey \cap FhSigKey

(***************************************************************************)
(* ixgbe_atr_compute_sig_hash_82599: one pass for two keys.  A key bit     *)
(* both have goes to common_hash, which is added to each at the end.       *)
(***************************************************************************)
FhSig(flow_vm_vlan, common) ==
    LET lo(n) == FhLo(flow_vm_vlan, common, n)
        hi == FhHi(flow_vm_vlan, common)
        right(key) ==
            FhXor(FhXorOver({n \in 0 .. 15 : n \in key}, LAMBDA n : FhShr(lo(n), n)),
                  FhXorOver({n \in 0 .. 15 : n + 16 \in key}, LAMBDA n : FhShr(hi, n)))
        left(key) ==
            FhXor(FhXorOver({n \in 0 .. 15 : n \in key}, LAMBDA n : FhShl(lo(n), 16 - n)),
                  FhXorOver({n \in 0 .. 15 : n + 16 \in key}, LAMBDA n : FhShl(hi, 16 - n)))
        common_hash == right(FhCommonKey)
        bucket_hash == FhXor(right(FhBucketKey \ FhCommonKey), common_hash)
        sig_hash == FhXor(left(FhSigKey \ FhCommonKey), FhShl(common_hash, 16))
    IN  (bucket_hash \cap 0 .. 14) \cup (sig_hash \cap 16 .. 30)

(***************************************************************************)
(* ixgbe_atr_compute_perfect_hash_82599: the masked filter and its hash.   *)
(***************************************************************************)
FhMasked(stream, mask) == [d \in DOMAIN stream |-> stream[d] \cap mask[d]]

FhCommon(stream) == FhXorOver(1 .. FhDwords - 1, LAMBDA d : stream[d])

FhPerfect(stream) ==
    LET lo(n) == FhLo(stream[0], FhCommon(stream), n)
        hi == FhHi(stream[0], FhCommon(stream))
        bucket_hash ==
            FhXor(FhXorOver({n \in 0 .. 15 : n \in FhBucketKey}, LAMBDA n : FhShr(lo(n), n)),
                  FhXorOver({n \in 0 .. 15 : n + 16 \in FhBucketKey}, LAMBDA n : FhShr(hi, n)))
    IN  bucket_hash \cap 0 .. 12

(***************************************************************************)
(* ixgbe_get_fdirtcpm_82599: neighbours change places, then pairs, nibbles *)
(* and bytes.  FhSwap moves the groups of k bits with an even place up by  *)
(* k and the others down.                                                  *)
(***************************************************************************)
FhSwap(w, k) == {IF (b \div k) % 2 = 0 THEN b + k ELSE b - k : b \in w}

FhTcpm(src, dst) ==
    FhSwap(FhSwap(FhSwap(FhSwap(FhShl(dst, 16) \cup src, 1), 2), 4), 8)

-----------------------------------------------------------------------------
FhStreams ==
    {[d \in 0 .. FhDwords - 1 |-> IF d \in {d1, d2} THEN {b} ELSE {}] :
        d1 \in 0 .. FhDwords - 1, d2 \in 0 .. FhDwords - 1, b \in FhBits}
FhMasks ==
    {[d \in 0 .. FhDwords - 1 |-> IF d = out THEN {} ELSE 0 .. 31] : out \in {0, 1, FhDwords}}
FhPortMasks == {{}} \cup {{b, c} : b \in FhPorts, c \in FhPorts}

FhNoOut == [sig |-> {}, perfect |-> {}, tcpm |-> {}, set |-> FALSE]

FhInit ==
    /\ \/ \E s \in FhStreams, m \in FhMasks :
            fh_in = [stream |-> s, mask |-> m, src |-> {}, dst |-> {}]
       \/ \E src \in FhPortMasks, dst \in FhPortMasks :
            fh_in = [stream |-> [d \in 0 .. FhDwords - 1 |-> {}],
                     mask |-> [d \in 0 .. FhDwords - 1 |-> {}], src |-> src, dst |-> dst]
    /\ fh_out = FhNoOut

FhNext ==
    LET s == FhMasked(fh_in.stream, fh_in.mask)
    IN  /\ ~fh_out.set
        /\ fh_out' = [sig |-> FhSig(s[0], FhCommon(s)), perfect |-> FhPerfect(s),
                      tcpm |-> FhTcpm(fh_in.src, fh_in.dst), set |-> TRUE]
        /\ UNCHANGED fh_in

FhSpec == FhInit /\ [][FhNext]_fhVars

-----------------------------------------------------------------------------
(***************************************************************************)
(* The same packet falls in the same bucket whether it is hashed for a     *)
(* signature filter, two keys in one pass, or for a perfect filter: the    *)
(* unrolled ixgbe_atr_compute_sig_hash_82599 loses no key bit to the part  *)
(* the keys have in common.                                                *)
(***************************************************************************)
FhBucketsAgree == fh_out.set => fh_out.sig \cap 0 .. 12 = fh_out.perfect

(***************************************************************************)
(* The port masks are reversed, each port by itself: "bit 15 effects bit   *)
(* 0, 14 effects 1, 13, 2 etc." (ixgbe_get_fdirtcpm_82599).                *)
(***************************************************************************)
FhPortsReversed ==
    fh_out.set =>
        fh_out.tcpm = {15 - b : b \in fh_in.src} \cup {31 - b : b \in fh_in.dst}

\* Both: signature and perfect hash agree on the bucket, and port masks are
\* reversed.
FhSafe ==
  /\ FhBucketsAgree
  /\ FhPortsReversed
=============================================================================
