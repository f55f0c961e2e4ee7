----------------------------- MODULE KeyEncoding -----------------------------
(***************************************************************************)
(* How cosmwasm/storage turns a namespace and a key into a raw key:        *)
(* length_prefixed.rs and namespace_helpers.rs.  A byte string is a        *)
(* sequence over 0 .. Radix - 1; the code has Radix = 256, and two digits  *)
(* for the length of a namespace whatever the radix.                       *)
(***************************************************************************)
EXTENDS Integers, Sequences

Seqs == INSTANCE SequencesExt

CONSTANT Radix

ASSUME RadixAssumption == Radix \in Nat /\ Radix >= 2

Bytes   == 0 .. (Radix - 1)
MaxByte == Radix - 1
MaxLength == Radix * Radix - 1    \* 0xFFFF

(* encode_length panics otherwise.                                         *)
CanEncode(namespace) == Len(namespace) <= MaxLength

(* Faulty: the length is cut to one byte.                                  *)
EncodeLengthCut(namespace) == <<0, Len(namespace) % Radix>>

(* Two bytes, big endian.                                                  *)
EncodeLength(namespace) == <<Len(namespace) \div Radix, Len(namespace) % Radix>>

ToLengthPrefixed(namespace) == EncodeLength(namespace) \o namespace

ToLengthPrefixedNested(namespaces) ==
  Seqs!FlattenSeq([i \in DOMAIN namespaces |-> ToLengthPrefixed(namespaces[i])])

Concat(prefix, key) == prefix \o key
Trim(prefix, raw)   == SubSeq(raw, Len(prefix) + 1, Len(raw))

(* The order of Vec<u8>.                                                   *)
LexLess(a, b) ==
  \E n \in 0 .. Len(a) :
    /\ n < Len(b)
    /\ \A i \in 1 .. n : a[i] = b[i]
    /\ n < Len(a) => a[n + 1] < b[n + 1]

(* Faulty: the overflow is not carried.                                    *)
UpperBoundNoCarry(input) ==
  [i \in DOMAIN input |-> IF i = Len(input) THEN (input[i] + 1) % Radix ELSE input[i]]

(* namespace_upper_bound: the loop from the back reaches a byte if all the *)
(* bytes after it are at their maximum, and adds one to it.  There is no   *)
(* carry out of the first.                                                 *)
NamespaceUpperBound(input) ==
  [i \in DOMAIN input |-> IF \A j \in i + 1 .. Len(input) : input[j] = MaxByte
                          THEN (input[i] + 1) % Radix
                          ELSE input[i]]
=============================================================================
