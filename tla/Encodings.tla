----------------------------- MODULE Encodings ------------------------------
(***************************************************************************)
(* The conversions between the circuits' field elements and the values the *)
(* server compares: hex texts of the FFI, decimal keys of the store, the   *)
(* packed app_id, the limbs of an RSA modulus and the SMT root.            *)
(*                                                                         *)
(* A text is either hexadecimal, [hex |-> digits], most significant digit  *)
(* first, or decimal, [dec |-> n]: the canonical decimal text of n.  One   *)
(* digit stands for the two hex digits of a byte.  The sizes of the code   *)
(* (256, 32, 31, 2^121, 17 and 34) are parameters.                         *)
(***************************************************************************)
EXTENDS Integers, SequencesExt

CONSTANTS
  ByteBase,   \* values of a byte
  ReprLen,    \* bytes of a field element: F::to_repr(), smtroot.Root
  AppIDLen,   \* verifier.AppIDLen
  LimbBase,   \* 2^issuercert.LimbBits
  LimbCount   \* limbs of a modulus, per certificate type

CertChainType == {0, 1}   \* CertChainRS2048, CertChainRS4096

(***************************************************************************)
(* Positional notation: the power b^k, the i-th digit of n in base b from  *)
(* the low end, and the number that the k digits d, low end first, make.   *)
(* (The operator ^ is not used because no prover knows its laws.)          *)
(***************************************************************************)
Power(b, k) ==
  LET power[i \in 0..k] == IF i = 0 THEN 1 ELSE b * power[i - 1]
  IN  power[k]

Digit(n, b, i) == (n \div Power(b, i - 1)) % b

Positional(b, d, k) ==
  LET sum[i \in 0..k] ==
        IF i = 0 THEN 0 ELSE sum[i - 1] + d[i] * Power(b, i - 1)
  IN  sum[k]

ASSUME EncodingAssumption ==
  /\ ByteBase \in Nat /\ ByteBase > 1
  /\ AppIDLen \in Nat \ {0} /\ ReprLen \in Nat /\ AppIDLen < ReprLen
  /\ LimbBase \in 2..Power(ByteBase, ReprLen)
  /\ LimbCount \in [CertChainType -> Nat \ {0}]

Byte == 0..(ByteBase - 1)

\* What to_repr() yields: the bytes of a field element, low byte first.
Element == [1..ReprLen -> Byte]

\* The number a field element stands for.
Value(repr) == Positional(ByteBase, repr, ReprLen)
-----------------------------------------------------------------------------
(***************************************************************************)
(* Numbers and byte strings, as math/big has them: SetBytes, Bytes (no     *)
(* leading zeros) and FillBytes.                                           *)
(***************************************************************************)
SetBytes(digits) ==
  LET n[i \in 0..Len(digits)] ==
        IF i = 0 THEN 0 ELSE n[i - 1] * ByteBase + digits[i]
  IN  n[Len(digits)]

\* The number of bytes of n.
ByteLen(n) ==
  CHOOSE k \in 0..n :
    /\ n < Power(ByteBase, k)
    /\ \A j \in 0..(k - 1) : Power(ByteBase, j) <= n

Bytes(n) ==
  LET k == ByteLen(n)  IN  [i \in 1..k |-> Digit(n, ByteBase, k - i + 1)]

ZeroPadded(digits, len) ==
  IF Len(digits) < len THEN [i \in 1..(len - Len(digits)) |-> 0] \o digits
  ELSE digits

FillBytes(n, len) == ZeroPadded(Bytes(n), len)
-----------------------------------------------------------------------------
field_to_hex_unreversed(repr) == [hex |-> repr]   \* mutant: to_repr() order

\* lib.rs: to_repr() is little-endian, the text big-endian.
field_to_hex(repr) == [hex |-> Reverse(repr)]

IsHex(text) == "hex" \in DOMAIN text

Parsed(text) == IF IsHex(text) THEN SetBytes(text.hex) ELSE text.dec

\* A decimal text is left as it is; texts of field_to_hex always parse.
NormalizeDecimal(text) ==
  IF IsHex(text) THEN [dec |-> SetBytes(text.hex)] ELSE text

PackAppIDLE(bytes) == [dec |-> SetBytes(Reverse(bytes))]

\* <<>> stands for the error of a value that does not fit.  The stripped
\* big-endian bytes are put, reversed, at the low end of the result.
UnpackAppID(text) ==
  LET raw == Bytes(Parsed(text))
  IN  IF Len(raw) > AppIDLen THEN <<>>
      ELSE [i \in 1..AppIDLen |->
              IF i <= Len(raw) THEN raw[Len(raw) - i + 1] ELSE 0]
-----------------------------------------------------------------------------
ModulusToLimbsShifted(n, k) ==   \* mutant: the limbs start one too high
  [i \in 1..k |-> [hex |-> FillBytes(Digit(n, LimbBase, i + 1), ReprLen)]]

\* Limb i is (n >> i*LimbBits) & mask, as 32 bytes of hex, low limb first.
ModulusToLimbs(n, k) ==
  [i \in 1..k |-> [hex |-> FillBytes(Digit(n, LimbBase, i), ReprLen)]]

normHex(text) == ZeroPadded(text.hex, ReprLen)

LimbsEqual(a, b) ==
  Len(a) = Len(b) /\ \A i \in 1..Len(a) : normHex(a[i]) = normHex(b[i])

\* <<>> stands for the errors "empty root" and "root longer than 32 bytes".
ParseRoot(text) ==
  IF Len(text.hex) \in 1..ReprLen THEN ZeroPadded(text.hex, ReprLen) ELSE <<>>
-----------------------------------------------------------------------------
(***************************************************************************)
(* The layouts of the public inputs: [pk_commit, issuer_modulus[k],        *)
(* smt_root] and [pk_commit, nullifier, app_id_packed, challenge].         *)
(***************************************************************************)
ExpectedUserSigSignals == 4

NoInputs == [pk_commit |-> <<>>]

WellShaped(signals, t) ==
  /\ Len(signals.cert_chain) = LimbCount[t] + 2
  /\ Len(signals.user_sig) = ExpectedUserSigSignals

\* NoInputs stands for the error returns: a wrong number of signals, or an
\* app_id_packed of more than AppIDLen bytes.
ParsePublicInputs(signals, t) ==
  LET cc == signals.cert_chain  ds == signals.user_sig  k == LimbCount[t]
  IN  IF ~ WellShaped(signals, t) \/ UnpackAppID(ds[3]) = <<>> THEN NoInputs
      ELSE [pk_commit |-> cc[1], nullifier |-> ds[2],
            app_id |-> UnpackAppID(ds[3]), app_id_packed |-> ds[3],
            challenge |-> ds[4], issuer_rsa_modulus |-> SubSeq(cc, 2, k + 1),
            smt_root |-> cc[k + 2]]
=============================================================================
