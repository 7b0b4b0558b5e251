---------------------------- MODULE MCFFIBinding ----------------------------
(***************************************************************************)
(* Two goroutines on two threads.  Bytes are bits, a field element has     *)
(* three of them, an app_id two, a limb holds 0..3.  No element is its own *)
(* reversal where the order of bytes matters.                              *)
(***************************************************************************)
EXTENDS FFIBinding

Limbs == [t \in CertChainType |-> IF t = 0 THEN 1 ELSE 2]

Verified ==
  [fails |-> FALSE, type |-> 0,
   cc |-> <<<<1, 0, 0>>, <<0, 1, 0>>, <<1, 1, 0>>>>,
   ds |-> <<<<1, 0, 0>>, <<0, 0, 1>>, <<1, 0, 0>>, <<0, 1, 1>>>>]

\* An RS4096 pair whose low limb is zero, with an all-zero app_id.
Other ==
  [Verified EXCEPT !.type = 1,
     !.cc = <<<<1, 0, 0>>, <<0, 0, 0>>, <<1, 0, 0>>, <<0, 0, 1>>>>,
     !.ds = <<<<1, 0, 0>>, <<1, 0, 0>>, <<0, 0, 0>>, <<1, 1, 0>>>>]

\* Commitments that do not match; an app_id of three bytes; a key of another
\* circuit, with too many signals; a limb that is out of range.
Unlinked == [Verified EXCEPT !.ds[1] = <<0, 0, 1>>]
LongAppID == [Verified EXCEPT !.ds[3] = <<1, 0, 1>>]
ExtraSignal == [Verified EXCEPT !.ds = Append(@, <<0, 0, 0>>)]
WideLimb == [Verified EXCEPT !.cc[2] = <<0, 1, 1>>]

Panicking == [Verified EXCEPT !.fails = TRUE]
NoSignals == [Verified EXCEPT !.ds = <<>>]

Artifacts == {Verified, Other, Unlinked, LongAppID, ExtraSignal, WideLimb,
              Panicking, NoSignals}

Symmetric == Permutations(Goroutine) \cup Permutations(Thread)
=============================================================================
