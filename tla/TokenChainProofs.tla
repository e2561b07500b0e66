-------------------------- MODULE TokenChainProofs --------------------------
(* What the abstract chain of custody guarantees. *)
EXTENDS TokenChain, TLAPS

(* Only an open check-in can be closed, and only a kept chain closes as    *)
(* "ok"; a chain is moved or lost while the check-in is open.              *)
THEOREM ChainReported == Spec => [](TypeOK /\ OkMeansKept)
  <1>1. Init => TypeOK /\ OkMeansKept
    BY DEF Init, TypeOK, OkMeansKept
  <1>2. TypeOK /\ OkMeansKept /\ [Next]_vars => (TypeOK /\ OkMeansKept)'
    BY DEF TypeOK, OkMeansKept, Next, vars, Begin, Rotate, Persist, Lose, CloseOk,
           CloseError, Mint
  <1> QED
    BY <1>1, <1>2, PTL DEF Spec

=============================================================================
