---------------------------- MODULE MC_CoreToApp ----------------------------
(* Two threads running the core, each able to send; the payloads are an    *)
(* error frame with code 63, one with code 64, a reply frame carrying      *)
(* code 63, and an error frame whose data has a "codes" key.               *)
EXTENDS CoreToApp, TLC

CONSTANTS t1, t2

MC_Threads == {t1, t2}

MC_Symmetry == Permutations(MC_Threads)

El(k, n) == [key |-> k, type |-> "INT", num |-> n, sub |-> <<>>]
Frame(r, s) == <<RpcElem(r), [key |-> "data", type |-> "OBJECT", num |-> 0, sub |-> s]>>

MC_PayloadDocs ==
    { Frame("err", <<El("msg", 64), El("code", 63)>>),
      Frame("err", <<El("code", 64)>>),
      Frame("ack", <<El("code", 63)>>),
      Frame("err", <<El("codes", 63)>>) }

=============================================================================
