----------------------------- MODULE MCCallStack -----------------------------
(***************************************************************************)
(* CallStackProps on a six-slot stack: two functions, one that reserves    *)
(* no local and one that reserves one, so that three calls nest, the stack *)
(* fills, and a reserved local holds what an earlier callee left there.    *)
(***************************************************************************)
EXTENDS CallStackProps, TLC

MCRegs          == {0}
MCCodeAddrs     == {4, 8}
MCPoints        == {3}
MCData          == {encodeInt(1)}
MCFunctionTable == 0 :> [entryIP |-> 4, frameSize |-> 0]
                @@ 1 :> [entryIP |-> 8, frameSize |-> 1]
==============================================================================
