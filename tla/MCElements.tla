----------------------------- MODULE MCElements ------------------------------
(***************************************************************************)
(* Three elements that share nothing, side by side in one instance: a      *)
(* behaviour belongs to one of them, chosen in the beginning.              *)
(***************************************************************************)
EXTENDS DtcpDec, ExternalSink, AesMptsDec, TLC

CONSTANTS k1, k2

VARIABLE which

elementVars == <<which, decVars, extVars, aesVars>>

ElementInit ==
  /\ which \in {"dtcpdec", "externalsink", "aesmptsdec"}
  /\ DecInit /\ ExtInit /\ AesInit

StepOf(element) == which = element /\ UNCHANGED which
DecStep == StepOf("dtcpdec") /\ UNCHANGED <<extVars, aesVars>>
ExtStep == StepOf("externalsink") /\ UNCHANGED <<decVars, aesVars>>
AesStep == StepOf("aesmptsdec") /\ UNCHANGED <<decVars, extVars>>

ElementNext ==
  \/ DecStep /\ DecNext
  \/ ExtStep /\ ExtNext
  \/ AesStep /\ AesNext

\* The scheduler runs the dispatch thread, and the application's once it is joined.
ElementSpec ==
  /\ ElementInit /\ [][ElementNext]_elementVars
  /\ WF_elementVars(ExtStep /\ DispatchThread)
  /\ WF_elementVars(ExtStep /\ ExtStopped)

-----------------------------------------------------------------------------
\* Two permutations of two-bit blocks, neither its own inverse.
Bits(n) == <<n % 2 = 1, n \div 2 = 1>>
Number(b) == CHOOSE n \in 0..3 : Bits(n) = b
Permute(order) == [b \in [1..2 -> BOOLEAN] |-> Bits(order[Number(b) + 1])]

MCKeys == {k1, k2}
MCCipher == k1 :> Permute(<<3, 0, 2, 1>>) @@ k2 :> Permute(<<1, 2, 3, 0>>)
MCIvs == {Bits(0), Bits(2)}
=============================================================================
