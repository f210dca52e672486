---------------------------- MODULE GameHostProofs ----------------------------
(***************************************************************************)
(* What the contract of GameHost is worth, to whoever keeps it.            *)
(***************************************************************************)
EXTENDS GameHost, TLAPS

\* In every behaviour the contract allows, a game that is awake is on screen and
\* no game outlives its host.  SDLActivity keeps the contract (ImplementsHost).
THEOREM ContractSafe == Spec => [](TypeOK /\ AwakeOnlyShown)
<1> DEFINE Inv == TypeOK /\ AwakeOnlyShown
<1>1. Init => Inv
  BY DEF Init, TypeOK, AwakeOnlyShown
<1>2. Inv /\ [Next]_vars => Inv'
  <2> SUFFICES ASSUME Inv, [Next]_vars PROVE Inv'
    OBVIOUS
  <2>1. CASE Show
    BY <2>1 DEF Show, TypeOK, AwakeOnlyShown
  <2>2. CASE Hide
    BY <2>2 DEF Hide, TypeOK, AwakeOnlyShown
  <2>3. CASE End
    BY <2>3 DEF End, TypeOK, AwakeOnlyShown
  <2>4. CASE Close
    BY <2>4 DEF Close, TypeOK, AwakeOnlyShown
  <2>5. CASE UNCHANGED vars
    BY <2>5 DEF vars, TypeOK, AwakeOnlyShown
  <2> QED BY <2>1, <2>2, <2>3, <2>4, <2>5 DEF Next
<1> QED BY <1>1, <1>2, PTL DEF Spec
=============================================================================
