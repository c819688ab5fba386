--------------------------- MODULE MCCapeRuntime ---------------------------
(* A small instance of CapeRuntime for TLC.  A program either works on its  *)
(* buffers, with one startTransaction, or nests and repeats transactions,   *)
(* with one buffer and one heap block: both at once are too many states.    *)
EXTENDS CapeRuntime

CONSTANTS b1, b2, b3, h1, f1

\* b1: 70 bytes.  At 100 they cover lines 64 and 128, at 190 lines 128 to 256.
SizesFixed == [b \in Buffers |-> IF b = b1 THEN {70} ELSE {8}]
Places == [b \in Buffers |-> IF b = b1 THEN {100, 190} ELSE {400}]
Heap1Addr == [h \in Heap |-> 1000]
Heap1Size == [h \in Heap |-> 100]
Regions == [f \in Funcs |-> <<500, 100>>]

VARIABLE scenario

\* What the program does in a step; the steps of the run-time are not bounded.
OnBuffers ==
    /\ \A i \in DOMAIN calls' : calls'[i] # b3
    /\ heapLive' = {}
    /\ control = "run" /\ control' = "begin" => txAttempts = 0

OnTransactions ==
    /\ \A i \in DOMAIN calls' : calls'[i] = b3
    /\ Len(calls') <= 1 /\ Len(stack'[b3]) <= 1

InitOfScenario ==
    /\ Init
    /\ \/ scenario = "buffers"
       \/ scenario = "transactions" /\ funcMap = {}

NextInScenario ==
    /\ Next
    /\ IF scenario = "buffers" THEN OnBuffers ELSE OnTransactions
    /\ UNCHANGED scenario

ScenarioSpec ==
    InitOfScenario /\ [][NextInScenario]_<<vars, scenario>> /\ Fairness
=============================================================================
