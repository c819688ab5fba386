------------------------- MODULE CapeRuntimeProofs -------------------------
(***************************************************************************)
(* What the run-time support guarantees for every number of buffers, every *)
(* bound and every value of MAX_RETRIES, proved with TLAPS.                *)
(***************************************************************************)
EXTENDS CapeRuntime, SequenceTheorems, TLAPS

USE DEF Running

-----------------------------------------------------------------------------
(* Lemmas on sequences.                                                      *)

\* Dropping the last element of a sequence keeps the others where they are.
LEMMA DropLastFacts ==
    ASSUME NEW S, NEW s \in Seq(S), s # <<>>
    PROVE  /\ DropLast(s) \in Seq(S)
           /\ Len(DropLast(s)) = Len(s) - 1
           /\ \A i \in 1 .. Len(s) - 1 : DropLast(s)[i] = s[i]
<1> DEFINE n == Len(s) - 1
<1>1. n \in Nat
  BY EmptySeq
<1>2. \A i \in 1 .. n : s[i] \in S
  BY <1>1
<1>3. /\ SubSeq(s, 1, n) \in Seq(S)
      /\ Len(SubSeq(s, 1, n)) = IF 1 <= n THEN n - 1 + 1 ELSE 0
      /\ \A i \in 1 .. n - 1 + 1 : SubSeq(s, 1, n)[i] = s[1 + i - 1]
  <2> HIDE DEF n
  <2> QED
    BY <1>1, <1>2, SubSeqProperties
<1>4. Len(SubSeq(s, 1, n)) = n
  <2> HIDE DEF n
  <2> QED
    BY <1>1, <1>3
<1>5. \A i \in 1 .. n : SubSeq(s, 1, n)[i] = s[i]
  <2> SUFFICES ASSUME NEW i \in 1 .. n PROVE SubSeq(s, 1, n)[i] = s[i]
    OBVIOUS
  <2>1. 1 + i - 1 = i /\ i \in 1 .. n - 1 + 1
    BY <1>1
  <2> HIDE DEF n
  <2> QED
    BY <1>3, <2>1
<1> QED
  BY <1>3, <1>4, <1>5 DEF DropLast

\* Appending an element keeps the others where they are.
LEMMA AppendFacts ==
    ASSUME NEW S, NEW s \in Seq(S), NEW e \in S
    PROVE  /\ Append(s, e) \in Seq(S)
           /\ Len(Append(s, e)) = Len(s) + 1
           /\ \A i \in 1 .. Len(s) : Append(s, e)[i] = s[i]
           /\ Append(s, e)[Len(s) + 1] = e
  OBVIOUS

-----------------------------------------------------------------------------
(* Type correctness.                                                         *)

LEMMA InitialMemoryType == InitialMemory \in MemoryType
<1>1. <<>> \in Seq(Buffers) /\ <<>> \in Seq(Activations) /\ <<>> \in Seq(Nat)
  BY DEF Activations
<1> QED
  BY <1>1 DEF InitialMemory, MemoryType

\* What is restored has the type of what was saved.
LEMMA RestoreType ==
    ASSUME NEW m \in MemoryType, Restore(m)
    PROVE  /\ calls' \in Seq(Buffers) /\ live' \in [Buffers -> Seq(Activations)]
           /\ heapLive' \subseteq Heap
           /\ stack' \in [Buffers -> Seq(Nat)] /\ size' \in [Buffers -> Nat]
           /\ mallocLen' \in [Heap -> Nat] /\ region' \in Nat \X Nat
           /\ txAttempts' \in Nat /\ txCommitted' \in Nat /\ retries' \in Nat
  BY DEF Restore, MemoryType

LEMMA MemoryHasType == TypeOK => Memory \in MemoryType
  BY DEF TypeOK, Memory, MemoryType

\* LineOf(a) is an address.
LEMMA LineOfType == \A a \in Nat : LineOf(a) \in Nat /\ LineOf(a) <= a
  BY DEF LineOf, lineBytes

LEMMA TouchedType == \A p, n \in Nat : Touched(p, n) \subseteq Nat
  BY LineOfType DEF Touched

LEMMA TouchType ==
    ASSUME NEW as \in SUBSET Nat, NEW B \in SUBSET Promise, TypeOK, Touch(as, B)
    PROVE  /\ readSet' \subseteq Nat /\ promised' \subseteq Promise
           /\ UNCHANGED <<calls, live, heapLive, stack, size, mallocLen, funcMap>>
           /\ UNCHANGED <<txAttempts, txCommitted, retries, control>>
           /\ UNCHANGED <<depth, saved, aborts, failures>>
<1>1. {LineOf(a) : a \in as} \subseteq Nat
  BY LineOfType
<1> QED
  BY <1>1 DEF Touch, TypeOK, program, registry, counters

LEMMA LiveBuffersType == TypeOK => \A b \in Buffers : LiveBuffers(b) \subseteq Buffer
<1> SUFFICES ASSUME TypeOK, NEW b \in Buffers, NEW x \in LiveBuffers(b)
             PROVE  x \in Buffer
  OBVIOUS
<1>0. PICK i \in DOMAIN live[b] : x \in {live[b][i][j] : j \in DOMAIN live[b][i]}
  BY DEF LiveBuffers
<1>1. live[b] \in Seq(Activations)
  BY DEF TypeOK
<1>2. live[b][i] \in Seq(Buffer)
  BY <1>1, ElementOfSeq, LenProperties DEF Activations
<1> QED
  BY <1>0, <1>2, ElementOfSeq, LenProperties

\* Every step keeps the types.
LEMMA TypeStep == TypeOK /\ [Next]_vars => TypeOK'
<1> SUFFICES ASSUME TypeOK, [Next]_vars PROVE TypeOK'
  OBVIOUS
<1> USE RuntimeAssumption
<1>1. ASSUME NEW b \in Buffers, NEW p \in Addrs[b], NEW n \in Sizes[b], EnterEntry(b, p, n)
      PROVE TypeOK'
  <2>0. p \in Nat /\ n \in Nat
    OBVIOUS
  <2>1. calls' \in Seq(Buffers)
    BY <1>1, AppendFacts DEF EnterEntry, TypeOK
  <2>2. live' \in [Buffers -> Seq(Activations)]
    <3>1. <<[ptr |-> p, size |-> n]>> \in Activations
      BY <2>0 DEF Activations, Buffer
    <3> QED
      BY <1>1, <3>1, AppendFacts DEF EnterEntry, TypeOK
  <2>3. stack' \in [Buffers -> Seq(Nat)] /\ size' \in [Buffers -> Nat]
    BY <1>1, <2>0, AppendFacts DEF EnterEntry, pushAllocStack, TypeOK
  <2> QED
    BY <1>1, <2>1, <2>2, <2>3 DEF EnterEntry, TypeOK, code, counters, hardware
<1>2. ASSUME NEW b \in Buffers, NEW p \in Addrs[b], NEW n \in Sizes[b], AllocaLater(b, p, n)
      PROVE TypeOK'
  <2>0. p \in Nat /\ n \in Nat /\ live[b] \in Seq(Activations)
    BY DEF TypeOK
  <2>2. live' \in [Buffers -> Seq(Activations)]
    <3> DEFINE k == Len(live[b])
               a == Append(live[b][k], [ptr |-> p, size |-> n])
    <3>1. k \in 1 .. Len(live[b]) /\ live[b][k] \in Activations
      BY <1>2, <2>0, EmptySeq DEF AllocaLater
    <3>2. a \in Activations
      BY <2>0, <3>1, AppendFacts DEF Activations, Buffer
    <3>3. [live[b] EXCEPT ![k] = a] \in Seq(Activations)
      BY <2>0, <3>1, <3>2, ExceptSeq
    <3>4. live' = [live EXCEPT ![b] = [live[b] EXCEPT ![k] = a]]
      BY <1>2 DEF AllocaLater, TypeOK
    <3> QED
      BY <3>3, <3>4 DEF TypeOK
  <2>3. stack' \in [Buffers -> Seq(Nat)] /\ size' \in [Buffers -> Nat]
    BY <1>2, <2>0, AppendFacts DEF AllocaLater, pushAllocStack, TypeOK
  <2> QED
    BY <1>2, <2>2, <2>3 DEF AllocaLater, TypeOK, code, counters, hardware
<1>3. ASSUME NEW b \in Buffers, EnterLater(b) PROVE TypeOK'
  <2>1. <<>> \in Activations
    BY DEF Activations
  <2> QED
    BY <1>3, <2>1, AppendFacts DEF EnterLater, TypeOK, registry, code, counters, hardware
<1>4. ASSUME NEW b \in Buffers, NEW atFirst \in BOOLEAN, Leave(b, atFirst) PROVE TypeOK'
  <2>1. calls' \in Seq(Buffers)
    BY <1>4, DropLastFacts DEF Leave, TypeOK
  <2>2. live' \in [Buffers -> Seq(Activations)]
    BY <1>4, DropLastFacts DEF Leave, TypeOK
  <2>3. stack' \in [Buffers -> Seq(Nat)]
    <3>1. CASE atFirst /\ stack[b] # <<>>
      <4>1. stack' = [stack EXCEPT ![b] = DropLast(stack[b])]
        BY <1>4, <3>1 DEF Leave, popAllocStack
      <4>2. DropLast(stack[b]) \in Seq(Nat)
        BY <3>1, DropLastFacts DEF TypeOK
      <4> QED
        BY <4>1, <4>2 DEF TypeOK
    <3>2. CASE ~(atFirst /\ stack[b] # <<>>)
      BY <1>4, <3>2 DEF Leave, popAllocStack, TypeOK
    <3> QED
      BY <3>1, <3>2
  <2> QED
    BY <1>4, <2>1, <2>2, <2>3 DEF Leave, TypeOK, code, counters, hardware
<1>5. ASSUME NEW h \in Heap, Malloc(h) \/ Free(h) PROVE TypeOK'
  BY <1>5 DEF Malloc, Free, insertMallocSet, eraseMallocSet, TypeOK, code, counters, hardware
<1>6. startTransaction => TypeOK'
  BY DEF startTransaction, TypeOK, program, registry, code
<1>7. ASSUME XBeginStarted PROVE TypeOK'
  <2>0. Memory \in MemoryType
    BY MemoryHasType
  <2>1. saved' \in MemoryType /\ readSet' \subseteq Nat
    BY <1>7, <2>0 DEF XBeginStarted, TypeOK
  <2>2. depth' \in 0 .. MaxNest
    BY <1>7 DEF XBeginStarted, TypeOK
  <2> QED
    BY <1>7, <2>1, <2>2 DEF XBeginStarted, TypeOK, program, registry, code, counters
<1>8. XBeginRefused => TypeOK'
  BY DEF XBeginRefused, TypeOK, program, registry, code, counters
<1>9. Rollback => TypeOK'
  BY RestoreType, InitialMemoryType DEF Rollback, TypeOK
<1>10. Retry => TypeOK'
  BY DEF Retry, TypeOK, program, registry, code, hardware
<1>11. ASSUME endTransaction PROVE TypeOK'
  <2>1. /\ saved' = saved \/ saved' = InitialMemory
        /\ readSet' = readSet \/ readSet' = {}
        /\ promised' = promised \/ promised' = {}
    BY <1>11 DEF endTransaction
  <2>2. depth' \in 0 .. MaxNest /\ txCommitted' \in Nat
    BY <1>11 DEF endTransaction, TypeOK
  <2> QED
    BY <1>11, <2>1, <2>2, InitialMemoryType DEF endTransaction, TypeOK, program, registry, code
<1>13. ASSUME NEW b \in Buffers, iterateAllocStack(b) PROVE TypeOK'
  <2>1. UNION {Touched(stack[b][i], size[b]) : i \in DOMAIN stack[b]} \subseteq Nat
    BY TouchedType DEF TypeOK
  <2>2. LiveBuffers(b) \subseteq Buffer
    BY LiveBuffersType
  <2>3. {[kind |-> StackKind(b), ptr |-> x.ptr, size |-> x.size] : x \in LiveBuffers(b)}
          \subseteq Promise
    BY <2>2 DEF Promise, StackKind, Buffer
  <2> QED
    BY <1>13, <2>1, <2>3, TouchType DEF iterateAllocStack, TypeOK
<1>14. ASSUME NEW h \in Heap, iterateMallocSet(h) PROVE TypeOK'
  <2>1. UNION {Touched(HeapAddr[h], HeapSize[h]) : i \in 1 .. mallocLen[h]} \subseteq Nat
    BY TouchedType
  <2>2. {[kind |-> "heap", ptr |-> HeapAddr[k], size |-> HeapSize[k]] :
                 k \in heapLive \cap {h}} \subseteq Promise
    BY DEF Promise
  <2> QED
    BY <1>14, <2>1, <2>2, TouchType DEF iterateMallocSet, TypeOK
<1>15. ASSUME NEW f \in Funcs, preloadInstAddr(f) PROVE TypeOK'
  <2>1. Region[f][1] \in Nat /\ Region[f][2] \in Nat /\ Region[f] \in Nat \X Nat
    OBVIOUS
  <2>2. Touched(Region[f][1], Region[f][2]) \subseteq Nat
    BY <2>1, TouchedType
  <2>3. {[kind |-> "code", ptr |-> Region[f][1], size |-> Region[f][2]]} \subseteq Promise
    BY <2>1 DEF Promise
  <2>4. CASE f \in funcMap
    <3> DEFINE as == Touched(Region[f][1], Region[f][2])
               B == {[kind |-> "code", ptr |-> Region[f][1], size |-> Region[f][2]]}
    <3>1. region' = Region[f] /\ Touch(as, B)
      BY <1>15, <2>4 DEF preloadInstAddr
    <3>2. as \in SUBSET Nat /\ B \in SUBSET Promise
      BY <2>2, <2>3
    <3> HIDE DEF TypeOK, as, B
    <3>3. /\ readSet' \subseteq Nat /\ promised' \subseteq Promise
          /\ UNCHANGED <<calls, live, heapLive, stack, size, mallocLen, funcMap>>
          /\ UNCHANGED <<txAttempts, txCommitted, retries, control>>
          /\ UNCHANGED <<depth, saved, aborts, failures>>
      BY <3>1, <3>2, TouchType
    <3> QED
      BY <2>1, <3>1, <3>3 DEF TypeOK
  <2>5. CASE f \notin funcMap
    <3>1. Touch({}, {}) /\ UNCHANGED region
      BY <1>15, <2>5 DEF preloadInstAddr
    <3> QED
      BY <3>1, TouchType DEF TypeOK
  <2> QED
    BY <2>4, <2>5
<1>12. CASE UNCHANGED vars
  BY <1>12 DEF vars, program, registry, code, counters, hardware, TypeOK
<1> QED
  BY <1>1, <1>2, <1>3, <1>4, <1>5, <1>6, <1>7, <1>8, <1>9, <1>10, <1>11, <1>12,
     <1>13, <1>14, <1>15
     DEF Next, XBegin, XBeginTooDeep, Abort

\* The variables of the runtime and of the instrumented program keep their
\* types, aborts included.
THEOREM TypeCorrect == Spec => []TypeOK
<1>1. Init => TypeOK
  BY RuntimeAssumption, InitialMemoryType
     DEF Init, TypeOK, Activations
<1> QED
  BY <1>1, TypeStep, PTL DEF Spec

-----------------------------------------------------------------------------
(* The counters.  What an abort restores was saved just after the            *)
(* outermost start had been counted, and the retry count then.               *)

AccountingInv ==
    /\ TypeOK
    /\ TxAccounting
    /\ depth > 0 => saved.txAttempts = saved.txCommitted + aborts + 1
    /\ control \in {"failed", "exited"} => depth = 0

\* The steps of the program, of the registry and of preloading.
ProgramStep ==
    \/ \E b \in Buffers :
         \/ \E p \in Addrs[b], n \in Sizes[b] : EnterEntry(b, p, n) \/ AllocaLater(b, p, n)
         \/ EnterLater(b)
         \/ \E atFirst \in BOOLEAN : Leave(b, atFirst)
         \/ iterateAllocStack(b)
    \/ \E h \in Heap : Malloc(h) \/ Free(h) \/ iterateMallocSet(h)
    \/ \E f \in Funcs : preloadInstAddr(f)

TransactionStep ==
    \/ startTransaction \/ XBeginStarted \/ XBeginRefused \/ (Rollback /\ depth > 0)
    \/ Retry \/ endTransaction

\* Such a step happens in the program's own code and leaves the transaction and
\* the counters alone.
LEMMA ProgramStepFrame ==
    ProgramStep => /\ Running
                   /\ UNCHANGED <<txAttempts, txCommitted, retries, control>>
                   /\ UNCHANGED <<depth, saved, aborts, failures>>
<1>1. \A as, B : Touch(as, B) =>
        /\ Running
        /\ UNCHANGED <<txAttempts, txCommitted, retries, control>>
        /\ UNCHANGED <<depth, saved, aborts, failures>>
  BY DEF Touch, counters
<1>2. ASSUME NEW f \in Funcs, preloadInstAddr(f)
      PROVE  \E as, B : Touch(as, B)
  BY <1>2 DEF preloadInstAddr
<1>3. ASSUME NEW b \in Buffers, iterateAllocStack(b)
      PROVE  \E as, B : Touch(as, B)
  BY <1>3 DEF iterateAllocStack
<1>4. ASSUME NEW h \in Heap, iterateMallocSet(h)
      PROVE  \E as, B : Touch(as, B)
  BY <1>4 DEF iterateMallocSet
<1>5. ASSUME NEW b \in Buffers, NEW p \in Addrs[b], NEW n \in Sizes[b],
             EnterEntry(b, p, n) \/ AllocaLater(b, p, n)
      PROVE  /\ Running
             /\ UNCHANGED <<txAttempts, txCommitted, retries, control>>
             /\ UNCHANGED <<depth, saved, aborts, failures>>
  BY <1>5 DEF EnterEntry, AllocaLater, counters, hardware
<1>6. ASSUME NEW b \in Buffers, EnterLater(b) \/ \E atFirst \in BOOLEAN : Leave(b, atFirst)
      PROVE  /\ Running
             /\ UNCHANGED <<txAttempts, txCommitted, retries, control>>
             /\ UNCHANGED <<depth, saved, aborts, failures>>
  BY <1>6 DEF EnterLater, Leave, counters, hardware
<1>7. ASSUME NEW h \in Heap, Malloc(h) \/ Free(h)
      PROVE  /\ Running
             /\ UNCHANGED <<txAttempts, txCommitted, retries, control>>
             /\ UNCHANGED <<depth, saved, aborts, failures>>
  BY <1>7 DEF Malloc, Free, counters, hardware
<1> QED
  BY <1>1, <1>2, <1>3, <1>4, <1>5, <1>6, <1>7, Zenon DEF ProgramStep

\* Next is one or the other.
LEMMA NextSplit == TypeOK /\ Next => ProgramStep \/ TransactionStep
<1> SUFFICES ASSUME TypeOK, Next PROVE ProgramStep \/ TransactionStep
  OBVIOUS
<1>1. XBeginTooDeep => Rollback /\ depth > 0
  BY RuntimeAssumption DEF XBeginTooDeep, TypeOK
<1> QED
  BY <1>1 DEF Next, ProgramStep, TransactionStep, XBegin, Abort

LEMMA AccountingStep == AccountingInv /\ [Next]_vars => AccountingInv'
<1> SUFFICES ASSUME AccountingInv, [Next]_vars PROVE AccountingInv'
  OBVIOUS
<1>0. TypeOK /\ TypeOK'
  BY TypeStep DEF AccountingInv
<1>1. CASE ProgramStep
  BY <1>0, <1>1, ProgramStepFrame DEF AccountingInv, TxAccounting, InBegin
<1>2. CASE startTransaction
  BY <1>0, <1>2 DEF startTransaction, AccountingInv, TxAccounting, InBegin, TypeOK
<1>3. CASE XBeginStarted
  <2>1. depth \in Nat /\ txCommitted \in Nat /\ aborts \in Nat /\ txAttempts \in Nat
    BY <1>0, RuntimeAssumption DEF TypeOK
  <2>2. /\ control = "begin" /\ control' = "run" /\ depth' = depth + 1
        /\ UNCHANGED <<txAttempts, txCommitted, aborts>>
    BY <1>3 DEF XBeginStarted, counters
  <2>3. txAttempts = txCommitted + aborts + depth + 1
    BY <2>2 DEF AccountingInv, TxAccounting, InBegin
  <2>4. saved' = IF depth = 0 THEN Memory ELSE saved
    BY <1>3 DEF XBeginStarted
  <2>5. Memory.txAttempts = txAttempts /\ Memory.txCommitted = txCommitted
    BY DEF Memory
  <2>6. saved'.txAttempts = saved'.txCommitted + aborts + 1
    <3>1. CASE depth = 0
      BY <2>1, <2>3, <2>4, <2>5, <3>1
    <3>2. CASE depth # 0
      BY <2>1, <2>4, <3>2 DEF AccountingInv
    <3> QED
      BY <3>1, <3>2
  <2> QED
    BY <1>0, <2>1, <2>2, <2>3, <2>6 DEF AccountingInv, TxAccounting, InBegin
<1>4. CASE XBeginRefused
  BY <1>0, <1>4 DEF XBeginRefused, AccountingInv, TxAccounting, InBegin, TypeOK, counters
<1>5. CASE Rollback /\ depth > 0
  <2>1. saved.txCommitted \in Nat /\ aborts \in Nat
    BY <1>0 DEF TypeOK, MemoryType
  <2>2. /\ txAttempts' = saved.txAttempts /\ txCommitted' = saved.txCommitted
        /\ aborts' = aborts + 1 /\ depth' = 0 /\ control' = "failed"
    BY <1>5 DEF Rollback, Restore
  <2>3. saved.txAttempts = saved.txCommitted + aborts + 1
    BY <1>5 DEF AccountingInv
  <2> QED
    BY <1>0, <2>1, <2>2, <2>3 DEF AccountingInv, TxAccounting, InBegin
<1>6. CASE Retry
  BY <1>0, <1>6 DEF Retry, AccountingInv, TxAccounting, InBegin, TypeOK, hardware
<1>7. CASE endTransaction
  <2>1. depth \in Nat /\ txCommitted \in Nat /\ aborts \in Nat /\ txAttempts \in Nat
    BY <1>0, RuntimeAssumption DEF TypeOK
  <2>2. control' = control /\ control = "run" /\ txAttempts' = txAttempts /\ aborts' = aborts
    BY <1>7 DEF endTransaction
  <2>3. CASE depth > 0
    BY <1>0, <1>7, <2>1, <2>2, <2>3
       DEF endTransaction, AccountingInv, TxAccounting, InBegin
  <2>4. CASE depth = 0
    BY <1>0, <1>7, <2>1, <2>2, <2>4
       DEF endTransaction, AccountingInv, TxAccounting, InBegin
  <2> QED
    BY <2>1, <2>3, <2>4
<1>8. CASE UNCHANGED vars
  BY <1>0, <1>8 DEF vars, hardware, counters, AccountingInv, TxAccounting, InBegin
<1> QED
  BY <1>0, <1>1, <1>2, <1>3, <1>4, <1>5, <1>6, <1>7, <1>8, NextSplit DEF TransactionStep

\* Every attempt that is counted has committed, failed or is still open: the
\* ratio that printCycles reports is at least one.
THEOREM AttemptsAccounted == Spec => []TxAccounting
<1>1. Init => AccountingInv
  <2>1. Init => TypeOK
    BY RuntimeAssumption, InitialMemoryType DEF Init, TypeOK, Activations
  <2> QED
    BY <2>1 DEF Init, AccountingInv, TxAccounting, InBegin
<1>2. AccountingInv => TxAccounting
  BY DEF AccountingInv
<1> QED
  BY <1>1, <1>2, AccountingStep, PTL DEF Spec

-----------------------------------------------------------------------------
(* The retry bound.  Outside a transaction the retry count is the number of   *)
(* failures, in one it is the count saved by the outermost _xbegin.           *)

RetryInv ==
    /\ TypeOK
    /\ control \in {"failed", "exited"} => depth = 0
    /\ depth > 0 => saved.retries = failures /\ failures <= MAX_RETRIES
    /\ (depth = 0 /\ control = "begin") => retries = failures /\ failures <= MAX_RETRIES
    /\ control = "failed" => failures = retries + 1 /\ failures <= MAX_RETRIES + 1
    /\ GivesUp

LEMMA RetryStep == RetryInv /\ [Next]_vars => RetryInv'
<1> SUFFICES ASSUME RetryInv, [Next]_vars PROVE RetryInv'
  OBVIOUS
<1> USE RuntimeAssumption
<1>0. TypeOK /\ TypeOK'
  BY TypeStep DEF RetryInv
<1>1. CASE ProgramStep
  BY <1>0, <1>1, ProgramStepFrame DEF RetryInv, GivesUp
<1>2. CASE startTransaction
  BY <1>0, <1>2 DEF startTransaction, RetryInv, GivesUp, TypeOK
<1>3. CASE XBeginStarted
  BY <1>0, <1>3 DEF XBeginStarted, RetryInv, GivesUp, TypeOK, Memory, counters
<1>4. CASE XBeginRefused
  BY <1>0, <1>4 DEF XBeginRefused, RetryInv, GivesUp, TypeOK, counters
<1>5. CASE Rollback /\ depth > 0
  BY <1>0, <1>5 DEF Rollback, Restore, RetryInv, GivesUp, TypeOK
<1>6. CASE Retry
  BY <1>0, <1>6 DEF Retry, RetryInv, GivesUp, TypeOK, hardware
<1>7. CASE endTransaction
  BY <1>0, <1>7 DEF endTransaction, RetryInv, GivesUp, TypeOK
<1>8. CASE UNCHANGED vars
  BY <1>0, <1>8 DEF vars, hardware, counters, RetryInv, GivesUp
<1> QED
  BY <1>0, <1>1, <1>2, <1>3, <1>4, <1>5, <1>6, <1>7, <1>8, NextSplit DEF TransactionStep

\* startTransaction gives up after MAX_RETRIES + 1 failures, no more and no
\* less, whatever transactions were nested in the attempts.
THEOREM RetryBound == Spec => []GivesUp
<1>1. Init => RetryInv
  <2>1. Init => TypeOK
    BY RuntimeAssumption, InitialMemoryType DEF Init, TypeOK, Activations
  <2> QED
    BY <2>1, RuntimeAssumption DEF Init, RetryInv, GivesUp
<1>2. RetryInv => GivesUp
  BY DEF RetryInv
<1> QED
  BY <1>1, <1>2, RetryStep, PTL DEF Spec

-----------------------------------------------------------------------------
(* The registry of stack buffers.                                            *)

LEMMA CoversEmpty == Covers(<<>>, <<>>)
<1> DEFINE f == [i \in 1 .. 0 |-> 0]
<1>1. f \in [1 .. Len(<<>>) -> 1 .. Len(<<>>)]
  OBVIOUS
<1>2. \A i, j \in 1 .. Len(<<>>) : FALSE
  OBVIOUS
<1> HIDE DEF f
<1> QED
  BY <1>1, <1>2, Zenon DEF Covers, Increasing

\* A call: the activation and its entry are added together.
LEMMA CoversAppend ==
    ASSUME NEW s \in Seq(Nat), NEW a \in Seq(Activations), Covers(s, a),
           NEW x \in Buffer
    PROVE  Covers(Append(s, x.ptr), Append(a, <<x>>))
<1> DEFINE n == Len(a)
           m == Len(s)
           t == Append(s, x.ptr)
           c == Append(a, <<x>>)
<1>1. n \in Nat /\ m \in Nat /\ x.ptr \in Nat /\ <<x>> \in Activations
  BY DEF Buffer, Activations
<1>2. PICK f \in [1 .. n -> 1 .. m] :
        Increasing(f, n) /\ \A i \in 1 .. n : a[i] # <<>> /\ s[f[i]] = a[i][1].ptr
  BY DEF Covers
<1> DEFINE g == [i \in 1 .. n + 1 |-> IF i <= n THEN f[i] ELSE m + 1]
<1>3. /\ Len(c) = n + 1 /\ \A i \in 1 .. n : c[i] = a[i]
      /\ c[n + 1] = <<x>>
  BY <1>1, AppendFacts
<1>4. /\ Len(t) = m + 1 /\ \A i \in 1 .. m : t[i] = s[i]
      /\ t[m + 1] = x.ptr
  BY <1>1, AppendFacts
<1>5. g \in [1 .. Len(c) -> 1 .. Len(t)]
  BY <1>1, <1>2, <1>3, <1>4
<1>6. Increasing(g, Len(c))
  BY <1>1, <1>2, <1>3 DEF Increasing
<1>7. ASSUME NEW i \in 1 .. Len(c) PROVE c[i] # <<>> /\ t[g[i]] = c[i][1].ptr
  <2>1. CASE i <= n
    BY <1>1, <1>2, <1>3, <1>4, <2>1
  <2>2. CASE i = n + 1
    BY <1>1, <1>3, <1>4, <2>2
  <2> QED
    BY <1>1, <1>3, <2>1, <2>2
<1> HIDE DEF g, t, c
<1>8. Covers(t, c)
  BY <1>5, <1>6, <1>7 DEF Covers
<1> QED
  BY <1>8 DEF t, c

\* A return: the innermost activation goes, with the top entry or without it.
LEMMA CoversDrop ==
    ASSUME NEW s \in Seq(Nat), NEW a \in Seq(Activations), Covers(s, a), a # <<>>
    PROVE  /\ s # <<>>
           /\ Covers(DropLast(s), DropLast(a))
           /\ Covers(s, DropLast(a))
<1> DEFINE n == Len(a)
           m == Len(s)
           d == DropLast(a)
<1>1. n \in Nat /\ n > 0 /\ m \in Nat
  BY EmptySeq
<1>2. PICK f \in [1 .. n -> 1 .. m] :
        Increasing(f, n) /\ \A i \in 1 .. n : a[i] # <<>> /\ s[f[i]] = a[i][1].ptr
  BY DEF Covers
<1>3. s # <<>> /\ m > 0
  BY <1>1, <1>2
<1>4. Len(d) = n - 1 /\ \A i \in 1 .. n - 1 : d[i] = a[i]
  BY DropLastFacts
<1>5. Len(DropLast(s)) = m - 1 /\ \A i \in 1 .. m - 1 : DropLast(s)[i] = s[i]
  BY <1>3, DropLastFacts
<1>6. ASSUME NEW i \in 1 .. n - 1 PROVE i \in 1 .. n /\ f[i] \in 1 .. m - 1
  <2> HIDE DEF n, m
  <2>1. i \in 1 .. n /\ n \in 1 .. n /\ i < n
    BY <1>1
  <2>2. f[i] < f[n] /\ f[i] \in 1 .. m /\ f[n] \in 1 .. m
    BY <1>2, <2>1 DEF Increasing
  <2> QED
    BY <1>1, <2>1, <2>2
<1> DEFINE g == [i \in 1 .. n - 1 |-> f[i]]
<1>12. 1 .. Len(d) = 1 .. n - 1 /\ Len(d) = n - 1
  BY <1>4
<1> HIDE DEF n, m, d
<1>13. \A i \in 1 .. m - 1 : i \in 1 .. m
  BY <1>1
<1>7. g \in [1 .. Len(d) -> 1 .. m - 1] /\ g \in [1 .. Len(d) -> 1 .. m]
  BY <1>6, <1>12, <1>13
<1>8. Increasing(g, Len(d))
  BY <1>2, <1>6, <1>12 DEF Increasing
<1>9. ASSUME NEW i \in 1 .. Len(d)
      PROVE d[i] # <<>> /\ s[g[i]] = d[i][1].ptr /\ DropLast(s)[g[i]] = d[i][1].ptr
  <2>1. i \in 1 .. n - 1 /\ i \in 1 .. n /\ f[i] \in 1 .. m - 1 /\ g[i] = f[i]
    BY <1>6, <1>12
  <2>2. d[i] = a[i] /\ DropLast(s)[f[i]] = s[f[i]]
    BY <1>4, <1>5, <2>1
  <2> QED
    BY <1>2, <2>1, <2>2
<1> HIDE DEF g
<1>10. Covers(s, d)
  BY <1>7, <1>8, <1>9 DEF Covers, m
<1>11. Covers(DropLast(s), d)
  BY <1>5, <1>7, <1>8, <1>9 DEF Covers
<1> QED
  BY <1>3, <1>10, <1>11 DEF d

\* A registry st, with sizes sz, that is good for the activations lv.
GoodFor(b, st, sz, lv) ==
    /\ Covers(st[b], lv[b])
    /\ \A i \in 1 .. Len(lv[b]) : Len(lv[b][i]) = 1 /\ lv[b][i][1].size \in Sizes[b]
    /\ st[b] # <<>> => sz[b] \in Sizes[b]

RegistryInv ==
    /\ TypeOK
    /\ \A b \in EntryAlloca : GoodFor(b, stack, size, live)
    /\ \A b \in EntryAlloca : GoodFor(b, saved.stack, saved.size, saved.live)

LEMMA RegistryInit == Init => RegistryInv
<1> SUFFICES ASSUME Init PROVE RegistryInv
  OBVIOUS
<1> USE RuntimeAssumption
<1>1. TypeOK
  BY InitialMemoryType DEF Init, TypeOK, Activations
<1>2. \A i \in 1 .. Len(<<>>) : FALSE
  OBVIOUS
<1>3. ASSUME NEW b \in EntryAlloca
      PROVE  GoodFor(b, stack, size, live) /\ GoodFor(b, saved.stack, saved.size, saved.live)
  <2>1. /\ stack[b] = <<>> /\ live[b] = <<>>
        /\ saved.stack[b] = <<>> /\ saved.live[b] = <<>>
    BY DEF Init, InitialMemory
  <2> QED
    BY <1>2, <2>1, CoversEmpty, Zenon DEF GoodFor
<1> QED
  BY <1>1, <1>3 DEF RegistryInv

LEMMA EnterKeepsGood ==
    ASSUME TypeOK, NEW b \in EntryAlloca, NEW p \in Addrs[b], NEW n \in Sizes[b],
           EnterEntry(b, p, n), GoodFor(b, stack, size, live)
    PROVE  GoodFor(b, stack', size', live')
<1> USE RuntimeAssumption
<1> DEFINE x == [ptr |-> p, size |-> n]
           lb == live[b]
<1>1. x \in Buffer /\ x.ptr = p /\ x.size = n /\ <<x>> \in Activations
  BY DEF Buffer, Activations
<1>2. /\ stack[b] \in Seq(Nat) /\ lb \in Seq(Activations)
      /\ stack'[b] = Append(stack[b], x.ptr) /\ live'[b] = Append(lb, <<x>>)
      /\ size'[b] = n
  BY <1>1 DEF TypeOK, EnterEntry, pushAllocStack
<1>3. Covers(stack'[b], live'[b])
  <2> HIDE DEF x, lb
  <2> QED
    BY <1>1, <1>2, CoversAppend DEF GoodFor, lb
<1>4. ASSUME NEW i \in 1 .. Len(live'[b])
      PROVE  Len(live'[b][i]) = 1 /\ live'[b][i][1].size \in Sizes[b]
  <2>1. /\ Len(live'[b]) = Len(lb) + 1 /\ Len(lb) \in Nat
        /\ \A j \in 1 .. Len(lb) : live'[b][j] = lb[j]
        /\ live'[b][Len(lb) + 1] = <<x>>
    <3> HIDE DEF x, lb
    <3> QED
      BY <1>1, <1>2, AppendFacts
  <2>2. CASE i \in 1 .. Len(lb)
    BY <2>1, <2>2 DEF GoodFor
  <2>3. CASE i = Len(lb) + 1
    <3>1. Len(<<x>>) = 1 /\ <<x>>[1] = x
      OBVIOUS
    <3> HIDE DEF x, lb
    <3> QED
      BY <1>1, <2>1, <2>3, <3>1
  <2> QED
    BY <1>4, <2>1, <2>2, <2>3
<1> QED
  BY <1>2, <1>3, <1>4 DEF GoodFor

LEMMA LeaveKeepsGood ==
    ASSUME TypeOK, NEW b \in EntryAlloca, NEW atFirst \in BOOLEAN,
           Leave(b, atFirst), GoodFor(b, stack, size, live)
    PROVE  GoodFor(b, stack', size', live')
<1> USE RuntimeAssumption
<1>1. /\ stack[b] \in Seq(Nat) /\ live[b] \in Seq(Activations) /\ live[b] # <<>>
      /\ live'[b] = DropLast(live[b]) /\ size' = size
  BY DEF TypeOK, Leave
<1>2. /\ Covers(DropLast(stack[b]), DropLast(live[b])) /\ Covers(stack[b], DropLast(live[b]))
      /\ stack[b] # <<>>
  BY <1>1, CoversDrop DEF GoodFor
<1>3. stack'[b] = stack[b] \/ stack'[b] = DropLast(stack[b])
  <2>1. CASE atFirst
    BY <1>2, <2>1 DEF Leave, popAllocStack, TypeOK
  <2>2. CASE ~atFirst
    BY <2>2 DEF Leave
  <2> QED
    BY <2>1, <2>2
<1>4. \A i \in 1 .. Len(live'[b]) : Len(live'[b][i]) = 1 /\ live'[b][i][1].size \in Sizes[b]
  <2>1. /\ Len(live'[b]) = Len(live[b]) - 1 /\ Len(live[b]) \in Nat
        /\ \A j \in 1 .. Len(live[b]) - 1 : live'[b][j] = live[b][j]
    <3>1. Len(live[b]) \in Nat
      BY <1>1
    <3> QED
      BY <1>1, <3>1, DropLastFacts
  <2>2. \A i \in 1 .. Len(live'[b]) : i \in 1 .. Len(live[b]) /\ live'[b][i] = live[b][i]
    BY <2>1
  <2> QED
    BY <2>2 DEF GoodFor
<1> QED
  BY <1>1, <1>2, <1>3, <1>4 DEF GoodFor

\* The actions that leave the buffers of b and their registry alone.
LEMMA GoodFrame ==
    ASSUME NEW b \in EntryAlloca, GoodFor(b, stack, size, live),
           stack'[b] = stack[b], size'[b] = size[b], live'[b] = live[b]
    PROVE  GoodFor(b, stack', size', live')
  BY DEF GoodFor

\* What a step outside the registry leaves unchanged.
LEMMA PreloadFrame ==
    ASSUME \/ \E b \in Buffers : iterateAllocStack(b)
           \/ \E h \in Heap : iterateMallocSet(h)
           \/ \E f \in Funcs : preloadInstAddr(f)
    PROVE  UNCHANGED <<stack, size, live, saved>>
  BY DEF iterateAllocStack, iterateMallocSet, preloadInstAddr, Touch, program, registry

LEMMA RegistryStep == RegistryInv /\ [Next]_vars => RegistryInv'
<1> SUFFICES ASSUME RegistryInv, [Next]_vars PROVE RegistryInv'
  OBVIOUS
<1> USE RuntimeAssumption
<1>0. TypeOK /\ TypeOK'
  BY TypeStep DEF RegistryInv
<1>1. SUFFICES ASSUME NEW b \in EntryAlloca
               PROVE  /\ GoodFor(b, stack', size', live')
                      /\ GoodFor(b, saved'.stack, saved'.size, saved'.live)
  BY <1>0 DEF RegistryInv, GoodFor
<1>2. /\ GoodFor(b, stack, size, live)
      /\ GoodFor(b, saved.stack, saved.size, saved.live)
  BY DEF RegistryInv
<1>3. GoodFor(b, InitialMemory.stack, InitialMemory.size, InitialMemory.live)
  <2>1. \A i \in 1 .. Len(<<>>) : FALSE
    OBVIOUS
  <2>2. InitialMemory.stack[b] = <<>> /\ InitialMemory.live[b] = <<>>
    BY DEF InitialMemory
  <2> QED
    BY <2>1, <2>2, CoversEmpty, Zenon DEF GoodFor
<1>4. ASSUME NEW c \in Buffers, NEW p \in Addrs[c], NEW n \in Sizes[c], EnterEntry(c, p, n)
      PROVE  GoodFor(b, stack', size', live') /\ saved' = saved
  <2>1. CASE c = b
    BY <1>0, <1>2, <1>4, <2>1, EnterKeepsGood DEF EnterEntry, hardware
  <2>2. CASE c # b
    BY <1>0, <1>2, <1>4, <2>2, GoodFrame DEF EnterEntry, pushAllocStack, hardware, TypeOK
  <2> QED
    BY <2>1, <2>2
<1>5. ASSUME NEW c \in Buffers, NEW p \in Addrs[c], NEW n \in Sizes[c], AllocaLater(c, p, n)
      PROVE  GoodFor(b, stack', size', live') /\ saved' = saved
  BY <1>0, <1>2, <1>5, GoodFrame DEF AllocaLater, pushAllocStack, hardware, TypeOK
<1>6. ASSUME NEW c \in Buffers, EnterLater(c)
      PROVE  GoodFor(b, stack', size', live') /\ saved' = saved
  BY <1>0, <1>2, <1>6, GoodFrame DEF EnterLater, registry, hardware, TypeOK
<1>7. ASSUME NEW c \in Buffers, NEW atFirst \in BOOLEAN, Leave(c, atFirst)
      PROVE  GoodFor(b, stack', size', live') /\ saved' = saved
  <2>1. CASE c = b
    BY <1>0, <1>2, <1>7, <2>1, LeaveKeepsGood DEF Leave, hardware
  <2>2. CASE c # b
    BY <1>0, <1>2, <1>7, <2>2, GoodFrame DEF Leave, popAllocStack, hardware, TypeOK
  <2> QED
    BY <2>1, <2>2
<1>8. CASE UNCHANGED <<stack, size, live, saved>>
  BY <1>2, <1>8
<1>9. CASE XBeginStarted
  BY <1>2, <1>9 DEF XBeginStarted, program, registry, Memory
<1>10. CASE Rollback
  BY <1>2, <1>3, <1>10 DEF Rollback, Restore
<1>11. CASE endTransaction
  BY <1>2, <1>3, <1>11 DEF endTransaction, program, registry
<1>12. startTransaction \/ XBeginRefused \/ Retry => UNCHANGED <<stack, size, live, saved>>
  BY DEF startTransaction, XBeginRefused, Retry, program, registry, hardware
<1>13. ASSUME NEW h \in Heap, Malloc(h) \/ Free(h)
       PROVE  UNCHANGED <<stack, size, live, saved>>
  BY <1>13 DEF Malloc, Free, hardware
<1>14. UNCHANGED vars => UNCHANGED <<stack, size, live, saved>>
  BY DEF vars, program, registry, hardware
<1>15. CASE ProgramStep
  BY <1>2, <1>4, <1>5, <1>6, <1>7, <1>8, <1>13, <1>15, PreloadFrame DEF ProgramStep
<1>16. CASE TransactionStep
  BY <1>8, <1>9, <1>10, <1>11, <1>12, <1>16 DEF TransactionStep
<1> QED
  BY <1>0, <1>8, <1>14, <1>15, <1>16, NextSplit

\* The pop before the first return only, together with nested activations and
\* aborts, never takes a live buffer out of the registry.
THEOREM LiveBuffersRegistered == Spec => []LiveCovered
<1>1. RegistryInv => LiveCovered
  BY DEF RegistryInv, GoodFor, LiveCovered
<1> QED
  BY <1>1, RegistryInit, RegistryStep, PTL DEF Spec

-----------------------------------------------------------------------------
(* With one return instruction every return pops, so that the entries and the *)
(* activations stay in step.                                                  *)

\* The registry st holds the buffers of the activations lv and nothing else.
ExactFor(b, st, lv) ==
    /\ Len(st[b]) = Len(lv[b])
    /\ \A i \in 1 .. Len(lv[b]) : st[b][i] = lv[b][i][1].ptr

StaleInv ==
    /\ TypeOK
    /\ \A b \in EntryAlloca \cap SingleReturn :
         ExactFor(b, stack, live) /\ ExactFor(b, saved.stack, saved.live)

LEMMA EnterKeepsExact ==
    ASSUME TypeOK, NEW b \in EntryAlloca, NEW p \in Addrs[b], NEW n \in Sizes[b],
           EnterEntry(b, p, n), ExactFor(b, stack, live)
    PROVE  ExactFor(b, stack', live')
<1> USE RuntimeAssumption
<1> DEFINE x == [ptr |-> p, size |-> n]
           m == Len(live[b])
<1>1. x \in Buffer /\ x.ptr = p /\ p \in Nat /\ <<x>> \in Activations /\ <<x>>[1] = x
  BY DEF Buffer, Activations
<1>2. /\ stack[b] \in Seq(Nat) /\ live[b] \in Seq(Activations)
      /\ stack'[b] = Append(stack[b], p) /\ live'[b] = Append(live[b], <<x>>)
  BY DEF TypeOK, EnterEntry, pushAllocStack
<1> HIDE DEF x
<1>3. m \in Nat /\ Len(stack[b]) = m /\ \A i \in 1 .. m : stack[b][i] = live[b][i][1].ptr
  BY <1>2 DEF ExactFor
<1>4. /\ Len(live'[b]) = m + 1 /\ live'[b][m + 1] = <<x>>
      /\ \A i \in 1 .. m : live'[b][i] = live[b][i]
  BY <1>1, <1>2, AppendFacts
<1>5. /\ Len(stack'[b]) = m + 1 /\ stack'[b][m + 1] = p
      /\ \A i \in 1 .. m : stack'[b][i] = stack[b][i]
  BY <1>1, <1>2, <1>3, AppendFacts
<1> HIDE DEF m
<1>6. ASSUME NEW i \in 1 .. m + 1 PROVE stack'[b][i] = live'[b][i][1].ptr
  <2>1. CASE i \in 1 .. m
    BY <1>3, <1>4, <1>5, <2>1
  <2>2. CASE i = m + 1
    BY <1>1, <1>4, <1>5, <2>2
  <2> QED
    BY <1>3, <2>1, <2>2
<1> QED
  BY <1>4, <1>5, <1>6 DEF ExactFor

LEMMA LeaveKeepsExact ==
    ASSUME TypeOK, NEW b \in EntryAlloca \cap SingleReturn, NEW atFirst \in BOOLEAN,
           Leave(b, atFirst), ExactFor(b, stack, live)
    PROVE  ExactFor(b, stack', live')
<1> USE RuntimeAssumption
<1>1. /\ b \in Buffers /\ stack[b] \in Seq(Nat) /\ live[b] \in Seq(Activations)
      /\ live[b] # <<>> /\ live'[b] = DropLast(live[b])
  BY DEF TypeOK, Leave
<1>2. Len(live[b]) \in Nat /\ Len(live[b]) > 0 /\ Len(stack[b]) = Len(live[b])
  BY <1>1, EmptySeq DEF ExactFor
<1>3. stack[b] # <<>>
  BY <1>2
<1>4. stack'[b] = DropLast(stack[b])
  BY <1>1, <1>3 DEF Leave, popAllocStack, TypeOK
<1>5. /\ Len(live'[b]) = Len(live[b]) - 1
      /\ \A i \in 1 .. Len(live[b]) - 1 : live'[b][i] = live[b][i]
  BY <1>1, DropLastFacts
<1>6. /\ Len(stack'[b]) = Len(live[b]) - 1
      /\ \A i \in 1 .. Len(live[b]) - 1 : stack'[b][i] = stack[b][i]
  BY <1>1, <1>2, <1>3, <1>4, DropLastFacts
<1>7. \A i \in 1 .. Len(live[b]) - 1 : i \in 1 .. Len(live[b])
  BY <1>2
<1> QED
  BY <1>5, <1>6, <1>7 DEF ExactFor

LEMMA StaleStep == StaleInv /\ [Next]_vars => StaleInv'
<1> SUFFICES ASSUME StaleInv, [Next]_vars PROVE StaleInv'
  OBVIOUS
<1> USE RuntimeAssumption
<1>0. TypeOK /\ TypeOK'
  BY TypeStep DEF StaleInv
<1> DEFINE B == EntryAlloca \cap SingleReturn
           Kept(b) == ExactFor(b, stack', live') /\ ExactFor(b, saved'.stack, saved'.live)
<1>1. SUFFICES ASSUME NEW b \in B PROVE Kept(b)
  BY <1>0 DEF StaleInv, ExactFor
<1>2. ExactFor(b, stack, live) /\ ExactFor(b, saved.stack, saved.live) /\ b \in Buffers
  BY DEF StaleInv
<1>3. ExactFor(b, InitialMemory.stack, InitialMemory.live)
  BY <1>2 DEF InitialMemory, ExactFor
<1>4. ASSUME stack'[b] = stack[b], live'[b] = live[b], saved' = saved PROVE Kept(b)
  BY <1>2, <1>4 DEF ExactFor
<1>5. ASSUME NEW c \in Buffers, NEW p \in Addrs[c], NEW n \in Sizes[c], EnterEntry(c, p, n)
      PROVE  Kept(b)
  <2>1. CASE c = b
    BY <1>0, <1>2, <1>5, <2>1, EnterKeepsExact DEF EnterEntry, hardware
  <2>2. CASE c # b
    BY <1>0, <1>4, <1>5, <2>2 DEF EnterEntry, pushAllocStack, hardware, TypeOK
  <2> QED
    BY <2>1, <2>2
<1>6. ASSUME NEW c \in Buffers, NEW p \in Addrs[c], NEW n \in Sizes[c], AllocaLater(c, p, n)
      PROVE  Kept(b)
  BY <1>0, <1>4, <1>6 DEF AllocaLater, pushAllocStack, hardware, TypeOK
<1>7. ASSUME NEW c \in Buffers, EnterLater(c) PROVE Kept(b)
  BY <1>0, <1>4, <1>7 DEF EnterLater, registry, hardware, TypeOK
<1>8. ASSUME NEW c \in Buffers, NEW atFirst \in BOOLEAN, Leave(c, atFirst) PROVE Kept(b)
  <2>1. CASE c = b
    BY <1>0, <1>2, <1>8, <2>1, LeaveKeepsExact DEF Leave, hardware
  <2>2. CASE c # b
    BY <1>0, <1>4, <1>8, <2>2 DEF Leave, popAllocStack, hardware, TypeOK
  <2> QED
    BY <2>1, <2>2
<1>9. UNCHANGED <<stack, size, live, saved>> => Kept(b)
  BY <1>4
<1>10. CASE XBeginStarted
  <2>1. stack' = stack /\ live' = live /\ (saved' = saved \/ saved' = Memory)
    BY <1>10 DEF XBeginStarted, program, registry
  <2>2. Memory.stack = stack /\ Memory.live = live
    BY DEF Memory
  <2> QED
    BY <1>2, <2>1, <2>2
<1>11. CASE Rollback
  BY <1>2, <1>3, <1>11 DEF Rollback, Restore, ExactFor
<1>12. CASE endTransaction
  BY <1>2, <1>3, <1>12 DEF endTransaction, program, registry
<1>13. startTransaction \/ XBeginRefused \/ Retry => UNCHANGED <<stack, size, live, saved>>
  BY DEF startTransaction, XBeginRefused, Retry, program, registry, hardware
<1>14. ASSUME NEW h \in Heap, Malloc(h) \/ Free(h)
       PROVE  UNCHANGED <<stack, size, live, saved>>
  BY <1>14 DEF Malloc, Free, hardware
<1>15. UNCHANGED vars => UNCHANGED <<stack, size, live, saved>>
  BY DEF vars, program, registry, hardware
<1> HIDE DEF Kept
<1>16. CASE ProgramStep
  BY <1>5, <1>6, <1>7, <1>8, <1>9, <1>14, <1>16, PreloadFrame DEF ProgramStep
<1>17. CASE TransactionStep
  BY <1>9, <1>10, <1>11, <1>12, <1>13, <1>17 DEF TransactionStep
<1> QED
  BY <1>0, <1>9, <1>15, <1>16, <1>17, NextSplit

\* No entry of allocMap outlives the activation it was pushed for, in the
\* functions with one return instruction, aborts and nesting included.
THEOREM RegistryExact == Spec => []NoStaleEntry
<1>1. Init => StaleInv
  <2>1. Init => TypeOK
    BY RuntimeAssumption, InitialMemoryType DEF Init, TypeOK, Activations
  <2> QED
    BY <2>1, RuntimeAssumption DEF Init, StaleInv, ExactFor, InitialMemory
<1>2. StaleInv => NoStaleEntry
  BY DEF StaleInv, ExactFor, NoStaleEntry
<1> QED
  BY <1>1, <1>2, StaleStep, PTL DEF Spec

-----------------------------------------------------------------------------
(* Preloading.                                                               *)

\* The loop reads an address in every line of the region, wherever the region
\* starts in its first line and ends in its last one.
LEMMA LoopTouchesAllLines ==
    \A p, n \in Nat : LinesOf(p, n) \subseteq {LineOf(u) : u \in Touched(p, n)}
<1> SUFFICES ASSUME NEW p \in Nat, NEW n \in Nat, NEW a \in p .. (p + n - 1)
             PROVE  LineOf(a) \in {LineOf(u) : u \in Touched(p, n)}
  BY DEF LinesOf
<1> DEFINE u == LineOf(a)
<1>1. u \in LineOf(p) .. (p + n - 1) /\ (u - LineOf(p)) % 64 = 0 /\ LineOf(u) = LineOf(a)
  BY SMT DEF LineOf, lineBytes
<1>2. u \in Touched(p, n)
  BY <1>1 DEF Touched, lineBytes
<1> QED
  BY <1>1, <1>2

PreloadInv ==
    /\ RegistryInv
    /\ PreloadCovers
    /\ depth = 0 => promised = {}

\* Preloading the entries of b covers its live buffers, if they have one size.
LEMMA EntriesCover ==
    ASSUME RegistryInv, NEW b \in EntryAlloca, FixedSize(b), NEW x \in LiveBuffers(b)
    PROVE  \E k \in DOMAIN stack[b] : stack[b][k] = x.ptr /\ size[b] = x.size
<1> USE RuntimeAssumption
<1>1. PICK i \in DOMAIN live[b] : x \in {live[b][i][j] : j \in DOMAIN live[b][i]}
  BY DEF LiveBuffers
<1>2. PICK j \in DOMAIN live[b][i] : x = live[b][i][j]
  BY <1>1
<1>3. /\ live[b] \in Seq(Activations) /\ stack[b] \in Seq(Nat)
      /\ GoodFor(b, stack, size, live)
  BY DEF RegistryInv, TypeOK
<1>4. i \in 1 .. Len(live[b]) /\ live[b][i] \in Seq(Buffer) /\ Len(live[b][i]) = 1
  BY <1>1, <1>3, LenProperties, ElementOfSeq DEF GoodFor, Activations
<1>5. x = live[b][i][1]
  BY <1>2, <1>4, LenProperties
<1>6. PICK f \in [1 .. Len(live[b]) -> 1 .. Len(stack[b])] :
        \A k \in 1 .. Len(live[b]) : stack[b][f[k]] = live[b][k][1].ptr
  BY <1>3 DEF GoodFor, Covers
<1>7. f[i] \in DOMAIN stack[b] /\ stack[b] # <<>> /\ stack[b][f[i]] = x.ptr
  <2>1. f[i] \in 1 .. Len(stack[b])
    BY <1>4, <1>6
  <2> QED
    BY <1>3, <1>4, <1>5, <1>6, <2>1, LenProperties
<1>8. size[b] \in Sizes[b] /\ x.size \in Sizes[b]
  BY <1>3, <1>4, <1>5, <1>7 DEF GoodFor
<1>9. size[b] = x.size
  BY <1>8 DEF FixedSize
<1> QED
  BY <1>7, <1>9

\* A step that adds to the read set the lines of what it promises.
LEMMA TouchKeepsCovered ==
    ASSUME NEW as, NEW B, PreloadInv, Touch(as, B),
           \A x \in B : x.kind \in {"fixed", "code"} =>
                          LinesOf(x.ptr, x.size) \subseteq {LineOf(a) : a \in as}
    PROVE  PreloadCovers' /\ (depth' = 0 => promised' = {})
<1>0. depth \in Nat /\ depth' = depth
  BY RuntimeAssumption DEF PreloadInv, RegistryInv, TypeOK, Touch
<1> DEFINE lines == {LineOf(a) : a \in as}
<1>1. CASE depth = 0
  <2>1. promised = {} /\ promised' = promised
    BY <1>1 DEF PreloadInv, Touch
  <2> QED
    BY <2>1 DEF PreloadCovers, Covered
<1>2. CASE depth # 0
  <2>1. readSet' = readSet \cup lines /\ promised' = promised \cup B
    <3>1. depth > 0
      BY <1>0, <1>2
    <3> QED
      BY <3>1, Zenon DEF Touch
  <2>2. \A x \in promised : x.kind \in {"fixed", "code"} => LinesOf(x.ptr, x.size) \subseteq readSet
    BY DEF PreloadInv, PreloadCovers, Covered
  <2> HIDE DEF lines
  <2>3. \A x \in B : x.kind \in {"fixed", "code"} => LinesOf(x.ptr, x.size) \subseteq lines
    BY DEF lines
  <2>4. PreloadCovers'
    BY <2>1, <2>2, <2>3 DEF PreloadCovers, Covered
  <2> QED
    BY <1>0, <1>2, <2>4
<1> QED
  BY <1>1, <1>2

LEMMA PreloadStep == PreloadInv /\ [Next]_vars => PreloadInv'
<1> SUFFICES ASSUME PreloadInv, [Next]_vars
             PROVE  PreloadCovers' /\ (depth' = 0 => promised' = {})
  BY RegistryStep DEF PreloadInv
<1> USE RuntimeAssumption
<1>0. RegistryInv /\ TypeOK
  BY DEF PreloadInv, RegistryInv
<1>1. ASSUME NEW b \in Buffers, iterateAllocStack(b)
      PROVE  PreloadCovers' /\ (depth' = 0 => promised' = {})
  <2> DEFINE as == UNION {Touched(stack[b][i], size[b]) : i \in DOMAIN stack[b]}
             B == {[kind |-> StackKind(b), ptr |-> x.ptr, size |-> x.size] :
                     x \in LiveBuffers(b)}
  <2>1. ASSUME NEW y \in B, y.kind \in {"fixed", "code"}
        PROVE  LinesOf(y.ptr, y.size) \subseteq {LineOf(a) : a \in as}
    <3>1. PICK x \in LiveBuffers(b) :
            y = [kind |-> StackKind(b), ptr |-> x.ptr, size |-> x.size]
      OBVIOUS
    <3>2. b \in EntryAlloca /\ FixedSize(b)
      BY <2>1, <3>1 DEF StackKind
    <3>3. PICK k \in DOMAIN stack[b] : stack[b][k] = x.ptr /\ size[b] = x.size
      BY <1>0, <3>2, EntriesCover
    <3>4. x \in Buffer
      BY <1>0, LiveBuffersType
    <3>5. y.ptr = x.ptr /\ y.size = x.size /\ y.ptr \in Nat /\ y.size \in Nat
      BY <3>1, <3>4 DEF Buffer
    <3>6. Touched(y.ptr, y.size) \subseteq as
      BY <3>3, <3>5
    <3>7. LinesOf(y.ptr, y.size) \subseteq {LineOf(u) : u \in Touched(y.ptr, y.size)}
      BY <3>5, LoopTouchesAllLines
    <3> HIDE DEF as
    <3> QED
      BY <3>6, <3>7
  <2>2. Touch(as, B)
    BY <1>1 DEF iterateAllocStack
  <2> HIDE DEF as, B
  <2> QED
    BY <2>1, <2>2, TouchKeepsCovered
<1>2. ASSUME NEW h \in Heap, iterateMallocSet(h)
      PROVE  PreloadCovers' /\ (depth' = 0 => promised' = {})
  <2> DEFINE as == UNION {Touched(HeapAddr[h], HeapSize[h]) : i \in 1 .. mallocLen[h]}
             B == {[kind |-> "heap", ptr |-> HeapAddr[k], size |-> HeapSize[k]] :
                     k \in heapLive \cap {h}}
  <2>1. \A y \in B : y.kind = "heap"
    OBVIOUS
  <2>2. Touch(as, B)
    BY <1>2 DEF iterateMallocSet
  <2> HIDE DEF as, B
  <2> QED
    BY <2>1, <2>2, TouchKeepsCovered
<1>3. ASSUME NEW f \in Funcs, preloadInstAddr(f)
      PROVE  PreloadCovers' /\ (depth' = 0 => promised' = {})
  <2> DEFINE as == Touched(Region[f][1], Region[f][2])
             B == {[kind |-> "code", ptr |-> Region[f][1], size |-> Region[f][2]]}
  <2>1. Region[f][1] \in Nat /\ Region[f][2] \in Nat
    OBVIOUS
  <2>2. \A y \in B : LinesOf(y.ptr, y.size) \subseteq {LineOf(a) : a \in as}
    BY <2>1, LoopTouchesAllLines
  <2>3. Touch(as, B) \/ Touch({}, {})
    BY <1>3 DEF preloadInstAddr
  <2> HIDE DEF as, B
  <2>4. CASE Touch(as, B)
    BY <2>2, <2>4, TouchKeepsCovered
  <2>5. CASE Touch({}, {})
    BY <2>5, TouchKeepsCovered
  <2> QED
    BY <2>3, <2>4, <2>5
<1>4. CASE UNCHANGED <<depth, readSet, promised>>
  BY <1>4 DEF PreloadInv, PreloadCovers, Covered
<1>5. CASE depth' = 0 /\ promised' = {}
  BY <1>5 DEF PreloadCovers, Covered
<1>6. ASSUME XBeginStarted PROVE PreloadCovers' /\ (depth' = 0 => promised' = {})
  <2>1. depth \in Nat /\ depth' # 0 /\ promised' = promised
    BY <1>0, <1>6 DEF XBeginStarted, TypeOK
  <2>2. CASE depth = 0
    BY <1>6, <2>1, <2>2 DEF XBeginStarted, PreloadInv, PreloadCovers, Covered
  <2>3. CASE depth # 0
    BY <1>6, <2>1, <2>3 DEF XBeginStarted, PreloadInv, PreloadCovers, Covered
  <2> QED
    BY <2>2, <2>3
<1>7. ASSUME endTransaction PROVE PreloadCovers' /\ (depth' = 0 => promised' = {})
  <2>1. CASE depth = 1
    BY <1>7, <2>1 DEF endTransaction, PreloadCovers, Covered
  <2>2. CASE depth # 1
    <3>1. readSet' = readSet /\ promised' = promised /\ depth' \in {depth, depth - 1}
      BY <1>7, <2>2 DEF endTransaction
    <3>2. depth' = 0 => depth = 0
      BY <1>0, <2>2, <3>1 DEF TypeOK
    <3> QED
      BY <3>1, <3>2 DEF PreloadInv, PreloadCovers, Covered
  <2> QED
    BY <2>1, <2>2
<1>8. startTransaction \/ XBeginRefused \/ Retry => UNCHANGED <<depth, readSet, promised>>
  BY DEF startTransaction, XBeginRefused, Retry, hardware
<1>9. Rollback => depth' = 0 /\ promised' = {}
  BY DEF Rollback
<1>10. ASSUME NEW b \in Buffers, NEW p \in Addrs[b], NEW n \in Sizes[b],
              EnterEntry(b, p, n) \/ AllocaLater(b, p, n)
       PROVE  UNCHANGED <<depth, readSet, promised>>
  BY <1>10 DEF EnterEntry, AllocaLater, hardware
<1>11. ASSUME NEW b \in Buffers, EnterLater(b) \/ \E atFirst \in BOOLEAN : Leave(b, atFirst)
       PROVE  UNCHANGED <<depth, readSet, promised>>
  BY <1>11 DEF EnterLater, Leave, hardware
<1>12. ASSUME NEW h \in Heap, Malloc(h) \/ Free(h)
       PROVE  UNCHANGED <<depth, readSet, promised>>
  BY <1>12 DEF Malloc, Free, hardware
<1>13. UNCHANGED vars => UNCHANGED <<depth, readSet, promised>>
  BY DEF vars, hardware
<1>14. CASE ProgramStep
  BY <1>1, <1>2, <1>3, <1>4, <1>10, <1>11, <1>12, <1>14 DEF ProgramStep
<1>15. CASE TransactionStep
  BY <1>4, <1>5, <1>6, <1>7, <1>8, <1>9, <1>15 DEF TransactionStep
<1> QED
  BY <1>0, <1>4, <1>13, <1>14, <1>15, NextSplit

\* Every line of what was preloaded in the open transaction is in its read set:
\* the live stack buffers of a fixed size and the code of the listed functions.
THEOREM PreloadingCovers == Spec => []PreloadCovers
<1>1. Init => PreloadInv
  BY RegistryInit DEF Init, PreloadInv, PreloadCovers, Covered
<1>2. PreloadInv => PreloadCovers
  BY DEF PreloadInv
<1> QED
  BY <1>1, <1>2, PreloadStep, PTL DEF Spec
=============================================================================
