---------------------------- MODULE CapeRuntime ----------------------------
(***************************************************************************)
(* The run-time support that an instrumented program is linked with        *)
(* (samples/common.h): the retry loop around the hardware transaction, the *)
(* registry of live stack buffers that the preloading code walks, and the  *)
(* loops that touch every cache line of a sensitive region.                *)
(*                                                                         *)
(* One thread runs the instrumented program.  The hardware (HTM) is        *)
(* external: it may refuse to begin or abort a running transaction at any  *)
(* moment, and an abort restores all the memory written since the          *)
(* outermost _xbegin.                                                      *)
(***************************************************************************)
EXTENDS Integers, Sequences

CONSTANTS
    Buffers,      \* buffer ids given to instrumented allocas, one function each
    EntryAlloca,  \* those whose alloca is in the entry block of its function
    SingleReturn, \* those whose function has one return instruction
    Sizes,        \* Sizes[b]: the sizes in bytes an alloca of b may ask for
    Addrs,        \* Addrs[b]: where an alloca of b may be placed
    Heap,         \* buffer ids given to instrumented malloc calls
    HeapAddr,     \* HeapAddr[h]: where malloc puts the block of h
    HeapSize,     \* HeapSize[h]: its size
    Funcs,        \* function names known to the instrumentation
    Region,       \* Region[f]: <<start, length>> of the code of f
    MAX_RETRIES,  \* the constant of common.h
    MaxNest,      \* nesting depth the hardware supports
    MaxCalls,     \* bound: live activations
    MaxStack,     \* bound: length of a registered-buffer stack
    MaxAttempts   \* bound: value of txAttempts at which no transaction starts

ASSUME RuntimeAssumption ==
    /\ EntryAlloca \subseteq Buffers /\ SingleReturn \subseteq Buffers
    /\ Sizes \in [Buffers -> SUBSET Nat]
    /\ Addrs \in [Buffers -> SUBSET Nat]
    /\ HeapAddr \in [Heap -> Nat] /\ HeapSize \in [Heap -> Nat]
    /\ Region \in [Funcs -> Nat \X Nat]
    /\ MAX_RETRIES \in Nat /\ MaxNest \in Nat \ {0}
    /\ MaxCalls \in Nat /\ MaxStack \in Nat /\ MaxAttempts \in Nat

VARIABLES
    calls,        \* the call stack: the buffer id of each live activation
    live,         \* live[b]: per live activation of b's function, its buffers
    stack,        \* allocMap[b].stack
    size,         \* allocMap[b].size
    heapLive,     \* heap buffers allocated and not freed
    mallocLen,    \* mallocMap[h].len
    funcMap,      \* the function regions read from the signature file
    region,       \* the globals start and length
    txAttempts,
    txCommitted,
    retries,      \* local variable of the running startTransaction
    control,      \* where the thread is, see below
    depth,        \* nesting depth of the hardware transaction
    saved,        \* what an abort restores
    readSet,      \* cache lines the open transaction has touched
    aborts,       \* history: transactions the hardware refused or aborted
    failures,     \* history: those since the outermost startTransaction
    promised      \* history: buffers live when they were preloaded in the open
                  \* transaction, with their kind

(***************************************************************************)
(* control = "run"    the program's own code                               *)
(*           "begin"  in startTransaction, about to execute _xbegin        *)
(*           "failed" _xbegin returned something else than _XBEGIN_STARTED *)
(*           "exited" startTransaction gave up and called exit             *)
(***************************************************************************)
program == <<calls, live, heapLive>>
registry == <<stack, size, mallocLen>>
code == <<funcMap, region>>
counters == <<txAttempts, txCommitted>>
hardware == <<depth, saved, readSet, aborts, failures, promised>>
vars == <<program, registry, code, counters, retries, control, hardware>>

-----------------------------------------------------------------------------
(* Cache lines are named by the address of their first byte.               *)

lineBytes == 64
LineOf(a) == a - (a % lineBytes)

\* Fault: the loop starts at p, not at the start of its line.
TouchedFromPointer(p, n) == {u \in p .. (p + n - 1) : (u - p) % lineBytes = 0}

\* The addresses a preloading loop reads: from the start of the line that holds
\* p, by steps of 64, below p + n.
Touched(p, n) == {u \in LineOf(p) .. (p + n - 1) : (u - LineOf(p)) % lineBytes = 0}

\* The lines that hold a byte of the n bytes at p.
LinesOf(p, n) == {LineOf(a) : a \in p .. (p + n - 1)}

-----------------------------------------------------------------------------
Buffer == [ptr : Nat, size : Nat]

\* The memory an abort restores, and its value when no transaction is open.
Memory == [calls |-> calls, live |-> live, heapLive |-> heapLive,
           stack |-> stack, size |-> size, mallocLen |-> mallocLen,
           region |-> region,
           txAttempts |-> txAttempts, txCommitted |-> txCommitted,
           retries |-> retries]

InitialMemory ==
    [calls |-> <<>>, live |-> [b \in Buffers |-> <<>>], heapLive |-> {},
     stack |-> [b \in Buffers |-> <<>>], size |-> [b \in Buffers |-> 0],
     mallocLen |-> [h \in Heap |-> 0], region |-> <<0, 0>>,
     txAttempts |-> 0, txCommitted |-> 0, retries |-> 0]

Restore(m) ==
    /\ calls' = m.calls /\ live' = m.live /\ heapLive' = m.heapLive
    /\ stack' = m.stack /\ size' = m.size /\ mallocLen' = m.mallocLen
    /\ region' = m.region
    /\ txAttempts' = m.txAttempts /\ txCommitted' = m.txCommitted
    /\ retries' = m.retries

Init ==
    /\ calls = <<>>
    /\ live = [b \in Buffers |-> <<>>]
    /\ heapLive = {}
    /\ stack = [b \in Buffers |-> <<>>]
    /\ size = [b \in Buffers |-> 0]
    /\ mallocLen = [h \in Heap |-> 0]
    /\ funcMap \in SUBSET Funcs
    /\ region = <<0, 0>>
    /\ txAttempts = 0 /\ txCommitted = 0 /\ retries = 0
    /\ control = "run"
    /\ depth = 0 /\ saved = InitialMemory /\ readSet = {}
    /\ aborts = 0 /\ failures = 0 /\ promised = {}

-----------------------------------------------------------------------------
(* The registry of stack buffers.  The compiler pass inserts a call of      *)
(* pushAllocStack behind the alloca and a call of popAllocStack before the  *)
(* FIRST return instruction of the function, and nowhere else.              *)

LiveBuffers(b) == UNION {{live[b][i][j] : j \in DOMAIN live[b][i]} : i \in DOMAIN live[b]}

InUse == {x.ptr : x \in UNION {LiveBuffers(b) : b \in Buffers}}

DropLast(s) == SubSeq(s, 1, Len(s) - 1)

Running == control = "run"

\* pushAllocStack: the size of every entry is the one pushed last.
pushAllocStack(b, p, n) ==
    /\ size' = [size EXCEPT ![b] = n]
    /\ stack' = [stack EXCEPT ![b] = Append(@, p)]

\* A call of the function whose alloca, in the entry block, is buffer b.
EnterEntry(b, p, n) ==
    /\ Running /\ b \in EntryAlloca
    /\ Len(calls) < MaxCalls /\ Len(stack[b]) < MaxStack
    /\ p \notin InUse
    /\ calls' = Append(calls, b)
    /\ live' = [live EXCEPT ![b] = Append(@, <<[ptr |-> p, size |-> n]>>)]
    /\ pushAllocStack(b, p, n)
    /\ UNCHANGED <<heapLive, mallocLen, code, counters, retries, control, hardware>>

\* A call of a function whose alloca is in a later block ...
EnterLater(b) ==
    /\ Running /\ b \notin EntryAlloca
    /\ Len(calls) < MaxCalls
    /\ calls' = Append(calls, b)
    /\ live' = [live EXCEPT ![b] = Append(@, <<>>)]
    /\ UNCHANGED <<heapLive, registry, code, counters, retries, control, hardware>>

\* ... which the activation may reach never, once or (in a loop) many times.
AllocaLater(b, p, n) ==
    /\ Running /\ b \notin EntryAlloca
    /\ calls # <<>> /\ calls[Len(calls)] = b /\ live[b] # <<>>
    /\ Len(stack[b]) < MaxStack
    /\ p \notin InUse
    /\ live' = [live EXCEPT ![b][Len(live[b])] = Append(@, [ptr |-> p, size |-> n])]
    /\ pushAllocStack(b, p, n)
    /\ UNCHANGED <<calls, heapLive, mallocLen, code, counters, retries, control, hardware>>

\* Fault: the last entry is never removed.
PopUnlessLast(b) ==
    stack' = IF Len(stack[b]) > 1 THEN [stack EXCEPT ![b] = DropLast(@)] ELSE stack

\* Fault: the oldest entry is removed.
PopOldest(b) ==
    stack' = IF stack[b] # <<>> THEN [stack EXCEPT ![b] = Tail(@)] ELSE stack

popAllocStack(b) ==
    stack' = IF stack[b] # <<>> THEN [stack EXCEPT ![b] = DropLast(@)] ELSE stack

\* The innermost activation returns, through the first return of its function
\* (atFirst) or through another one.
Leave(b, atFirst) ==
    /\ Running
    /\ calls # <<>> /\ calls[Len(calls)] = b /\ live[b] # <<>>
    /\ b \in SingleReturn => atFirst
    /\ calls' = DropLast(calls)
    /\ live' = [live EXCEPT ![b] = DropLast(@)]
    /\ IF atFirst THEN popAllocStack(b) ELSE UNCHANGED stack
    /\ UNCHANGED <<heapLive, size, mallocLen, code, counters, retries, control, hardware>>

-----------------------------------------------------------------------------
(* Heap buffers: the bodies of insertMallocSet and eraseMallocSet are        *)
(* commented out, so that neither changes mallocMap.                         *)

insertMallocSet(h) == UNCHANGED mallocLen
eraseMallocSet(h) == UNCHANGED mallocLen

Malloc(h) ==
    /\ Running /\ h \notin heapLive
    /\ heapLive' = heapLive \cup {h}
    /\ insertMallocSet(h)
    /\ UNCHANGED <<calls, live, stack, size, code, counters, retries, control, hardware>>

Free(h) ==
    /\ Running /\ h \in heapLive
    /\ heapLive' = heapLive \ {h}
    /\ eraseMallocSet(h)
    /\ UNCHANGED <<calls, live, stack, size, code, counters, retries, control, hardware>>

-----------------------------------------------------------------------------
(* Preloading.  Only what an open transaction touches enters its read set.   *)

FixedSize(b) == \A m, n \in Sizes[b] : m = n

\* The kinds of buffers that are told apart below.
StackKind(b) == IF b \in EntryAlloca /\ FixedSize(b) THEN "fixed" ELSE "variable"

Touch(as, buffers) ==
    /\ Running
    /\ readSet' = IF depth > 0 THEN readSet \cup {LineOf(a) : a \in as} ELSE readSet
    /\ promised' = IF depth > 0 THEN promised \cup buffers ELSE promised
    /\ UNCHANGED <<program, registry, funcMap, counters, retries, control>>
    /\ UNCHANGED <<depth, saved, aborts, failures>>

iterateAllocStack(b) ==
    /\ Touch(UNION {Touched(stack[b][i], size[b]) : i \in DOMAIN stack[b]},
             {[kind |-> StackKind(b), ptr |-> x.ptr, size |-> x.size] :
                 x \in LiveBuffers(b)})
    /\ UNCHANGED region

iterateMallocSet(h) ==
    /\ Touch(UNION {Touched(HeapAddr[h], HeapSize[h]) : i \in 1 .. mallocLen[h]},
             {[kind |-> "heap", ptr |-> HeapAddr[k], size |-> HeapSize[k]] :
                 k \in heapLive \cap {h}})
    /\ UNCHANGED region

\* A name that the signature file does not list is skipped.
preloadInstAddr(f) ==
    IF f \in funcMap
    THEN /\ region' = Region[f]
         /\ Touch(Touched(Region[f][1], Region[f][2]),
                  {[kind |-> "code", ptr |-> Region[f][1], size |-> Region[f][2]]})
    ELSE Touch({}, {}) /\ UNCHANGED region

-----------------------------------------------------------------------------
(* Transactions.                                                             *)

startTransaction ==
    /\ Running /\ txAttempts < MaxAttempts
    /\ retries' = 0
    /\ txAttempts' = txAttempts + 1
    /\ control' = "begin"
    /\ failures' = IF depth = 0 THEN 0 ELSE failures
    /\ UNCHANGED <<program, registry, code, txCommitted, depth, saved, readSet, aborts, promised>>

\* _xbegin returns _XBEGIN_STARTED; a nested one only deepens the transaction.
XBeginStarted ==
    /\ control = "begin" /\ depth < MaxNest
    /\ control' = "run"
    /\ depth' = depth + 1
    /\ IF depth = 0 THEN saved' = Memory /\ readSet' = {}
                    ELSE UNCHANGED <<saved, readSet>>
    /\ UNCHANGED <<program, registry, code, counters, retries, aborts, failures>>
    /\ UNCHANGED promised

\* _xbegin outside a transaction returns an error status.
XBeginRefused ==
    /\ control = "begin" /\ depth = 0
    /\ control' = "failed"
    /\ aborts' = aborts + 1 /\ failures' = failures + 1
    /\ UNCHANGED <<program, registry, code, counters, retries, depth, saved, readSet, promised>>

\* The outermost _xbegin returns once more, with an error status, and memory
\* and the retry count are what they were when it was executed.
Rollback ==
    /\ Restore(saved)
    /\ control' = "failed"
    /\ depth' = 0 /\ saved' = InitialMemory /\ readSet' = {} /\ promised' = {}
    /\ aborts' = aborts + 1 /\ failures' = failures + 1
    /\ UNCHANGED funcMap

\* A conflict, an interrupt or an evicted line of the read set, at any moment.
Abort == control \in {"run", "begin"} /\ depth > 0 /\ Rollback

XBeginTooDeep == control = "begin" /\ depth = MaxNest /\ Rollback

\* Fault: one attempt too many.
RetryOneMore ==
    /\ control = "failed"
    /\ txAttempts' = txAttempts + 1
    /\ retries' = retries + 1
    /\ control' = IF retries > MAX_RETRIES THEN "exited" ELSE "begin"
    /\ UNCHANGED <<program, registry, code, txCommitted, hardware>>

\* Fault: the last failure is waited out.
RetryWithoutExit ==
    /\ control = "failed" /\ retries < MAX_RETRIES
    /\ txAttempts' = txAttempts + 1
    /\ retries' = retries + 1
    /\ control' = "begin"
    /\ UNCHANGED <<program, registry, code, txCommitted, hardware>>

\* The body of the retry loop.
Retry ==
    /\ control = "failed"
    /\ txAttempts' = txAttempts + 1
    /\ retries' = retries + 1
    /\ control' = IF retries >= MAX_RETRIES THEN "exited" ELSE "begin"
    /\ UNCHANGED <<program, registry, code, txCommitted, hardware>>

\* Fault: _xend is counted without looking at _xtest.
CountAnyEnd ==
    /\ Running
    /\ txCommitted' = txCommitted + 1
    /\ IF depth > 0
       THEN /\ depth' = depth - 1
            /\ IF depth = 1
               THEN saved' = InitialMemory /\ readSet' = {} /\ promised' = {}
               ELSE UNCHANGED <<saved, readSet, promised>>
       ELSE UNCHANGED <<depth, saved, readSet, promised>>
    /\ UNCHANGED <<program, registry, code, txAttempts, retries, control, aborts, failures>>

\* _xtest guards _xend: without an open transaction nothing happens.
endTransaction ==
    /\ Running
    /\ IF depth > 0
       THEN /\ depth' = depth - 1
            /\ txCommitted' = txCommitted + 1
            /\ IF depth = 1
               THEN saved' = InitialMemory /\ readSet' = {} /\ promised' = {}
               ELSE UNCHANGED <<saved, readSet, promised>>
       ELSE UNCHANGED <<depth, txCommitted, saved, readSet, promised>>
    /\ UNCHANGED <<program, registry, code, txAttempts, retries, control, aborts, failures>>

-----------------------------------------------------------------------------
XBegin == XBeginStarted \/ XBeginRefused \/ XBeginTooDeep

Next ==
    \/ \E b \in Buffers :
         \/ \E p \in Addrs[b], n \in Sizes[b] : EnterEntry(b, p, n) \/ AllocaLater(b, p, n)
         \/ EnterLater(b)
         \/ \E atFirst \in BOOLEAN : Leave(b, atFirst)
         \/ iterateAllocStack(b)
    \/ \E h \in Heap : Malloc(h) \/ Free(h) \/ iterateMallocSet(h)
    \/ \E f \in Funcs : preloadInstAddr(f)
    \/ startTransaction \/ XBegin \/ Abort \/ Retry \/ endTransaction

\* The thread is not descheduled for ever inside startTransaction.  Nothing is
\* assumed of the program's own code or of the aborts.
Fairness == WF_vars(XBegin) /\ WF_vars(Retry)

Spec == Init /\ [][Next]_vars /\ Fairness

-----------------------------------------------------------------------------
(* Properties.                                                               *)

Activations == Seq(Buffer)
Promise == [kind : {"fixed", "variable", "heap", "code"}, ptr : Nat, size : Nat]
MemoryType == [calls : Seq(Buffers), live : [Buffers -> Seq(Activations)],
               heapLive : SUBSET Heap,
               stack : [Buffers -> Seq(Nat)], size : [Buffers -> Nat],
               mallocLen : [Heap -> Nat], region : Nat \X Nat,
               txAttempts : Nat, txCommitted : Nat, retries : Nat]

\* The values of the variables of the runtime and of the program it serves.
TypeOK ==
    /\ calls \in Seq(Buffers) /\ live \in [Buffers -> Seq(Activations)]
    /\ heapLive \subseteq Heap
    /\ stack \in [Buffers -> Seq(Nat)] /\ size \in [Buffers -> Nat]
    /\ mallocLen \in [Heap -> Nat]
    /\ funcMap \subseteq Funcs /\ region \in Nat \X Nat
    /\ txAttempts \in Nat /\ txCommitted \in Nat /\ retries \in Nat
    /\ control \in {"run", "begin", "failed", "exited"}
    /\ depth \in 0 .. MaxNest
    /\ saved \in MemoryType
    /\ readSet \subseteq Nat
    /\ aborts \in Nat /\ failures \in Nat
    /\ promised \subseteq Promise

Increasing(f, n) == \A i, j \in 1 .. n : i < j => f[i] < f[j]

\* s holds the buffer of every activation of a, in the order of the calls.
Covers(s, a) ==
    \E f \in [1 .. Len(a) -> 1 .. Len(s)] :
        /\ Increasing(f, Len(a))
        /\ \A i \in 1 .. Len(a) : a[i] # <<>> /\ s[f[i]] = a[i][1].ptr

\* Whatever mixture of returns with and without a popAllocStack, of nested
\* activations and of aborts came before, every live buffer of a function whose
\* alloca is in its entry block is registered in allocMap: a stale entry may
\* stay behind, a live one is never popped in its place.
LiveCovered == \A b \in EntryAlloca : Covers(stack[b], live[b])

\* With one return instruction the registry is exact: no entry outlives its
\* activation, so allocMap does not grow with the number of calls.
NoStaleEntry ==
    \A b \in EntryAlloca \cap SingleReturn :
        /\ Len(stack[b]) = Len(live[b])
        /\ \A i \in 1 .. Len(live[b]) : stack[b][i] = live[b][i][1].ptr

\* From the moment it is preloaded in a transaction until that transaction ends,
\* every line of a live stack buffer of a fixed size, and of a function the
\* signature file lists, is in the read set, so that its eviction aborts the
\* transaction; whatever calls, returns, nested transactions and aborts precede.
Covered(kinds) ==
    \A x \in promised : x.kind \in kinds => LinesOf(x.ptr, x.size) \subseteq readSet
PreloadCovers == Covered({"fixed", "code"})

\* printCycles divides txAttempts by txCommitted.  The attempts counted are
\* those that committed, those that failed and those still open, although an
\* abort takes back the counts made inside the transaction.
InBegin == IF control \in {"begin", "exited"} THEN 1 ELSE 0
TxAccounting == txAttempts = txCommitted + aborts + depth + InBegin

\* startTransaction gives up at the failure number MAX_RETRIES + 1 and never
\* earlier, however deep the nesting in which the transactions aborted.
GivesUp ==
    /\ control = "exited" => failures = MAX_RETRIES + 1
    /\ control \in {"run", "begin"} => failures <= MAX_RETRIES
    /\ control = "failed" => failures <= MAX_RETRIES + 1

\* startTransaction comes to an end: it returns in a transaction or it exits.
StartEnds == (control \in {"begin", "failed"}) ~> (control \in {"run", "exited"})
=============================================================================
