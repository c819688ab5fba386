------------------------------ MODULE ThreadRun ------------------------------
(***************************************************************************)
(* The program runs, one instruction of one thread at a time: what its     *)
(* threads do to each other has to be among the dependences.               *)
(***************************************************************************)
EXTENDS ThreadRegions

CONSTANTS
    Thread, Main,   \* Main \in Thread
    MaxDepth,       \* the number of calls that a thread is in
    Size,           \* the number of bytes of an object
    None

ASSUME NoneAssumption == \A p \in Programs : None \notin DOMAIN p.inst

VARIABLES
    at,       \* at[t]: the next instruction, <<block, index>>, or one of the following
    frames,   \* frames[t]: where the calls that t is in go on
    forked,   \* forked[t]: the call that created t and the function t started with
    memory,   \* memory[o][k]: the last store to byte k of o, its thread and its first byte
    held,     \* held[t]: the locks that t holds and what it has executed since
    event     \* the last instruction and what was observable of it

run == <<at, frames, forked, memory, held, event>>

Object == {"x", "y"}
NotStarted == <<>>
Ended == <<"ended">>
Joined == <<"joined">>
Running(t) == Len(at[t]) = 2
NextInst(t) == program.code[at[t][1]][at[t][2]]
NodeOf(i) == InstFirst(i)

After(p) == IF p[2] < Len(program.code[p[1]]) THEN {<<p[1], p[2] + 1>>}
            ELSE {<<c, 1>> : c \in program.succ[p[1]]}
Start(f) == <<program.entry[f], 1>>

\* The control flow graph goes on in one way after instruction i.
Straight(i) ==
    /\ \A n \in {m \in DOMAIN graph : m[2] = i} : Cardinality(graph[n]) <= 1
    /\ program.inst[i].op = "ret" =>
          \A b \in Block : i \in Built(b) => Cardinality(graph[Exit(program.fun[b])]) <= 1

\* What every instruction i of t does; record holds what can be observed of it.
Executed(t, i, record) ==
    /\ event' = [x \in {"thread", "inst", "before", "last"} \cup DOMAIN record |->
                    CASE x = "thread" -> t
                      [] x = "inst" -> i
                      [] x = "before" -> event.last[t]
                      [] x = "last" -> [event.last EXCEPT ![t] = i]
                      [] OTHER -> record[x]]
    /\ held' = [held EXCEPT ![t] =
                  {[h EXCEPT !.insts = @ \cup {i}, !.straight = @ /\ Straight(i)] :
                      h \in {g \in held[t] : "closes" \notin DOMAIN record \/ g # record.closes}}
                  \cup (IF "opens" \in DOMAIN record THEN {record.opens} ELSE {})]

Goes(t, positions) == \E p \in positions : at' = [at EXCEPT ![t] = p]
GoesOn(t) == Goes(t, After(at[t])) /\ UNCHANGED frames

Targets(i) ==
    {a \in Object \X (0 .. Size - 1) :
        /\ \E p \in program.inst[i].pts : p.obj \in {a[1], "unknown"} /\ p.off \in {a[2], Top}
        /\ a[2] + program.inst[i].size <= Size}

RunAccess(t, i) ==
    /\ program.inst[i].op \in {"load", "store"}
    /\ \E a \in Targets(i) :
          IF program.inst[i].op = "load"
            THEN Executed(t, i, [reads |-> memory[a[1]][a[2]], byte |-> a[2]]) /\ UNCHANGED memory
            ELSE /\ memory' = [memory EXCEPT ![a[1]] = [k \in 0 .. Size - 1 |->
                        IF k \in a[2] .. a[2] + program.inst[i].size - 1
                          THEN [thread |-> t, inst |-> i, byte |-> a[2]] ELSE @[k]]]
                 /\ Executed(t, i, <<>>)
    /\ GoesOn(t)
    /\ UNCHANGED forked

RunOther(t, i) ==
    /\ program.inst[i].op = "other" \/ (IsCall(i) /\ (Functions(i) = {} \/ "extern" \in Functions(i)))
    /\ Executed(t, i, <<>>)
    /\ GoesOn(t)
    /\ UNCHANGED <<forked, memory>>

RunCall(t, i) ==
    /\ IsCall(i) /\ Len(frames[t]) < MaxDepth
    /\ \E g \in {f \in Functions(i) : Defined(f)} : \E p \in After(at[t]) :
          /\ at' = [at EXCEPT ![t] = Start(g)]
          /\ frames' = [frames EXCEPT ![t] = Append(@, p)]
    /\ Executed(t, i, <<>>)
    /\ UNCHANGED <<forked, memory>>

RunCreate(t, i) ==
    /\ IsCall(i) /\ "pthread_create" \in Functions(i)
    /\ \E u \in {v \in Thread : at[v] = NotStarted}, h \in Started(i), p \in After(at[t]) :
          /\ at' = [at EXCEPT ![t] = p, ![u] = Start(h)]
          /\ forked' = [forked EXCEPT ![u] = <<i, h>>]
    /\ Executed(t, i, [creates |-> TRUE])
    /\ UNCHANGED <<frames, memory>>

RunJoin(t, i) ==
    /\ IsCall(i) /\ "pthread_join" \in Functions(i)
    /\ \E u \in {v \in Thread : at[v] = Ended /\ forked[v] # None /\ forked[v][1] \in program.inst[i].forks} :
          /\ \E p \in After(at[t]) : at' = [at EXCEPT ![t] = p, ![u] = Joined]
          /\ Executed(t, i, [joins |-> forked[u]])
    /\ UNCHANGED <<frames, forked, memory>>

RunLock(t, i) ==
    /\ IsCall(i) /\ "pthread_mutex_lock" \in Functions(i)
    /\ \E m \in program.inst[i].mutex :
          /\ \A u \in Thread : \A h \in held[u] : h.mutex # m
          /\ Executed(t, i, [opens |-> [lock |-> i, mutex |-> m, insts |-> {},
                                        straight |-> Straight(i)]])
    /\ GoesOn(t)
    /\ UNCHANGED <<forked, memory>>

RunUnlock(t, i) ==
    /\ IsCall(i) /\ "pthread_mutex_unlock" \in Functions(i)
    /\ \E h \in held[t] : h.mutex \in program.inst[i].mutex /\ Executed(t, i, [closes |-> h])
    /\ GoesOn(t)
    /\ UNCHANGED <<forked, memory>>

\* The end of the main thread ends the others as well, unless it calls pthread_exit.
RunReturn(t, i) ==
    /\ program.inst[i].op = "ret"
    /\ at' = IF frames[t] # <<>> THEN [at EXCEPT ![t] = frames[t][Len(frames[t])]]
             ELSE IF t = Main THEN [u \in Thread |-> Ended] ELSE [at EXCEPT ![t] = Ended]
    /\ frames' = IF frames[t] = <<>> THEN frames
                 ELSE [frames EXCEPT ![t] = SubSeq(@, 1, Len(@) - 1)]
    /\ Executed(t, i, <<>>)
    /\ UNCHANGED <<forked, memory>>

RunExit(t, i) ==
    /\ IsCall(i) /\ "pthread_exit" \in Functions(i)
    /\ at' = [at EXCEPT ![t] = Ended]
    /\ Executed(t, i, <<>>)
    /\ UNCHANGED <<frames, forked, memory>>

RunInst(t, i) ==
    \/ RunAccess(t, i) \/ RunOther(t, i) \/ RunCall(t, i) \/ RunCreate(t, i) \/ RunJoin(t, i)
    \/ RunLock(t, i) \/ RunUnlock(t, i) \/ RunReturn(t, i) \/ RunExit(t, i)

RunStep ==
    /\ phase = "run"
    /\ \E t \in {u \in Thread : Running(u)} : RunInst(t, NextInst(t))
    /\ UNCHANGED vars

RunInit ==
    /\ Init
    /\ at = [t \in Thread |-> IF t = Main THEN Start("main") ELSE NotStarted]
    /\ frames = [t \in Thread |-> <<>>]
    /\ forked = [t \in Thread |-> None]
    /\ memory = [o \in Object |-> [k \in 0 .. Size - 1 |-> None]]
    /\ held = [t \in Thread |-> {}]
    /\ event = [thread |-> None, last |-> [t \in Thread |-> None]]

Build == Next /\ UNCHANGED run

Spec == RunInit /\ [][Build \/ RunStep]_<<vars, run>>

(***************************************************************************)
(* Properties.                                                             *)
(***************************************************************************)
TypeOK ==
    /\ program \in Programs
    /\ phase \in {"sections", "regions", "run"}
    /\ \A k \in DOMAIN stack : stack[k][2] \subseteq DOMAIN graph
    /\ OnStack \cup examined \cup unlocks \subseteq DOMAIN graph
    /\ DOMAIN section \subseteq Inst /\ DOMAIN region \subseteq DOMAIN graph
    /\ \A n \in DOMAIN region : region[region[n]] = region[n]

Happened == "inst" \in DOMAIN event
Observed(what) == what \in DOMAIN event

\* Every instruction that runs is in a region, and the region runs as a whole: unless a thread
\* has just executed an instruction of the same region, none is in front of the one that it
\* executes; none is in front of the one that comes after a thread is created, or in front
\* of a join (shouldCreateNewRegion, visit).
InRegion(founder) == {n \in DOMAIN region : region[n] = founder}
WithinRegion(n, founder) == (graph[n] \cap InRegion(founder)) \ {founder}
InFront(n, founder) ==
    n \in Reachable([m \in InRegion(founder) |-> WithinRegion(m, founder)],
                    UNION {WithinRegion(m, founder) :
                              m \in {k \in InRegion(founder) : ~ IsArtificial(k)}})
RegionsRunWhole ==
    Happened =>
        /\ NodeOf(event.inst) \in DOMAIN region
        /\ \/ event.before # None /\ region[NodeOf(event.before)] = region[NodeOf(event.inst)]
           \/ ~ InFront(NodeOf(event.inst), region[NodeOf(event.inst)])
        /\ Observed("creates") =>
              LET n == NodeOf(NextInst(event.thread)) IN ~ InFront(n, region[n])
        /\ Observed("joins") =>
              LET n == CallNode(event.inst, "pthread_join") IN ~ InFront(n, region[n])

\* A load that reads what another thread has stored depends on the store, if both begin at
\* the same byte (computeInterferenceDependentEdges).
InterferenceFound ==
    Observed("reads") =>
        (event.reads # None =>
            (event.reads.thread # event.thread /\ event.reads.byte = event.byte =>
                InterferenceDependent(event.inst, event.reads.inst)))

\* The fork of a thread depends on the join that waits for it, and the end of the thread
\* leads to the join, if pthread_create is called directly (matchForksAndJoins).
JoinsMatched ==
    Observed("joins") =>
        /\ CallNode(event.inst, "pthread_join") \in graph[Exit(event.joins[2])]
        /\ program.inst[event.joins[1]].direct => <<event.inst, event.joins[1]>> \in ForkJoinDependences

\* What a thread executes between a lock and the unlock depends on the lock, and the lock on
\* the unlock, if both are called directly, the way between them does not branch, and does
\* not pass the unlock before, for another mutex (VisitInSection ends there).
SectionsFound ==
    Observed("closes") =>
        (event.closes.straight /\ event.inst \notin event.closes.insts
           /\ program.inst[event.inst].direct /\ program.inst[event.closes.lock].direct =>
             /\ \A i \in event.closes.insts \ {event.closes.lock} : <<event.closes.lock, i>> \in CriticalSectionDependences
             /\ <<event.inst, event.closes.lock>> \in CriticalSectionDependences)

\* Both: whatever two threads do to wait for each other is found.
SynchronisationFound == JoinsMatched /\ SectionsFound
=============================================================================
