--------------------------- MODULE SegmentProofs ----------------------------
(***************************************************************************)
(* Proofs about Segment, for every finite set of processes, every number   *)
(* of generations of the segment, of crashes, of blocks and of retries.    *)
(***************************************************************************)
EXTENDS Segment, FiniteSetTheorems, TLAPS

-----------------------------------------------------------------------------
\* The inductive invariant.

\* What the members of a handle say where its process is.
HandleShape(p) ==
  /\ handle[p].open_flag <=> At(p) # NoSeg
  /\ handle[p].inited => At(p) # NoSeg /\ state[At(p)].inited
  /\ pc[p] \in OpenPcs => At(p) = NoSeg
  /\ pc[p] \in PostPcs \cup {"remove", "reset"} => At(p) # NoSeg /\ ~handle[p].inited
  /\ pc[p] \in {"deal", "take"} => handle[p].inited
  /\ pc[p] \in {"attach_new", "attach"} => local[p].shmid # NoSeg
  /\ pc[p] \in {"count", "remove"} => state[At(p)].inited
  /\ pc[p] = "take" => local[p].head < BlockNum

\* A segment that has not been made yet is untouched.
Untouched ==
  /\ key <= made
  /\ \A p \in Procs : At(p) <= made /\ local[p].shmid <= made
  /\ \A s \in Segs : s > made => ~state[s].inited /\ lost[s] = 0

\* p has created segment s and has not finished initialising it.
Builds(p, s) ==
  \/ pc[p] = "attach_new" /\ local[p].shmid = s
  \/ pc[p] \in {"construct", "count_self", "publish"} /\ At(p) = s

\* A segment has one builder, and nobody is counted on it but the builder itself.
OneBuilder ==
  \A p \in Procs, s \in Segs :
    Builds(p, s) =>
      /\ ~state[s].inited
      /\ lost[s] = 0
      /\ pc[p] = "count_self" => state[s].refs = 0
      /\ pc[p] = "publish" => state[s].refs = 1
      /\ \A q \in Procs : Builds(q, s) => q = p

\* Unless a handle came in behind the last one: the segment that is counted, or under
\* construction, or about to be removed, is the one that has the key.
Shared ==
  /\ \A s \in Segs : state[s].inited /\ state[s].refs # 0 => s = key
  /\ \A p \in Procs, s \in Segs : Builds(p, s) => s = key
  /\ \A p \in Procs : pc[p] = "remove" => At(p) = key /\ state[key].refs = 0
  /\ \A p, q \in Procs : pc[p] = "remove" /\ pc[q] = "remove" => p = q

SegInv ==
  /\ TypeOK
  /\ \A p \in Procs : HandleShape(p)
  /\ Untouched
  /\ OneBuilder
  /\ CountsHandles
  /\ reopened \/ Shared

-----------------------------------------------------------------------------
\* Type correctness.

USE DEF NoSeg, NoneDrawn

LEMMA InitInv == Init => SegInv
<1> SUFFICES ASSUME Init PROVE SegInv
  OBVIOUS
<1>1. TypeOK
  <2>1. Zeroed \in Memory /\ NewHandle \in Handle /\ NoLocal \in Local
    BY SegmentConstants DEF Memory, Zeroed, Local, NoLocal, Handle, NewHandle, Calls
  <2>2. "idle" \in Pcs /\ Zeroed.drawn <= BlockNum
    BY SegmentConstants DEF Pcs, Zeroed
  <2> QED
    <3>1. key \in {NoSeg} \cup Segs /\ made \in 0 .. MaxSegs /\ crashes \in 0 .. MaxCrashes
      BY SegmentConstants DEF Init
    <3>2. state \in [Segs -> Memory] /\ \A s \in Segs : state[s].drawn <= BlockNum
      BY <2>1, <2>2 DEF Init
    <3>3. /\ pc \in [Procs -> Pcs] /\ local \in [Procs -> Local]
          /\ handle \in [Procs -> Handle]
      BY <2>1, <2>2 DEF Init
    <3>4. lost \in [Segs -> Nat] /\ reopened \in BOOLEAN
      BY DEF Init
    <3> QED
      BY <3>1, <3>2, <3>3, <3>4 DEF TypeOK
<1>2. \A p \in Procs : HandleShape(p)
  BY DEF Init, HandleShape, At, NewHandle, OpenPcs, PostPcs
<1>3. Untouched
  BY SegmentConstants DEF Init, Untouched, At, NewHandle, NoLocal, Zeroed, Segs
<1>4. OneBuilder
  BY DEF Init, OneBuilder, Builds
<1>5. CountsHandles
  BY DEF Init, CountsHandles, Zeroed
<1>6. Shared
  BY DEF Init, Shared, Builds, Zeroed
<1> QED
  BY <1>1, <1>2, <1>3, <1>4, <1>5, <1>6 DEF SegInv

\* What the calls write into their locals and into the memory has the right type.
LEMMA LocalTypes ==
  /\ NoLocal \in Local
  /\ \A c \in Calls : [NoLocal EXCEPT !.call = c] \in Local
  /\ \A x \in Local :
       /\ \A s \in {NoSeg} \cup Segs : [x EXCEPT !.shmid = s] \in Local
       /\ x.tries < 2 => [x EXCEPT !.tries = @ + 1] \in Local
       /\ x.retry + 2 <= RetryLimit => [x EXCEPT !.retry = @ + 2] \in Local
       /\ [x EXCEPT !.retry = 0] \in Local
       /\ \A h \in 0 .. BlockNum : [x EXCEPT !.head = h] \in Local
<1>1. NoLocal \in Local /\ \A c \in Calls : [NoLocal EXCEPT !.call = c] \in Local
  BY SegmentConstants DEF NoLocal, Local, Calls
<1>2. ASSUME NEW x \in Local, NEW s \in {NoSeg} \cup Segs PROVE [x EXCEPT !.shmid = s] \in Local
  BY DEF Local
<1>3. ASSUME NEW x \in Local, x.tries < 2 PROVE [x EXCEPT !.tries = @ + 1] \in Local
  BY <1>3 DEF Local
<1>4. ASSUME NEW x \in Local, x.retry + 2 <= RetryLimit PROVE [x EXCEPT !.retry = @ + 2] \in Local
  BY <1>4, SegmentConstants DEF Local
<1>5. ASSUME NEW x \in Local PROVE [x EXCEPT !.retry = 0] \in Local
  BY SegmentConstants DEF Local
<1>6. ASSUME NEW x \in Local, NEW h \in 0 .. BlockNum PROVE [x EXCEPT !.head = h] \in Local
  BY DEF Local
<1> QED
  BY <1>1, <1>2, <1>3, <1>4, <1>5, <1>6

LEMMA MemoryTypes ==
  /\ Zeroed \in Memory
  /\ [Zeroed EXCEPT !.drawn = NoneDrawn] = Zeroed
  /\ \A m \in Memory :
       /\ [m EXCEPT !.refs = m.refs + 1] \in Memory
       /\ [m EXCEPT !.refs = m.refs - 1] \in Memory
       /\ [m EXCEPT !.inited = TRUE] \in Memory
       /\ \A n \in Nat : [m EXCEPT !.drawn = n] \in Memory /\ [m EXCEPT !.drawn = n].drawn = n
       /\ [m EXCEPT !.refs = m.refs + 1].drawn = m.drawn
       /\ [m EXCEPT !.refs = m.refs - 1].drawn = m.drawn
       /\ [m EXCEPT !.inited = TRUE].drawn = m.drawn
<1>1. Zeroed \in Memory /\ [Zeroed EXCEPT !.drawn = NoneDrawn] = Zeroed
  BY DEF Memory, Zeroed
<1>2. ASSUME NEW m \in Memory
      PROVE  /\ [m EXCEPT !.refs = m.refs + 1] \in Memory
             /\ [m EXCEPT !.refs = m.refs + 1].drawn = m.drawn
  BY DEF Memory
<1>3. ASSUME NEW m \in Memory
      PROVE  /\ [m EXCEPT !.refs = m.refs - 1] \in Memory
             /\ [m EXCEPT !.refs = m.refs - 1].drawn = m.drawn
  BY DEF Memory
<1>4. ASSUME NEW m \in Memory
      PROVE  /\ [m EXCEPT !.inited = TRUE] \in Memory
             /\ [m EXCEPT !.inited = TRUE].drawn = m.drawn
  BY DEF Memory
<1>5. ASSUME NEW m \in Memory, NEW n \in Nat
      PROVE  [m EXCEPT !.drawn = n] \in Memory /\ [m EXCEPT !.drawn = n].drawn = n
  BY DEF Memory
<1> QED
  BY <1>1, <1>2, <1>3, <1>4, <1>5

\* A step that writes the memory of one segment.
LEMMA WriteType ==
  ASSUME TypeOK, NEW a \in Segs, NEW m \in Memory, m.drawn <= BlockNum,
         state' = [state EXCEPT ![a] = m]
  PROVE  state' \in [Segs -> Memory] /\ \A s \in Segs : state'[s].drawn <= BlockNum
BY DEF TypeOK

LEMMA GotoType ==
  ASSUME TypeOK, NEW p \in Procs, NEW l \in Pcs, NEW x \in Local, Goto(p, l, x)
  PROVE  pc' \in [Procs -> Pcs] /\ local' \in [Procs -> Local]
BY DEF TypeOK, Goto

LEMMA TypeStep ==
  ASSUME TypeOK, \A p \in Procs : HandleShape(p), Next
  PROVE  TypeOK'
<1> USE SegmentConstants, LocalTypes, MemoryTypes, GotoType
    DEF Return, On, Pcs, InitPcs, OpenPcs, PostPcs
<1> PICK p \in Procs :
      \/ Step(p) \/ (\E c \in Calls : Call(p, c)) \/ Destroy(p) \/ Crash(p)
  BY DEF Next
<1>a. local[p] \in Local /\ pc[p] \in Pcs /\ handle[p] \in Handle
  BY DEF TypeOK
<1>b. /\ local[p].call \in Calls /\ local[p].shmid \in {NoSeg} \cup Segs
      /\ local[p].head \in Nat /\ handle[p].at \in {NoSeg} \cup Segs
  BY <1>a DEF Local, Handle
<1>c. NewHandle \in Handle
  BY DEF NewHandle, Handle
<1>d. handle[p].inited \/ pc[p] \in PostPcs \cup {"deal", "take"} => At(p) \in Segs
  BY <1>b DEF HandleShape, At
<1>e. At(p) \in Segs => state[At(p)] \in Memory /\ state[At(p)].drawn <= BlockNum
  BY DEF TypeOK
<1>f. \A b \in BOOLEAN : [handle[p] EXCEPT !.inited = b] \in Handle
  BY <1>a DEF Handle
<1>1. ASSUME NEW c \in Calls, Call(p, c) PROVE TypeOK'
  <2>1. pc' \in [Procs -> Pcs] /\ local' \in [Procs -> Local]
    BY <1>1, <1>a DEF Call
  <2> QED
    BY <1>1, <2>1 DEF Call, TypeOK
<1>2. CASE OpenOrCreate(p)
  <2>1. made' \in 0 .. MaxSegs /\ key' \in {NoSeg} \cup Segs
    BY <1>2 DEF OpenOrCreate, TypeOK, Segs
  <2>2. pc' \in [Procs -> Pcs] /\ local' \in [Procs -> Local]
    <3>1. made < MaxSegs => made + 1 \in Segs
      BY DEF TypeOK, Segs
    <3> QED
      BY <1>2, <1>a, <3>1 DEF OpenOrCreate
  <2> QED
    BY <1>2, <2>1, <2>2 DEF OpenOrCreate, TypeOK
<1>3. CASE OpenOnly(p)
  <2>1. pc' \in [Procs -> Pcs] /\ local' \in [Procs -> Local]
    BY <1>3, <1>a DEF OpenOnly, OpenFailed, TypeOK
  <2> QED
    BY <1>3, <2>1 DEF OpenOnly, TypeOK
<1>4. CASE Attach(p)
  <2>1. pc' \in [Procs -> Pcs] /\ local' \in [Procs -> Local]
    BY <1>4, <1>a, <1>b DEF Attach
  <2>2. handle' \in [Procs -> Handle]
    BY <1>4, <1>a, <1>b DEF Attach, TypeOK, Handle
  <2> QED
    BY <1>4, <2>1, <2>2 DEF Attach, TypeOK
<1>5. CASE AttachFails(p)
  <2>1. pc' \in [Procs -> Pcs] /\ local' \in [Procs -> Local]
    BY <1>5, <1>a DEF AttachFails, OpenFailed
  <2>2. key' \in {NoSeg} \cup Segs
    BY <1>5 DEF AttachFails, TypeOK
  <2> QED
    BY <1>5, <2>1, <2>2 DEF AttachFails, TypeOK
<1>6. CASE Construct(p)
  <2>1. pc' \in [Procs -> Pcs] /\ local' \in [Procs -> Local]
    BY <1>6, <1>a DEF Construct
  <2>2. state' \in [Segs -> Memory] /\ \A s \in Segs : state'[s].drawn <= BlockNum
    <3>1. At(p) \in Segs
      BY <1>6, <1>d DEF Construct
    <3>2. Zeroed.drawn <= BlockNum
      BY DEF Zeroed
    <3>3. state' = [state EXCEPT ![At(p)] = Zeroed]
      BY <1>6 DEF Construct
    <3> QED
      BY <3>1, <3>2, <3>3, WriteType
  <2> QED
    BY <1>6, <2>1, <2>2 DEF Construct, TypeOK
<1>7. CASE CountSelf(p)
  <2>1. pc' \in [Procs -> Pcs] /\ local' \in [Procs -> Local]
    BY <1>7, <1>a DEF CountSelf
  <2>2. state' \in [Segs -> Memory] /\ \A s \in Segs : state'[s].drawn <= BlockNum
    <3> DEFINE m == [state[At(p)] EXCEPT !.refs = state[At(p)].refs + 1]
    <3>1. At(p) \in Segs
      BY <1>7, <1>d DEF CountSelf
    <3>2. m \in Memory /\ m.drawn <= BlockNum
      BY <3>1, <1>e
    <3>3. state' = [state EXCEPT ![At(p)] = m]
      BY <1>7 DEF CountSelf
    <3> QED
      BY <3>1, <3>2, <3>3, WriteType
  <2> QED
    BY <1>7, <2>1, <2>2 DEF CountSelf, TypeOK
<1>8. CASE Publish(p)
  <2>1. pc' \in [Procs -> Pcs] /\ local' \in [Procs -> Local]
    BY <1>8, <1>a DEF Publish
  <2>2. state' \in [Segs -> Memory] /\ \A s \in Segs : state'[s].drawn <= BlockNum
    <3> DEFINE m == [state[At(p)] EXCEPT !.inited = TRUE]
    <3>1. At(p) \in Segs
      BY <1>8, <1>d DEF Publish
    <3>2. m \in Memory /\ m.drawn <= BlockNum
      BY <3>1, <1>e
    <3>3. state' = [state EXCEPT ![At(p)] = m]
      BY <1>8 DEF Publish
    <3> QED
      BY <3>1, <3>2, <3>3, WriteType
  <2>3. handle' \in [Procs -> Handle]
    BY <1>8, <1>f DEF Publish, TypeOK
  <2> QED
    BY <1>8, <2>1, <2>2, <2>3 DEF Publish, TypeOK
<1>9. CASE Poll(p)
  <2>1. pc' \in [Procs -> Pcs] /\ local' \in [Procs -> Local]
    <3>1. local[p].retry + 2 > RetryLimit \/ local[p].retry + 2 <= RetryLimit
      BY <1>a DEF Local
    <3> QED
      BY <1>9, <1>a, <3>1 DEF Poll
  <2> QED
    BY <1>9, <2>1 DEF Poll, TypeOK
<1>10. CASE Count(p)
  <2>1. pc' \in [Procs -> Pcs] /\ local' \in [Procs -> Local]
    BY <1>10, <1>a DEF Count
  <2>2. state' \in [Segs -> Memory] /\ \A s \in Segs : state'[s].drawn <= BlockNum
    <3> DEFINE m == [state[At(p)] EXCEPT !.refs = state[At(p)].refs + 1]
    <3>1. At(p) \in Segs
      BY <1>10, <1>d DEF Count
    <3>2. m \in Memory /\ m.drawn <= BlockNum
      BY <3>1, <1>e
    <3>3. state' = [state EXCEPT ![At(p)] = m]
      BY <1>10 DEF Count
    <3> QED
      BY <3>1, <3>2, <3>3, WriteType
  <2>3. handle' \in [Procs -> Handle]
    BY <1>10, <1>f DEF Count, TypeOK
  <2>4. reopened' \in BOOLEAN
    BY <1>10 DEF Count
  <2> QED
    BY <1>10, <2>1, <2>2, <2>3, <2>4 DEF Count, TypeOK
<1>11. CASE Deal(p)
  <2>1. pc' \in [Procs -> Pcs] /\ local' \in [Procs -> Local]
    <3>1. At(p) \in Segs
      BY <1>11, <1>b DEF Deal, HandleShape, At
    <3>2. state[At(p)].drawn \in 0 .. BlockNum
      BY <3>1 DEF TypeOK, Memory
    <3> QED
      BY <1>11, <1>a, <3>2 DEF Deal
  <2> QED
    BY <1>11, <2>1 DEF Deal, TypeOK
<1>12. CASE Take(p)
  <2>1. pc' \in [Procs -> Pcs] /\ local' \in [Procs -> Local]
    BY <1>12, <1>a DEF Take
  <2>2. local[p].head + 1 \in Nat /\ local[p].head + 1 <= BlockNum
    BY <1>12, <1>b DEF Take, HandleShape
  <2>3. state' \in [Segs -> Memory] /\ \A s \in Segs : state'[s].drawn <= BlockNum
    <3> DEFINE m == [state[At(p)] EXCEPT !.drawn = local[p].head + 1]
    <3>1. At(p) \in Segs
      BY <1>12, <1>d DEF Take
    <3>2. m \in Memory /\ m.drawn <= BlockNum
      BY <3>1, <1>e, <2>2
    <3>3. state' = [state EXCEPT ![At(p)] = m]
      BY <1>12 DEF Take
    <3> QED
      BY <3>1, <3>2, <3>3, WriteType
  <2> QED
    BY <1>12, <2>1, <2>3 DEF Take, TypeOK
<1>13. CASE Remove(p)
  <2>1. pc' \in [Procs -> Pcs] /\ local' \in [Procs -> Local]
    BY <1>13, <1>a DEF Remove
  <2> QED
    BY <1>13, <2>1 DEF Remove, TypeOK
<1>14. CASE Reset(p)
  <2>1. pc' \in [Procs -> Pcs] /\ local' \in [Procs -> Local]
    BY <1>14, <1>a DEF Reset
  <2> QED
    BY <1>14, <1>c, <2>1 DEF Reset, TypeOK
<1>15. CASE Destroy(p)
  <2>1. pc' \in [Procs -> Pcs] /\ local' \in [Procs -> Local]
    BY <1>15, <1>a DEF Destroy
  <2>2. state' \in [Segs -> Memory] /\ \A s \in Segs : state'[s].drawn <= BlockNum
    <3> DEFINE m == [state[At(p)] EXCEPT !.refs = state[At(p)].refs - 1]
    <3>1. CASE handle[p].inited
      <4>1. At(p) \in Segs
        BY <3>1, <1>d
      <4>2. m \in Memory /\ m.drawn <= BlockNum
        BY <4>1, <1>e
      <4>3. state' = [state EXCEPT ![At(p)] = m]
        BY <1>15, <3>1 DEF Destroy
      <4> QED
        BY <4>1, <4>2, <4>3, WriteType
    <3>2. CASE ~handle[p].inited
      BY <1>15, <3>2 DEF Destroy, TypeOK
    <3> QED
      BY <3>1, <3>2
  <2>3. handle' \in [Procs -> Handle]
    BY <1>15, <1>f DEF Destroy, TypeOK
  <2> QED
    BY <1>15, <2>1, <2>2, <2>3 DEF Destroy, TypeOK
<1>16. CASE Crash(p)
  <2>1. pc' \in [Procs -> Pcs] /\ local' \in [Procs -> Local]
    BY <1>16, <1>a DEF Crash
  <2>2. lost' \in [Segs -> Nat] /\ crashes' \in 0 .. MaxCrashes
    BY <1>16 DEF Crash, TypeOK
  <2> QED
    BY <1>16, <1>c, <2>1, <2>2 DEF Crash, TypeOK
<1> QED
  BY <1>1, <1>2, <1>3, <1>4, <1>5, <1>6, <1>7, <1>8, <1>9, <1>10, <1>11, <1>12, <1>13,
     <1>14, <1>15, <1>16 DEF Step

-----------------------------------------------------------------------------
\* The rest of the invariant.

Moves(p) == Step(p) \/ (\E c \in Calls : Call(p, c)) \/ Destroy(p) \/ Crash(p)

\* A step of p leaves the other processes alone, and the memory p is not attached to.
LEMMA Frame ==
  ASSUME TypeOK, NEW p \in Procs, Moves(p)
  PROVE  /\ \A q \in Procs \ {p} :
              pc'[q] = pc[q] /\ local'[q] = local[q] /\ handle'[q] = handle[q]
         /\ \A s \in Segs \ {At(p)} : state'[s] = state[s]
<1> USE DEF TypeOK, Goto, Return, On
<1>1. ASSUME NEW c \in Calls, Call(p, c)
      PROVE  /\ \A q \in Procs \ {p} :
                  pc'[q] = pc[q] /\ local'[q] = local[q] /\ handle'[q] = handle[q]
             /\ \A s \in Segs \ {At(p)} : state'[s] = state[s]
  BY <1>1 DEF Call
<1>2. CASE OpenOrCreate(p) \/ OpenOnly(p) \/ AttachFails(p)
  BY <1>2 DEF OpenOrCreate, OpenOnly, AttachFails, OpenFailed
<1>3. CASE Attach(p)
  BY <1>3 DEF Attach
<1>4. CASE Construct(p)
  BY <1>4 DEF Construct
<1>5. CASE CountSelf(p)
  BY <1>5 DEF CountSelf
<1>6. CASE Publish(p)
  BY <1>6 DEF Publish
<1>7. CASE Poll(p)
  BY <1>7 DEF Poll
<1>8. CASE Count(p)
  BY <1>8 DEF Count
<1>9. CASE Deal(p) \/ Take(p)
  BY <1>9 DEF Deal, Take
<1>10. CASE Remove(p) \/ Reset(p)
  BY <1>10 DEF Remove, Reset
<1>11. CASE Destroy(p)
  BY <1>11 DEF Destroy
<1>12. CASE Crash(p)
  BY <1>12 DEF Crash
<1> QED
  BY <1>1, <1>2, <1>3, <1>4, <1>5, <1>6, <1>7, <1>8, <1>9, <1>10, <1>11, <1>12
  DEF Moves, Step

\* What a step of p does to the memory p is attached to.
LEMMA MemoryStep ==
  ASSUME TypeOK, NEW p \in Procs, Moves(p), HandleShape(p), At(p) \in Segs
  PROVE  LET a == At(p) IN
         /\ Construct(p) => state'[a] = Zeroed
         /\ CountSelf(p) \/ Count(p) =>
              state'[a].inited = state[a].inited /\ state'[a].refs = state[a].refs + 1
         /\ Publish(p) => state'[a].inited /\ state'[a].refs = state[a].refs
         /\ Destroy(p) =>
              /\ state'[a].inited = state[a].inited
              /\ state'[a].refs = state[a].refs - IF handle[p].inited THEN 1 ELSE 0
         /\ ~Construct(p) /\ ~CountSelf(p) /\ ~Count(p) /\ ~Publish(p) /\ ~Destroy(p) =>
              state'[a].inited = state[a].inited /\ state'[a].refs = state[a].refs
<1> DEFINE a == At(p)
<1>a. state \in [Segs -> Memory] /\ state[a] \in Memory
  BY DEF TypeOK
<1>1. ASSUME Construct(p) PROVE state'[a] = Zeroed
  BY <1>1, <1>a, MemoryTypes DEF Construct
<1>2. ASSUME CountSelf(p) \/ Count(p)
      PROVE  state'[a].inited = state[a].inited /\ state'[a].refs = state[a].refs + 1
  BY <1>2, <1>a DEF CountSelf, Count, Memory
<1>3. ASSUME Publish(p) PROVE state'[a].inited /\ state'[a].refs = state[a].refs
  BY <1>3, <1>a DEF Publish, Memory
<1>4. ASSUME Destroy(p)
      PROVE  /\ state'[a].inited = state[a].inited
             /\ state'[a].refs = state[a].refs - IF handle[p].inited THEN 1 ELSE 0
  BY <1>4, <1>a DEF Destroy, Memory
<1>5. ASSUME ~Construct(p), ~CountSelf(p), ~Count(p), ~Publish(p), ~Destroy(p)
      PROVE  state'[a].inited = state[a].inited /\ state'[a].refs = state[a].refs
  <2>1. CASE Take(p)
    BY <2>1, <1>a DEF Take, Memory
  <2>2. CASE ~Take(p)
    BY <1>5, <2>2 DEF Moves, Step, Call, OpenOrCreate, OpenOnly, Attach, AttachFails, Poll, Deal,
                    Remove, Reset, Crash
  <2> QED
    BY <2>1, <2>2
<1> QED
  BY <1>1, <1>2, <1>3, <1>4, <1>5

\* An initialised segment stays initialised: only its builder constructs, before that.
LEMMA InitedStays ==
  ASSUME TypeOK, OneBuilder, NEW p \in Procs, HandleShape(p), Moves(p)
  PROVE  \A s \in Segs : state[s].inited => state'[s].inited
<1> SUFFICES ASSUME NEW s \in Segs, state[s].inited PROVE state'[s].inited
  OBVIOUS
<1>1. CASE At(p) # s
  BY <1>1, Frame
<1>2. CASE At(p) = s
  <2>1. ~Construct(p)
    BY <1>2 DEF OneBuilder, Builds, Construct
  <2> QED
    BY <1>2, <2>1, MemoryStep
<1> QED
  BY <1>1, <1>2

LEMMA HandleStep ==
  ASSUME TypeOK, OneBuilder, \A q \in Procs : HandleShape(q), NEW p \in Procs, Moves(p)
  PROVE  \A q \in Procs : HandleShape(q)'
<1>1. ASSUME NEW q \in Procs \ {p} PROVE HandleShape(q)'
  <2>1. pc'[q] = pc[q] /\ local'[q] = local[q] /\ handle'[q] = handle[q]
    BY Frame
  <2>2. At(q) \in {NoSeg} \cup Segs
    BY DEF TypeOK, Handle, At
  <2>3. At(q) # NoSeg /\ state[At(q)].inited => state'[At(q)].inited
    BY <2>2, InitedStays
  <2> QED
    BY <2>1, <2>3 DEF HandleShape, At, PostPcs
<1>2. HandleShape(p)'
  <2> USE DEF HandleShape, At, Goto, Return, On, OpenPcs, PostPcs
  <2>a. /\ pc \in [Procs -> Pcs] /\ local \in [Procs -> Local] /\ handle \in [Procs -> Handle]
        /\ local[p] \in Local /\ handle[p] \in Handle /\ made \in Nat
    BY DEF TypeOK
  <2>b. At(p) \in {NoSeg} \cup Segs /\ (At(p) # NoSeg /\ state[At(p)].inited => state'[At(p)].inited)
    BY <2>a, InitedStays DEF Handle
  <2>1. ASSUME NEW c \in Calls, Call(p, c) PROVE HandleShape(p)'
    BY <2>1, <2>a DEF Call
  <2>2. CASE OpenOrCreate(p)
    BY <2>2, <2>a DEF OpenOrCreate, Local
  <2>3. CASE OpenOnly(p)
    BY <2>3, <2>a DEF OpenOnly, OpenFailed, Local
  <2>4. CASE Attach(p)
    BY <2>4, <2>a DEF Attach, Handle
  <2>5. CASE AttachFails(p)
    BY <2>5, <2>a DEF AttachFails, OpenFailed
  <2>6. CASE Construct(p)
    BY <2>6, <2>a, <2>b DEF Construct
  <2>7. CASE CountSelf(p)
    BY <2>7, <2>a, <2>b DEF CountSelf
  <2>8. CASE Publish(p)
    BY <2>8, <2>a, <2>b, MemoryStep DEF Publish, Handle
  <2>9. CASE Poll(p)
    BY <2>9, <2>a DEF Poll
  <2>10. CASE Count(p)
    BY <2>10, <2>a, <2>b DEF Count, Handle
  <2>11. CASE Deal(p)
    BY <2>11, <2>a DEF Deal, Local
  <2>12. CASE Take(p)
    BY <2>12, <2>a, <2>b DEF Take
  <2>13. CASE Remove(p)
    BY <2>13, <2>a DEF Remove
  <2>14. CASE Reset(p)
    BY <2>14, <2>a DEF Reset, NewHandle
  <2>15. CASE Destroy(p)
    BY <2>15, <2>a, <2>b DEF Destroy, Handle, NewHandle
  <2>16. CASE Crash(p)
    BY <2>16, <2>a DEF Crash, NewHandle
  <2> QED
    BY <2>1, <2>2, <2>3, <2>4, <2>5, <2>6, <2>7, <2>8, <2>9, <2>10, <2>11, <2>12, <2>13,
       <2>14, <2>15, <2>16 DEF Moves, Step
<1> QED
  BY <1>1, <1>2

\* How the key and the number of segments change, and what a step of p makes p build.
LEMMA KeyStep ==
  ASSUME TypeOK, NEW p \in Procs, Moves(p)
  PROVE  \/ /\ OpenOrCreate(p) /\ key = NoSeg /\ key' = made + 1 /\ made' = made + 1
            /\ pc'[p] = "attach_new" /\ local'[p].shmid = made + 1
         \/ Remove(p) /\ key' = NoSeg /\ made' = made
         \/ /\ AttachFails(p) /\ pc[p] = "attach_new" /\ key = local[p].shmid
            /\ key' = NoSeg /\ made' = made
         \/ key' = key /\ made' = made /\ ~Remove(p)
<1>1. CASE OpenOrCreate(p)
  <2>1. pc \in [Procs -> Pcs] /\ local \in [Procs -> Local] /\ local[p] \in Local
    BY DEF TypeOK
  <2> QED
    BY <1>1, <2>1 DEF OpenOrCreate, Goto, Return, Local, Remove
<1>2. CASE Remove(p)
  BY <1>2 DEF Remove
<1>3. CASE AttachFails(p)
  BY <1>3 DEF AttachFails, Remove
<1>4. CASE ~OpenOrCreate(p) /\ ~Remove(p) /\ ~AttachFails(p)
  BY <1>4 DEF Moves, Step, Call, OpenOnly, Attach, Construct, CountSelf, Publish, Poll, Count,
              Deal, Take, Reset, Destroy, Crash
<1> QED
  BY <1>1, <1>2, <1>3, <1>4

LEMMA BuildsStep ==
  ASSUME TypeOK, NEW p \in Procs, Moves(p), NEW r \in Procs, NEW s \in Segs, Builds(r, s)'
  PROVE  \/ Builds(r, s)
         \/ r = p /\ OpenOrCreate(p) /\ key = NoSeg /\ key' = made + 1 /\ s = made + 1
<1>1. CASE r # p
  BY <1>1, Frame DEF Builds, At
<1>2. CASE r = p
  <2> USE <1>2 DEF Builds, At, Goto, Return, On
  <2>1. /\ pc \in [Procs -> Pcs] /\ local \in [Procs -> Local] /\ handle \in [Procs -> Handle]
        /\ local[p] \in Local /\ handle[p] \in Handle
    BY DEF TypeOK
  <2>2. ASSUME NEW c \in Calls, Call(p, c) PROVE FALSE
    BY <2>1, <2>2 DEF Call
  <2>3. CASE OpenOrCreate(p)
    BY <2>1, <2>3 DEF OpenOrCreate, Local
  <2>4. CASE Attach(p)
    BY <2>1, <2>4 DEF Attach, Handle
  <2>5. CASE Construct(p) \/ CountSelf(p)
    BY <2>1, <2>5 DEF Construct, CountSelf
  <2>6. CASE OpenOnly(p) \/ AttachFails(p)
    BY <2>1, <2>6 DEF OpenOnly, AttachFails, OpenFailed
  <2>7. CASE Publish(p) \/ Poll(p) \/ Count(p)
    BY <2>1, <2>7 DEF Publish, Poll, Count
  <2>8. CASE Deal(p) \/ Take(p) \/ Remove(p)
    BY <2>1, <2>8 DEF Deal, Take, Remove
  <2>9. CASE Reset(p) \/ Destroy(p) \/ Crash(p)
    BY <2>1, <2>9 DEF Reset, Destroy, Crash
  <2> QED
    BY <2>2, <2>3, <2>4, <2>5, <2>6, <2>7, <2>8, <2>9 DEF Moves, Step
<1> QED
  BY <1>1, <1>2

\* Only the crash of a counted handle loses a reference.
LEMMA LostStep ==
  ASSUME TypeOK, NEW p \in Procs, Moves(p), NEW s \in Segs
  PROVE  lost'[s] = lost[s] + IF Crash(p) /\ Counted(p, s) THEN 1 ELSE 0
<1>1. lost[s] \in Nat
  BY DEF TypeOK
<1>2. CASE Crash(p)
  BY <1>1, <1>2 DEF Crash
<1>3. CASE ~Crash(p)
  <2>1. lost' = lost
    BY <1>3 DEF Moves, Step, Call, OpenOrCreate, OpenOnly, Attach, AttachFails, Construct, CountSelf,
                Publish, Poll, Count, Deal, Take, Remove, Reset, Destroy
  <2> QED
    BY <1>1, <1>3, <2>1
<1> QED
  BY <1>2, <1>3

LEMMA UntouchedStep ==
  ASSUME TypeOK, \A q \in Procs : HandleShape(q), Untouched, NEW p \in Procs, Moves(p)
  PROVE  Untouched'
<1>a. /\ made \in Nat /\ key \in Nat /\ made <= made' /\ made' \in Nat
      /\ \A q \in Procs : At(q) \in Nat /\ local[q].shmid \in Nat
  <2>1. /\ made \in Nat /\ key \in Nat
        /\ \A q \in Procs : At(q) \in Nat /\ local[q].shmid \in Nat
    BY SegmentConstants DEF TypeOK, Segs, Handle, Local, At
  <2> QED
    BY <2>1, KeyStep
<1>1. key' <= made'
  BY <1>a, KeyStep DEF Untouched
<1>2. \A q \in Procs : At(q)' <= made' /\ local'[q].shmid <= made'
  <2>1. ASSUME NEW q \in Procs \ {p} PROVE At(q)' <= made' /\ local'[q].shmid <= made'
    BY <1>a, Frame DEF Untouched, At
  <2>2. At(p)' \in {At(p), local[p].shmid, NoSeg}
    <3>1. handle \in [Procs -> Handle] /\ handle[p] \in Handle
      BY DEF TypeOK
    <3>2. CASE Attach(p)
      BY <3>1, <3>2 DEF Attach, At, Handle
    <3>3. CASE Publish(p) \/ Count(p) \/ Destroy(p)
      BY <3>1, <3>3 DEF Publish, Count, Destroy, At, Handle
    <3>4. CASE Reset(p) \/ Crash(p)
      BY <3>1, <3>4 DEF Reset, Crash, NewHandle, At
    <3>5. CASE ~Attach(p) /\ ~Publish(p) /\ ~Count(p) /\ ~Destroy(p) /\ ~Reset(p) /\ ~Crash(p)
      BY <3>5 DEF Moves, Step, Call, OpenOrCreate, OpenOnly, AttachFails, Construct, CountSelf, Poll,
                  Deal, Take, Remove, At
    <3> QED
      BY <3>2, <3>3, <3>4, <3>5
  <2>3. local'[p].shmid \in {local[p].shmid, key, NoSeg} \/ local'[p].shmid = made' 
    <3> USE DEF Goto, Return, On, NoLocal
    <3>1. local \in [Procs -> Local] /\ local[p] \in Local
      BY DEF TypeOK
    <3>2. CASE OpenOrCreate(p)
      BY <3>1, <3>2 DEF OpenOrCreate, Local
    <3>3. CASE OpenOnly(p) \/ AttachFails(p)
      BY <3>1, <3>3 DEF OpenOnly, AttachFails, OpenFailed, Local
    <3>4. ASSUME NEW c \in Calls, Call(p, c) PROVE local'[p].shmid = NoSeg
      BY <3>1, <3>4 DEF Call
    <3>5. CASE Attach(p)
      BY <3>1, <3>5 DEF Attach
    <3>6. CASE Poll(p) \/ Count(p) \/ Deal(p)
      BY <3>1, <3>6 DEF Poll, Count, Deal, Local
    <3>7. CASE Construct(p) \/ CountSelf(p) \/ Publish(p) \/ Take(p)
      BY <3>1, <3>7 DEF Construct, CountSelf, Publish, Take
    <3>8. CASE Remove(p) \/ Reset(p) \/ Destroy(p) \/ Crash(p)
      BY <3>1, <3>8 DEF Remove, Reset, Destroy, Crash
    <3> QED
      BY <3>2, <3>3, <3>4, <3>5, <3>6, <3>7, <3>8 DEF Moves, Step
  <2>4. At(p)' <= made' /\ local'[p].shmid <= made'
    BY <1>a, <2>2, <2>3 DEF Untouched
  <2> QED
    BY <2>1, <2>4
<1>3. ASSUME NEW s \in Segs, s > made' PROVE ~state'[s].inited /\ lost'[s] = 0
  <2>1. s > made /\ At(p) # s
    BY <1>3, <1>a DEF Untouched, Segs
  <2>2. state'[s] = state[s]
    BY <2>1, Frame
  <2>3. lost'[s] = lost[s]
    BY <2>1, LostStep DEF Counted, TypeOK
  <2> QED
    BY <2>1, <2>2, <2>3 DEF Untouched
<1> QED
  BY <1>1, <1>2, <1>3 DEF Untouched

\* A process attached to a segment that somebody else builds leaves its memory alone.
LEMMA BuiltByOther ==
  ASSUME TypeOK, \A q \in Procs : HandleShape(q), OneBuilder, NEW p \in Procs, Moves(p),
         NEW r \in Procs, NEW s \in Segs, Builds(r, s), r # p
  PROVE  /\ state'[s].inited = state[s].inited /\ state'[s].refs = state[s].refs
         /\ lost'[s] = lost[s]
<1>1. ~state[s].inited /\ ~Builds(p, s)
  BY DEF OneBuilder
<1>2. At(p) = s => ~Construct(p) /\ ~CountSelf(p) /\ ~Publish(p) /\ ~Count(p) /\ ~handle[p].inited
  BY <1>1 DEF Builds, Construct, CountSelf, Publish, Count, HandleShape
<1>3. ~Counted(p, s)
  BY <1>1, <1>2 DEF Counted, Builds
<1>4. state[s].refs \in Int
  BY DEF TypeOK, Memory
<1>5. state'[s].inited = state[s].inited /\ state'[s].refs = state[s].refs
  <2>1. CASE At(p) # s
    BY <2>1, Frame
  <2>2. CASE At(p) = s
    BY <2>2, <1>2, <1>4, MemoryStep
  <2> QED
    BY <2>1, <2>2
<1> QED
  BY <1>3, <1>5, LostStep DEF TypeOK

LEMMA BuilderStep ==
  ASSUME TypeOK, \A q \in Procs : HandleShape(q), Untouched, OneBuilder, NEW p \in Procs, Moves(p)
  PROVE  OneBuilder'
<1> SUFFICES ASSUME NEW r \in Procs, NEW s \in Segs, Builds(r, s)'
             PROVE  /\ ~state'[s].inited
                    /\ lost'[s] = 0
                    /\ pc'[r] = "count_self" => state'[s].refs = 0
                    /\ pc'[r] = "publish" => state'[s].refs = 1
                    /\ \A q \in Procs : Builds(q, s)' => q = r
  BY DEF OneBuilder
<1>a. made \in Nat /\ s \in Nat /\ lost[s] \in Nat
  BY DEF TypeOK, Segs
<1>b. \A q \in Procs : Builds(q, s) => s <= made
  BY DEF Builds, Untouched
<1>1. CASE Builds(r, s) /\ r # p
  <2>1. pc'[r] = pc[r]
    BY <1>1, Frame
  <2>2. \A q \in Procs : Builds(q, s)' => q = r
    BY <1>1, <1>a, <1>b, BuildsStep DEF OneBuilder
  <2> QED
    BY <1>1, <2>1, <2>2, BuiltByOther DEF OneBuilder
<1>2. CASE Builds(r, s) /\ r = p
  <2>1. ~state[s].inited /\ lost[s] = 0
    BY <1>2 DEF OneBuilder
  <2>2. \A q \in Procs : Builds(q, s)' => q = r
    BY <1>2, <1>a, <1>b, BuildsStep DEF OneBuilder
  <2> USE <1>2 DEF Goto, Return, On
  <2>3. /\ pc \in [Procs -> Pcs] /\ local \in [Procs -> Local] /\ handle \in [Procs -> Handle]
    BY DEF TypeOK
  <2>4. CASE Construct(p)
    <3>1. state'[s] = Zeroed /\ pc'[p] = "count_self" /\ lost' = lost
      <4>1. At(p) = s
        BY <2>4 DEF Construct, Builds
      <4> QED
        BY <2>3, <2>4, <4>1, MemoryStep DEF Construct
    <3> QED
      BY <3>1, <2>1, <2>2 DEF Zeroed
  <2>5. CASE CountSelf(p)
    <3>1. At(p) = s /\ state[s].refs = 0
      BY <2>5 DEF CountSelf, Builds, OneBuilder
    <3>2. state'[s].inited = state[s].inited /\ state'[s].refs = 1
      BY <3>1, <2>5, MemoryStep
    <3>3. pc'[p] = "publish" /\ lost' = lost
      BY <2>3, <2>5 DEF CountSelf
    <3> QED
      BY <3>2, <3>3, <2>1, <2>2
  <2>6. CASE Attach(p)
    <3>1. state' = state /\ lost' = lost /\ pc'[p] \notin {"count_self", "publish"}
      BY <2>3, <2>6 DEF Attach
    <3> QED
      BY <3>1, <2>1, <2>2
  <2>7. CASE Publish(p) \/ AttachFails(p) \/ Crash(p)
    BY <2>3, <2>7 DEF Publish, AttachFails, Crash, Builds
  <2>8. CASE ~Construct(p) /\ ~CountSelf(p) /\ ~Attach(p) /\ ~Publish(p) /\ ~AttachFails(p) /\ ~Crash(p)
    BY <2>8 DEF Builds, Moves, Step, Call, OpenOrCreate, OpenOnly, Poll, Count, Deal, Take, Remove,
                Reset, Destroy
  <2> QED
    BY <2>4, <2>5, <2>6, <2>7, <2>8
<1>3. CASE ~Builds(r, s)
  <2>1. r = p /\ OpenOrCreate(p) /\ s = made + 1 /\ key' = made + 1 /\ key = NoSeg
    BY <1>3, BuildsStep
  <2>2. state' = state /\ lost' = lost
    BY <2>1 DEF OpenOrCreate
  <2>3. ~state[s].inited /\ lost[s] = 0
    BY <2>1, <1>a DEF Untouched
  <2>4. pc'[p] = "attach_new"
    BY <2>1, <1>a, KeyStep DEF Remove, OpenOrCreate, AttachFails
  <2>5. \A q \in Procs : Builds(q, s)' => q = r
    BY <2>1, <1>a, <1>b, BuildsStep
  <2> QED
    BY <2>1, <2>2, <2>3, <2>4, <2>5
<1> QED
  BY <1>1, <1>2, <1>3

\* The handles counted on s.
Users(s) == {q \in Procs : Counted(q, s)}

LEMMA UsersFinite ==
  ASSUME NEW s
  PROVE  IsFiniteSet(Users(s)) /\ Cardinality(Users(s)) \in Nat
BY SegmentConstants, FS_Subset, FS_CardinalityType DEF Users

\* Which steps of p change whether p is counted.
LEMMA CountedKept ==
  ASSUME TypeOK, \A q \in Procs : HandleShape(q), NEW p \in Procs, Moves(p), NEW s \in Segs,
         ~CountSelf(p), ~Publish(p), ~Count(p), ~Destroy(p), ~Crash(p)
  PROVE  Counted(p, s)' <=> Counted(p, s)
<1> USE DEF Counted, HandleShape, At, Goto, Return, On, PostPcs
<1>a. /\ pc \in [Procs -> Pcs] /\ local \in [Procs -> Local] /\ handle \in [Procs -> Handle]
      /\ handle[p] \in Handle /\ s # NoSeg
  BY DEF TypeOK, Segs
<1>1. ASSUME NEW c \in Calls, Call(p, c) PROVE Counted(p, s)' <=> Counted(p, s)
  BY <1>1, <1>a DEF Call
<1>2. CASE OpenOrCreate(p) \/ OpenOnly(p) \/ AttachFails(p)
  BY <1>2, <1>a DEF OpenOrCreate, OpenOnly, AttachFails, OpenFailed, OpenPcs
<1>3. CASE Attach(p)
  BY <1>3, <1>a DEF Attach, Handle, OpenPcs
<1>4. CASE Construct(p)
  BY <1>4, <1>a DEF Construct
<1>5. CASE Poll(p)
  BY <1>5, <1>a DEF Poll
<1>6. CASE Deal(p) \/ Take(p)
  BY <1>6, <1>a DEF Deal, Take
<1>7. CASE Remove(p) \/ Reset(p)
  BY <1>7, <1>a DEF Remove, Reset, NewHandle
<1> QED
  BY <1>1, <1>2, <1>3, <1>4, <1>5, <1>6, <1>7 DEF Moves, Step

LEMMA CountedOn ==
  ASSUME TypeOK, \A q \in Procs : HandleShape(q), NEW p \in Procs, NEW s \in Segs
  PROVE  /\ Count(p) => (Counted(p, s)' <=> At(p) = s) /\ ~Counted(p, s)
         /\ Publish(p) => (Counted(p, s)' <=> At(p) = s) /\ (Counted(p, s) <=> At(p) = s)
         /\ CountSelf(p) => (Counted(p, s)' <=> At(p) = s) /\ ~Counted(p, s)
         /\ Destroy(p) => ~Counted(p, s)' /\ (Counted(p, s) <=> At(p) = s /\ handle[p].inited)
         /\ Crash(p) => ~Counted(p, s)'
<1> USE DEF Counted, HandleShape, At, Goto, Return, On, PostPcs
<1>a. /\ pc \in [Procs -> Pcs] /\ local \in [Procs -> Local] /\ handle \in [Procs -> Handle]
      /\ handle[p] \in Handle /\ s # NoSeg
  BY DEF TypeOK, Segs
<1>1. ASSUME Count(p) PROVE (Counted(p, s)' <=> At(p) = s) /\ ~Counted(p, s)
  BY <1>1, <1>a DEF Count, Handle
<1>2. ASSUME Publish(p) PROVE (Counted(p, s)' <=> At(p) = s) /\ (Counted(p, s) <=> At(p) = s)
  BY <1>2, <1>a DEF Publish, Handle
<1>3. ASSUME CountSelf(p) PROVE (Counted(p, s)' <=> At(p) = s) /\ ~Counted(p, s)
  BY <1>3, <1>a DEF CountSelf
<1>4. ASSUME Destroy(p)
      PROVE  ~Counted(p, s)' /\ (Counted(p, s) <=> At(p) = s /\ handle[p].inited)
  BY <1>4, <1>a DEF Destroy, Handle
<1>5. ASSUME Crash(p) PROVE ~Counted(p, s)'
  BY <1>5, <1>a DEF Crash, NewHandle
<1> QED
  BY <1>1, <1>2, <1>3, <1>4, <1>5

LEMMA CountStep ==
  ASSUME TypeOK, \A q \in Procs : HandleShape(q), OneBuilder, CountsHandles, NEW p \in Procs, Moves(p)
  PROVE  CountsHandles'
<1> SUFFICES ASSUME NEW s \in Segs, state'[s].inited
             PROVE  state'[s].refs = Cardinality(Users(s)') + lost'[s]
  BY DEF CountsHandles, Users
<1>a. /\ state[s].inited => state[s].refs = Cardinality(Users(s)) + lost[s]
      /\ state[s].refs \in Int /\ lost[s] \in Nat /\ state[s].inited \in BOOLEAN
      /\ IsFiniteSet(Users(s)) /\ Cardinality(Users(s)) \in Nat
  BY UsersFinite DEF TypeOK, Memory, CountsHandles, Users
<1>b. \A q \in Procs \ {p} : Counted(q, s)' <=> Counted(q, s)
  BY Frame DEF Counted, At
<1>c. /\ Counted(p, s) => p \in Users(s)
      /\ ~Counted(p, s) => p \notin Users(s)
  BY DEF Users
<1>d. /\ (Counted(p, s)' <=> Counted(p, s)) => Users(s)' = Users(s)
      /\ Counted(p, s)' => Users(s)' = Users(s) \cup {p}
      /\ ~Counted(p, s)' => Users(s)' = Users(s) \ {p}
  BY <1>b DEF Users
<1>1. CASE At(p) # s
  <2>1. Counted(p, s)' <=> Counted(p, s)
    BY <1>1, CountedKept, CountedOn DEF Counted
  <2>2. state'[s] = state[s] /\ lost'[s] = lost[s]
    BY <1>1, <1>a, Frame, LostStep DEF Counted
  <2> QED
    BY <2>1, <2>2, <1>a, <1>d
<1>2. CASE At(p) = s /\ Construct(p)
  BY <1>2, MemoryStep DEF Zeroed
<1>3. CASE At(p) = s /\ CountSelf(p)
  BY <1>3, MemoryStep DEF OneBuilder, Builds, CountSelf
<1>4. CASE At(p) = s /\ Publish(p)
  <2>1. state[s].refs = 1 /\ lost[s] = 0 /\ ~state[s].inited
    BY <1>4 DEF OneBuilder, Builds, Publish
  <2>2. \A q \in Procs : Counted(q, s) => q = p
    BY <1>4, <2>1 DEF Counted, OneBuilder, Builds, HandleShape, Publish
  <2>3. Users(s)' = {p}
    BY <1>4, <2>2, <1>d, CountedOn DEF Users
  <2>4. state'[s].refs = 1 /\ lost'[s] = 0
    <3>1. lost' = lost
      BY <1>4 DEF Publish
    <3> QED
      BY <1>4, <2>1, <3>1, MemoryStep
  <2> QED
    BY <2>3, <2>4, FS_Singleton
<1>5. CASE At(p) = s /\ Count(p)
  <2>1. state'[s].inited = state[s].inited /\ state'[s].refs = state[s].refs + 1
    BY <1>5, MemoryStep
  <2>2. lost' = lost
    BY <1>5 DEF Count
  <2>3. Cardinality(Users(s)') = Cardinality(Users(s)) + 1
    BY <1>5, <1>a, <1>c, <1>d, CountedOn, FS_AddElement
  <2> QED
    BY <2>1, <2>2, <2>3, <1>a
<1>6. CASE At(p) = s /\ Destroy(p)
  <2>1. /\ state'[s].inited = state[s].inited
        /\ state'[s].refs = state[s].refs - IF handle[p].inited THEN 1 ELSE 0
    BY <1>6, MemoryStep
  <2>4. lost' = lost
    BY <1>6 DEF Destroy
  <2>2. CASE handle[p].inited
    <3>1. Cardinality(Users(s)') = Cardinality(Users(s)) - 1
      BY <1>6, <2>2, <1>a, <1>c, <1>d, CountedOn, FS_RemoveElement
    <3> QED
      BY <2>1, <2>2, <2>4, <3>1, <1>a
  <2>3. CASE ~handle[p].inited
    BY <1>6, <2>1, <2>3, <2>4, <1>a, <1>c, <1>d, CountedOn
  <2> QED
    BY <2>2, <2>3
<1>7. CASE At(p) = s /\ Crash(p)
  <2>1. state' = state
    BY <1>7 DEF Crash
  <2>2. CASE Counted(p, s)
    <3>1. Cardinality(Users(s)') = Cardinality(Users(s)) - 1
      BY <1>7, <2>2, <1>a, <1>c, <1>d, CountedOn, FS_RemoveElement
    <3>2. lost'[s] = lost[s] + 1
      BY <1>7, <2>2, LostStep
    <3> QED
      BY <2>1, <3>1, <3>2, <1>a
  <2>3. CASE ~Counted(p, s)
    BY <1>7, <2>1, <2>3, <1>a, <1>d, CountedOn, LostStep
  <2> QED
    BY <2>2, <2>3
<1>8. CASE /\ At(p) = s /\ ~Construct(p) /\ ~CountSelf(p) /\ ~Publish(p) /\ ~Count(p)
           /\ ~Destroy(p) /\ ~Crash(p)
  BY <1>8, <1>a, <1>d, CountedKept, LostStep, MemoryStep
<1> QED
  BY <1>1, <1>2, <1>3, <1>4, <1>5, <1>6, <1>7, <1>8

\* A segment with an initialised handle on it is counted.
LEMMA UsedIsCounted ==
  ASSUME TypeOK, \A q \in Procs : HandleShape(q), CountsHandles, NEW p \in Procs, handle[p].inited
  PROVE  At(p) \in Segs /\ state[At(p)].inited /\ state[At(p)].refs # 0
<1>1. At(p) \in Segs /\ state[At(p)].inited
  BY DEF TypeOK, Handle, HandleShape, At
<1>2. p \in Users(At(p)) /\ IsFiniteSet(Users(At(p))) /\ Cardinality(Users(At(p))) \in Nat
  BY UsersFinite DEF Users, Counted
<1>3. Cardinality(Users(At(p))) # 0
  BY <1>2, FS_EmptySet
<1>4. state[At(p)].refs = Cardinality(Users(At(p))) + lost[At(p)] /\ lost[At(p)] \in Nat
  BY <1>1 DEF CountsHandles, Users, TypeOK
<1> QED
  BY <1>1, <1>2, <1>3, <1>4

LEMMA SharedStep ==
  ASSUME SegInv, reopened \/ Shared, NEW p \in Procs, Moves(p), ~reopened'
  PROVE  Shared'
<1>a. /\ TypeOK /\ \A q \in Procs : HandleShape(q)
      /\ Untouched /\ OneBuilder /\ CountsHandles
  BY DEF SegInv
<1>b. Shared
  <2>1. reopened' = reopened \/ Count(p)
    BY DEF Moves, Step, Call, OpenOrCreate, OpenOnly, Attach, AttachFails, Construct, CountSelf,
           Publish, Poll, Deal, Take, Remove, Reset, Destroy, Crash
  <2> QED
    BY <2>1 DEF Count
<1>c. Count(p) => state[At(p)].refs # 0
  BY DEF Count
<1>d. \A s \in Segs : state[s].refs \in Int
  BY <1>a DEF TypeOK, Memory
<1>e. \A q \in Procs : pc[q] = "remove" => At(q) \in Segs /\ state[At(q)].inited
  BY <1>a DEF TypeOK, Handle, HandleShape, At
\* The builder, the remover and the counted segment, whoever has the key afterwards.
<1>1. ASSUME NEW s \in Segs, state'[s].inited, state'[s].refs # 0
      PROVE  s = key /\ (At(p) = s => ~Remove(p))
  <2>1. CASE At(p) # s
    BY <1>1, <1>a, <1>b, <2>1, Frame DEF Shared
  <2>2. CASE At(p) = s /\ Publish(p)
    BY <1>b, <2>2 DEF Shared, Builds, Publish, Remove
  <2>3. CASE At(p) = s /\ (Construct(p) \/ CountSelf(p))
    <3>1. Builds(p, s)
      BY <2>3 DEF Builds, Construct, CountSelf
    <3> QED
      BY <1>1, <1>a, <2>3, <3>1, MemoryStep DEF OneBuilder, Zeroed
  <2>4. CASE At(p) = s /\ Count(p)
    <3>1. state[s].inited /\ state[s].refs # 0 /\ pc[p] = "count"
      BY <1>a, <1>c, <2>4 DEF Count, HandleShape
    <3> QED
      BY <1>b, <3>1 DEF Shared, Remove
  <2>5. CASE At(p) = s /\ Destroy(p)
    <3>1. state[s].inited /\ state[s].refs # 0
      BY <1>1, <1>a, <1>d, <2>5, MemoryStep, UsedIsCounted
    <3> QED
      BY <1>b, <2>5, <3>1 DEF Shared, Remove, Destroy
  <2>6. CASE At(p) = s /\ ~Construct(p) /\ ~CountSelf(p) /\ ~Publish(p) /\ ~Count(p) /\ ~Destroy(p)
    <3>1. state[s].inited /\ state[s].refs # 0
      BY <1>1, <1>a, <2>6, MemoryStep
    <3> QED
      BY <1>b, <2>6, <3>1 DEF Shared, Remove
  <2> QED
    BY <2>1, <2>2, <2>3, <2>4, <2>5, <2>6
<1>2. ASSUME NEW r \in Procs, NEW s \in Segs, Builds(r, s)'
      PROVE  \/ Builds(r, s) /\ s = key
             \/ key = NoSeg /\ key' = s
  BY <1>2, <1>a, <1>b, BuildsStep DEF Shared
<1>3. ASSUME NEW r \in Procs, pc'[r] = "remove"
      PROVE  /\ At(r)' = key /\ key \in Segs /\ state[key].inited /\ state'[key].refs = 0
             /\ ~Remove(p)
             /\ r # p => pc[r] = "remove"
             /\ r = p => Destroy(p) /\ state[key].refs = 1
  <2>1. CASE r # p
    <3>1. pc[r] = "remove" /\ At(r)' = At(r)
      BY <1>3, <1>a, <2>1, Frame DEF At
    <3>2. At(r) = key /\ key \in Segs /\ state[key].inited /\ state[key].refs = 0
      BY <3>1, <1>b, <1>e DEF Shared
    <3>3. ~Remove(p)
      BY <3>1, <2>1, <1>b DEF Shared, Remove
    <3>4. state'[key].refs = 0
      <4>1. CASE At(p) # key
        BY <1>a, <3>2, <4>1, Frame
      <4>2. CASE At(p) = key
        <5>1. ~Builds(p, key)
          BY <1>a, <3>2 DEF OneBuilder
        <5>2. ~Construct(p) /\ ~CountSelf(p) /\ ~Publish(p) /\ ~Count(p)
          BY <4>2, <5>1, <1>c, <3>2 DEF Builds, Construct, CountSelf, Publish
        <5>3. ~handle[p].inited
          BY <1>a, <4>2, <3>2, UsedIsCounted
        <5> QED
          BY <1>a, <1>d, <4>2, <5>2, <5>3, <3>2, MemoryStep
      <4> QED
        BY <4>1, <4>2
    <3> QED
      BY <2>1, <3>1, <3>2, <3>3, <3>4
  <2>2. CASE r = p
    <3>1. Destroy(p) /\ handle[p].inited /\ state[At(p)].refs = 1 /\ At(p)' = At(p)
      <4>a. /\ pc \in [Procs -> Pcs] /\ local \in [Procs -> Local] /\ handle \in [Procs -> Handle]
            /\ handle[p] \in Handle
        BY <1>a DEF TypeOK
      <4> USE <1>3, <2>2, <4>a DEF Goto, Return, On
      <4>1. ASSUME NEW c \in Calls, Call(p, c) PROVE FALSE
        BY <4>1 DEF Call
      <4>2. ~OpenOrCreate(p) /\ ~OpenOnly(p) /\ ~Attach(p) /\ ~AttachFails(p)
        BY DEF OpenOrCreate, OpenOnly, OpenFailed, Attach, AttachFails
      <4>3. ~Construct(p) /\ ~CountSelf(p) /\ ~Publish(p) /\ ~Poll(p) /\ ~Count(p)
        BY DEF Construct, CountSelf, Publish, Poll, Count
      <4>4. ~Deal(p) /\ ~Take(p) /\ ~Remove(p) /\ ~Reset(p) /\ ~Crash(p)
        BY DEF Deal, Take, Remove, Reset, Crash
      <4>5. Destroy(p)
        BY <4>1, <4>2, <4>3, <4>4 DEF Moves, Step
      <4> QED
        BY <4>5 DEF Destroy, At, Handle
    <3>2. At(p) \in Segs /\ state[At(p)].inited /\ At(p) = key
      BY <1>a, <1>b, <3>1, UsedIsCounted DEF Shared
    <3>3. state'[At(p)].refs = 0
      BY <1>a, <3>1, <3>2, MemoryStep
    <3> QED
      BY <2>2, <3>1, <3>2, <3>3 DEF Destroy, Remove
  <2> QED
    BY <2>1, <2>2
\* When the key changes, nothing is left that would have to have it.
<1>4. CASE key' = key
  <2>1. \A r, q \in Procs : pc'[r] = "remove" /\ pc'[q] = "remove" => r = q
    BY <1>3, <1>b DEF Shared
  <2>2. \A r \in Procs, s \in Segs : Builds(r, s)' => s = key'
    BY <1>2, <1>4
  <2>3. \A r \in Procs : pc'[r] = "remove" => At(r)' = key' /\ state'[key'].refs = 0
    BY <1>3, <1>4
  <2>4. \A s \in Segs : state'[s].inited /\ state'[s].refs # 0 => s = key'
    BY <1>1, <1>4
  <2> QED
    BY <2>1, <2>2, <2>3, <2>4 DEF Shared
<1>5. CASE key = NoSeg /\ key' # key
  <2>1. NoSeg \notin Segs
    BY DEF Segs
  <2>2. \A s \in Segs : ~(state'[s].inited /\ state'[s].refs # 0)
    BY <1>1, <1>5, <2>1
  <2>3. \A r \in Procs : pc'[r] # "remove"
    BY <1>3, <1>5, <2>1
  <2>4. \A r \in Procs, s \in Segs : Builds(r, s)' => s = key'
    BY <1>2, <1>5, <2>1
  <2> QED
    BY <2>2, <2>3, <2>4 DEF Shared
<1>6. CASE AttachFails(p) /\ pc[p] = "attach_new" /\ key = local[p].shmid /\ key # NoSeg
  <2>1. key \in Segs /\ Builds(p, key) /\ ~state[key].inited
    BY <1>6, <1>a DEF TypeOK, Builds, OneBuilder
  <2>2. state' = state
    BY <1>6 DEF AttachFails
  <2>3. \A s \in Segs : ~(state'[s].inited /\ state'[s].refs # 0)
    BY <1>1, <2>1, <2>2
  <2>4. \A r \in Procs : pc'[r] # "remove"
    BY <1>3, <2>1
  <2>5. pc'[p] = "idle"
    BY <1>6, <1>a DEF AttachFails, Return, Goto, TypeOK
  <2>6. ASSUME NEW r \in Procs, NEW s \in Segs, Builds(r, s)' PROVE FALSE
    <3>1. Builds(r, s) /\ s = key
      BY <1>2, <1>6, <2>6
    <3>2. r = p
      BY <1>a, <2>1, <3>1 DEF OneBuilder
    <3> QED
      BY <2>5, <2>6, <3>2 DEF Builds
  <2> QED
    BY <2>3, <2>4, <2>6 DEF Shared
<1>7. CASE Remove(p)
  <2>1. At(p) = key /\ key \in Segs /\ state[key].inited /\ state[key].refs = 0
    BY <1>7, <1>b, <1>e DEF Remove, Shared
  <2>2. \A s \in Segs : ~(state'[s].inited /\ state'[s].refs # 0)
    BY <1>1, <1>7, <2>1
  <2>3. \A r \in Procs : pc'[r] # "remove"
    BY <1>3, <1>7
  <2>4. ASSUME NEW r \in Procs, NEW s \in Segs, Builds(r, s)' PROVE FALSE
    <3>1. Builds(r, s) /\ s = key
      BY <1>2, <2>1, <2>4 DEF Segs
    <3> QED
      BY <1>a, <2>1, <3>1 DEF OneBuilder
  <2> QED
    BY <2>2, <2>3, <2>4 DEF Shared
<1> QED
  BY <1>a, <1>4, <1>5, <1>6, <1>7, KeyStep

LEMMA StepInv ==
  ASSUME SegInv, [Next]_vars
  PROVE  SegInv'
<1>1. CASE Next
  <2> PICK p \in Procs : Moves(p)
    BY <1>1 DEF Next, Moves
  <2>1. TypeOK'
    BY <1>1, TypeStep DEF SegInv
  <2>2. (\A q \in Procs : HandleShape(q))'
    BY HandleStep DEF SegInv
  <2>3. Untouched' /\ OneBuilder' /\ CountsHandles'
    BY UntouchedStep, BuilderStep, CountStep DEF SegInv
  <2>4. (reopened \/ Shared)'
    BY SharedStep DEF SegInv
  <2> QED
    BY <2>1, <2>2, <2>3, <2>4 DEF SegInv
<1>2. CASE UNCHANGED vars
  <2> USE <1>2 DEF vars
  <2>1. TypeOK'
    BY DEF SegInv, TypeOK
  <2>2. (\A q \in Procs : HandleShape(q))'
    BY DEF SegInv, HandleShape, At
  <2>3. Untouched'
    BY DEF SegInv, Untouched, At
  <2>4. OneBuilder'
    BY DEF SegInv, OneBuilder, Builds, At
  <2>5. CountsHandles'
    BY DEF SegInv, CountsHandles, Counted, At
  <2>6. (reopened \/ Shared)'
    BY DEF SegInv, Shared, Builds, At
  <2> QED
    BY <2>1, <2>2, <2>3, <2>4, <2>5, <2>6 DEF SegInv
<1> QED
  BY <1>1, <1>2

-----------------------------------------------------------------------------
\* The theorems.

\* The inductive invariant holds in every behaviour of the processes of a channel.
THEOREM SegInvHolds == Spec => []SegInv
BY InitInv, StepInv, PTL DEF Spec

\* Type correctness of the segments, handles and locals of every process.
THEOREM SegmentTypes == Spec => []TypeOK
<1>1. SegInv => TypeOK
  BY DEF SegInv
<1> QED
  BY <1>1, SegInvHolds, PTL

\* IncreaseReferenceCount and DecreaseReferenceCount keep the count of an initialised
\* segment at the number of handles on it and of handles whose process crashed.
THEOREM ReferencesCounted == Spec => []CountsHandles
<1>1. SegInv => CountsHandles
  BY DEF SegInv
<1> QED
  BY <1>1, SegInvHolds, PTL

\* As long as no handle counts itself between the last DecreaseReferenceCount and Remove,
\* all initialised handles of the channel are attached to the segment that has its key.
THEOREM OneSegment == Spec => []UsersShareSegment
<1>1. ASSUME SegInv PROVE UsersShareSegment
  <2> SUFFICES ASSUME ~reopened, NEW p \in Procs, handle[p].inited PROVE At(p) = key
    BY DEF UsersShareSegment
  <2>1. At(p) \in Segs /\ state[At(p)].inited /\ state[At(p)].refs # 0
    BY <1>1, UsedIsCounted DEF SegInv
  <2> QED
    BY <1>1, <2>1 DEF SegInv, Shared
<1> QED
  BY <1>1, SegInvHolds, PTL
=============================================================================
