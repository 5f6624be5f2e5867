------------------------------- MODULE Vector -------------------------------
(***************************************************************************)
(* ConcurrentVector (base/vector.h, vector.hpp): an array of blocks that   *)
(* grows while it is read.  The blocks are listed in a table; growing      *)
(* copies the table into a larger one and swaps the pointer, and the old   *)
(* table is retired: RetireList frees it when it has been out of use for   *)
(* so long that no reader can still have it.  Readers mark nothing.        *)
(*                                                                         *)
(* Blocks have one element here: element i is block i.                     *)
(*                                                                         *)
(* A time stamp of the retire list counts units (64 s), here of UnitTicks  *)
(* ticks; a call takes at most Patience ticks.  Addresses of tables and    *)
(* list nodes are used again after they were freed, lowest first, so that  *)
(* a compare_exchange may meet an old address with a new content.          *)
(***************************************************************************)
EXTENDS Integers, Sequences, FiniteSets

CONSTANTS
  Threads,
  MaxBlocks,    \* the largest number of blocks asked for
  Addrs,        \* addresses of tables, blocks and nodes, 1 .. n
  UnitTicks,    \* ticks of the clock in one unit of the time stamp
  StampUnits,   \* the range of the time stamp, 2^16 in the code
  Blank,        \* a newly constructed element
  Patience,     \* ticks of the clock that may pass during a call
  MaxTick       \* bound on the clock

ASSUME VectorConstants ==
  /\ Addrs \subseteq Nat \ {0}
  /\ MaxBlocks \in Nat /\ UnitTicks \in Nat \ {0} /\ StampUnits \in Nat \ {0, 1}
  /\ Patience \in Nat /\ MaxTick \in Nat

VARIABLES
  cur,      \* _block_table: the address of a table, 0 for EMPTY_BLOCK_TABLE
  table,    \* table[a]: the blocks of the table at a
  tables,   \* addresses that hold a table
  blocks,   \* addresses that hold a block
  elem,     \* elem[a]: the element in the block at a
  head,     \* _head of the retire list: time stamp and first node
  node,     \* node[a]: the node at a, its data and its next
  nodes,    \* addresses that hold a node
  tick,     \* CLOCK_MONOTONIC_RAW
  pc,       \* pc[t]: where t is
  me        \* me[t]: the locals of t's call

vector == <<cur, table, tables, blocks, elem, head, node, nodes, tick, pc, me>>

Null == 0
NoNode == [data |-> Null, next |-> Null]
\* The number of blocks expected; the table in use; the table being built and the number
\* of blocks copied into it; the node and head of the retire list; the time stamp; when
\* the call began.
NoCall == [num |-> 0, tab |-> Null, new |-> Null, copied |-> 0,
           node |-> Null, head |-> [ts |-> 0, node |-> Null], ts |-> 0, since |-> 0]

Lowest(S, n) == [i \in 1 .. n |-> CHOOSE a \in S : Cardinality({b \in S : b < a}) = i - 1]
Goto(t, l) == pc' = [pc EXCEPT ![t] = l]
Set(t, r) == me' = [me EXCEPT ![t] = r]
Size(a) == Len(table[a])
SetOf(s) == {s[i] : i \in DOMAIN s}

VectorInit ==
  /\ cur = Null
  /\ table = [a \in Addrs \cup {Null} |-> <<>>]
  /\ tables = {} /\ blocks = {} /\ nodes = {}
  /\ head = [ts |-> 0, node |-> Null]
  /\ node = [a \in Addrs |-> NoNode]
  /\ elem = [a \in Addrs |-> Blank]
  /\ tick = 0
  /\ pc = [t \in Threads |-> "idle"]
  /\ me = [t \in Threads |-> NoCall]

\* get_current_timestamp: seconds in units, cut to 16 bits.
Stamp == (tick \div UnitTicks) % StampUnits

\* Mutant of Expired: one unit is enough.
ExpiredEarly(h, ts) == (ts - h.ts) % StampUnits > 0

\* expire: more than one unit apart, so that at least one whole unit has passed.
Expired(h, ts) == (ts - h.ts) % StampUnits > 1

\* Time passes while no call has been running for too long.
Tick ==
  /\ tick < MaxTick
  /\ \A t \in Threads : pc[t] # "idle" => tick - me[t].since < Patience
  /\ tick' = tick + 1
  /\ UNCHANGED <<cur, table, tables, blocks, elem, head, node, nodes, pc, me>>

-----------------------------------------------------------------------------
\* get_qualified_block_table, of reserve, ensure and reserved_snapshot.

Ensure(t, n) ==
  /\ pc[t] = "idle"
  /\ Set(t, [NoCall EXCEPT !.num = n, !.tab = cur, !.since = tick])
  /\ Goto(t, IF Size(cur) >= n THEN "got" ELSE "build")
  /\ UNCHANGED <<cur, table, tables, blocks, elem, head, node, nodes, tick>>

\* snapshot() takes whatever table there is.
Snapshot(t) ==
  /\ pc[t] = "idle"
  /\ Set(t, [NoCall EXCEPT !.tab = cur, !.since = tick])
  /\ Goto(t, "got")
  /\ UNCHANGED <<cur, table, tables, blocks, elem, head, node, nodes, tick>>

\* create_block_table: the new table, made when the call first comes to build one.
\* create_block: n new blocks.
NewTable(m) == IF m.new = Null THEN Lowest(Addrs \ tables, 1)[1] ELSE m.new
NewBlocks(n) == Lowest(Addrs \ blocks, n)

\* The old blocks are copied and the missing ones created.
Build(t) ==
  /\ pc[t] = "build"
  /\ LET m == me[t]
         a == NewTable(m)
         fresh == NewBlocks(m.num - Size(m.tab))
     IN /\ tables' = tables \cup {a}
        /\ table' = [table EXCEPT ![a] = table[m.tab] \o fresh]
        /\ blocks' = blocks \cup SetOf(fresh)
        /\ elem' = [b \in Addrs |-> IF b \in SetOf(fresh) THEN Blank ELSE elem[b]]
        /\ Set(t, [m EXCEPT !.new = a, !.copied = Size(m.tab)])
  /\ Goto(t, "swap")
  /\ UNCHANGED <<cur, head, node, nodes, tick>>

\* The blocks t created for its own table.
Own(m) == SetOf(SubSeq(table[m.new], m.copied + 1, m.num))

\* Freed memory is blank: that nobody reads it is for the properties to say.
DeleteBlocks(bs) ==
  /\ blocks' = blocks \ bs
  /\ elem' = [b \in Addrs |-> IF b \in bs THEN Blank ELSE elem[b]]

\* Mutant of Swap: a plain store instead of the compare_exchange.
SwapBlindly(t) ==
  /\ pc[t] = "swap"
  /\ cur' = me[t].new
  /\ Goto(t, "retire")
  /\ UNCHANGED <<table, tables, blocks, elem, head, node, nodes, tick, me>>

\* Mutant of Swap: the loser returns the table it has built.
SwapKeepingOwn(t) ==
  /\ pc[t] = "swap"
  /\ IF cur = me[t].tab
     THEN /\ cur' = me[t].new
          /\ Goto(t, "retire")
          /\ UNCHANGED me
     ELSE /\ Set(t, [me[t] EXCEPT !.tab = me[t].new, !.new = Null, !.copied = 0])
          /\ Goto(t, "got")
          /\ UNCHANGED cur
  /\ UNCHANGED <<table, tables, blocks, elem, head, node, nodes, tick>>

\* compare_exchange_strong on the table.  The loser deletes its blocks; it adopts the
\* other table when that is large enough, or builds again on top of it.
Swap(t) ==
  /\ pc[t] = "swap"
  /\ LET m == me[t]
     IN IF cur = m.tab
        THEN /\ cur' = m.new
             /\ Goto(t, "retire")
             /\ UNCHANGED <<table, tables, blocks, elem, me>>
        ELSE /\ DeleteBlocks(Own(m))
             /\ table' = [table EXCEPT ![m.new] = <<>>]
             /\ IF Size(cur) >= m.num
                THEN /\ tables' = tables \ {m.new}
                     /\ Set(t, [m EXCEPT !.tab = cur, !.new = Null, !.copied = 0])
                     /\ Goto(t, "got")
                ELSE /\ Set(t, [m EXCEPT !.tab = cur, !.copied = 0])
                     /\ Goto(t, "build")
                     /\ UNCHANGED tables
             /\ UNCHANGED cur
  /\ UNCHANGED <<head, node, nodes, tick>>

-----------------------------------------------------------------------------
\* RetireList.

\* delete_block_table; EMPTY_BLOCK_TABLE is not freed.
DeleteTables(old) ==
  /\ tables' = tables \ old
  /\ table' = [b \in DOMAIN table |-> IF b \in old THEN <<>> ELSE table[b]]

\* delete_list from node a on: the tables and the nodes.
ListFrom(a) ==
  LET link[n \in Addrs \cup {Null}] == IF n = Null THEN {} ELSE {n} \cup link[node[n].next]
  IN link[a]
TablesOf(a) == {node[n].data : n \in ListFrom(a)}
DeleteNodes(a) ==
  /\ nodes' = nodes \ ListFrom(a)
  /\ node' = [n \in Addrs |-> IF n \in ListFrom(a) THEN NoNode ELSE node[n]]
DeleteList(a) == DeleteTables(TablesOf(a)) /\ DeleteNodes(a)

\* The call that grew the vector goes on with its new table.
Retired(t) ==
  /\ Set(t, [me[t] EXCEPT !.tab = me[t].new, !.new = Null, !.copied = 0,
                          !.node = Null, !.head = NoCall.head, !.ts = 0])
  /\ Goto(t, "got")

\* retire: a node for the old table; the head, then the clock.
Retire(t) ==
  /\ pc[t] = "retire"
  /\ LET a == Lowest(Addrs \ nodes, 1)[1]
     IN /\ nodes' = nodes \cup {a}
        /\ node' = [node EXCEPT ![a] = [data |-> me[t].tab, next |-> Null]]
        /\ Set(t, [me[t] EXCEPT !.node = a, !.head = head])
  /\ Goto(t, "stamp")
  /\ UNCHANGED <<cur, table, tables, blocks, elem, head, tick>>

ReadClock(t) ==
  /\ pc[t] = "stamp"
  /\ Set(t, [me[t] EXCEPT !.ts = Stamp])
  /\ IF Expired(me[t].head, Stamp)
     THEN Goto(t, "replace") /\ UNCHANGED node
     ELSE /\ Goto(t, "push")
          /\ node' = [node EXCEPT ![me[t].node].next = me[t].head.node]
  /\ UNCHANGED <<cur, table, tables, blocks, elem, head, nodes, tick>>

\* The whole list has expired: the new node takes its place and the list is deleted.
ReplaceList(t) ==
  /\ pc[t] = "replace"
  /\ LET m == me[t]
     IN IF head = m.head
        THEN /\ head' = [ts |-> m.ts, node |-> m.node]
             /\ DeleteList(m.head.node)
             /\ Retired(t)
        ELSE /\ Set(t, [m EXCEPT !.head = head])
             /\ node' = [node EXCEPT ![m.node].next = head.node]
             /\ Goto(t, "push")
             /\ UNCHANGED <<head, table, tables, nodes>>
  /\ UNCHANGED <<cur, blocks, elem, tick>>

\* compare_exchange_weak until the node is in front.
Push(t) ==
  /\ pc[t] = "push"
  /\ LET m == me[t]
     IN IF head = m.head
        THEN /\ head' = [ts |-> m.ts, node |-> m.node]
             /\ Retired(t)
             /\ UNCHANGED node
        ELSE /\ Set(t, [m EXCEPT !.head = head])
             /\ node' = [node EXCEPT ![m.node].next = head.node]
             /\ UNCHANGED <<head, pc>>
  /\ UNCHANGED <<cur, table, tables, blocks, elem, nodes, tick>>

\* gc: the list is deleted when it has expired.  With an empty list it changes nothing.
Gc(t) ==
  /\ pc[t] = "idle" /\ head.node # Null
  /\ Set(t, [NoCall EXCEPT !.head = head, !.since = tick])
  /\ Goto(t, "gcstamp")
  /\ UNCHANGED <<cur, table, tables, blocks, elem, head, node, nodes, tick>>

GcStamp(t) ==
  /\ pc[t] = "gcstamp"
  /\ IF Expired(me[t].head, Stamp)
     THEN Goto(t, "gcswap") /\ UNCHANGED me
     ELSE Goto(t, "idle") /\ Set(t, NoCall)
  /\ UNCHANGED <<cur, table, tables, blocks, elem, head, node, nodes, tick>>

GcSwap(t) ==
  /\ pc[t] = "gcswap"
  /\ IF head = me[t].head
     THEN head' = [ts |-> 0, node |-> Null] /\ DeleteList(me[t].head.node)
     ELSE UNCHANGED <<head, table, tables, node, nodes>>
  /\ Set(t, NoCall)
  /\ Goto(t, "idle")
  /\ UNCHANGED <<cur, blocks, elem, tick>>

\* unsafe_gc: the list is deleted whether it has expired or not.
UnsafeGc ==
  /\ head' = [ts |-> 0, node |-> Null]
  /\ DeleteNodes(head.node)

\* ~ConcurrentVector, when no call is left: the blocks, the table, then the retired ones.
Destroy ==
  /\ \A t \in Threads : pc[t] = "idle"
  /\ DeleteBlocks(SetOf(table[cur]))
  /\ DeleteTables({cur} \cup TablesOf(head.node))
  /\ UnsafeGc
  /\ cur' = Null
  /\ pc' = [t \in Threads |-> "gone"]
  /\ UNCHANGED <<tick, me>>

Gone == \A t \in Threads : pc[t] = "gone"

VectorStep(t) ==
  \/ Build(t) \/ Swap(t)
  \/ Retire(t) \/ ReadClock(t) \/ ReplaceList(t) \/ Push(t) \/ GcStamp(t) \/ GcSwap(t)
=============================================================================
