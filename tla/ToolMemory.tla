----------------------------- MODULE ToolMemory -----------------------------
(***************************************************************************)
(* The tool call text memory of ds4-server (tool_memory in ds4_server.c):  *)
(* for every generated tool call, the DSML block the model sampled, found  *)
(* by the call's id when the client sends the call back as JSON.           *)
(*                                                                         *)
(* The memory is a value, as the session table is: the operators take one  *)
(* and return what the C functions leave behind.  Each of them runs under  *)
(* tool_mu, so KvDiskCache.tla takes each in one step; the pairs of a tool *)
(* map are put under a lock of their own each, so in a step each.          *)
(*                                                                         *)
(* Abstraction.  An id and a block stand for their bytes.  The two radix   *)
(* trees are functions: `by_id' gives an entry, `refs' the references to a *)
(* block (0: not there).  `lru' is the linked list from head to tail.  The *)
(* list of a block's entries is derived: EntriesOf.                        *)
(***************************************************************************)
EXTENDS Integers, SequencesExt

CONSTANTS
    Ids,         \* tool call ids
    Dsml,        \* DSML blocks
    MaxEntries,  \* --tool-memory-max-ids
    MaxBytes,    \* DS4_TOOL_MEMORY_MAX_BYTES
    EntryBytes,  \* the bytes accounted for an entry
    BlockBytes   \* the bytes accounted for each block

ASSUME ToolMemoryAssumption ==
    /\ MaxEntries \in Nat \ {0} /\ MaxBytes \in Nat /\ EntryBytes \in Nat \ {0}
    /\ BlockBytes \in [Dsml -> Nat \ {0}]

EmptyMemory ==
    [by_id |-> [i \in {} |-> {}], lru |-> <<>>, refs |-> [d \in Dsml |-> 0],
     entries |-> 0, bytes |-> 0]

\* tool_memory_find_entry_locked
Knows(m, i) == i \in DOMAIN m.by_id

EntriesOf(m, d) == {i \in DOMAIN m.by_id : m.by_id[i].block = d}

\* tool_memory_link_head, and tool_memory_unlink before it if it was linked.
AtHead(lru, i) == <<i>> \o RemoveFirst(lru, i)

tool_memory_touch(m, i) == [m EXCEPT !.lru = AtHead(@, i)]

\* Mutant: the last reference goes and the block's bytes stay accounted for.
ReleaseWithoutBytes(m, d) == [m EXCEPT !.refs[d] = @ - 1]

\* tool_memory_release_block_locked: the last reference frees the block.
tool_memory_release_block(m, d) ==
    [m EXCEPT !.refs[d] = @ - 1,
              !.bytes = IF m.refs[d] > 1 THEN @
                        ELSE IF @ >= BlockBytes[d] THEN @ - BlockBytes[d] ELSE 0]

tool_memory_remove_entry(m, i) ==
    tool_memory_release_block(
        [m EXCEPT !.by_id = [j \in DOMAIN @ \ {i} |-> @[j]],
                  !.lru = RemoveFirst(@, i),
                  !.bytes = IF @ >= EntryBytes THEN @ - EntryBytes ELSE 0,
                  !.entries = IF @ > 0 THEN @ - 1 ELSE 0],
        m.by_id[i].block)

OverLimit(m) == (m.entries > MaxEntries \/ m.bytes > MaxBytes) /\ m.lru # <<>>

\* tool_memory_prune_locked: drop the tail until the limits hold.
tool_memory_prune(m) ==
    LET dropped[n \in 0 .. Len(m.lru)] ==
            IF n = 0 THEN m
            ELSE tool_memory_remove_entry(dropped[n - 1], Last(dropped[n - 1].lru))
    IN  dropped[Min({n \in 0 .. Len(m.lru) : ~ OverLimit(dropped[n])})]

\* A new entry at the head, holding one reference to its block.
Inserted(m, i, d, source) ==
    [m EXCEPT !.by_id = [j \in DOMAIN @ \cup {i} |->
                            IF j = i THEN [block |-> d, source |-> source] ELSE @[j]],
              !.lru = <<i>> \o @,
              !.refs[d] = @ + 1,
              !.entries = @ + 1,
              !.bytes = @ + EntryBytes + IF m.refs[d] = 0 THEN BlockBytes[d] ELSE 0]

\* tool_memory_put_locked.  A known id with the same block is only touched,
\* and becomes a RAM entry when the model sampled it in this process.
tool_memory_put(m, i, d, source) ==
    LET same  == Knows(m, i) /\ m.by_id[i].block = d
        fresh == IF Knows(m, i) THEN tool_memory_remove_entry(m, i) ELSE m
    IN  tool_memory_prune(
            IF same
            THEN tool_memory_touch(
                     IF source = "ram" THEN [m EXCEPT !.by_id[i].source = "ram"] ELSE m, i)
            ELSE Inserted(fresh, i, d, source))

\* tool_memory_remember: all calls of one turn share the sampled block.
tool_memory_remember(m, ids, d) ==
    LET after[n \in 0 .. Len(ids)] ==
            IF n = 0 THEN m ELSE tool_memory_put(after[n - 1], ids[n], d, "ram")
    IN  after[Len(ids)]

\* tool_memory_attach_to_messages for one message: every known id is touched.
AttachTouches(m, ids) ==
    LET after[n \in 0 .. Len(ids)] ==
            IF n = 0 THEN m
            ELSE IF Knows(after[n - 1], ids[n]) THEN tool_memory_touch(after[n - 1], ids[n])
            ELSE after[n - 1]
    IN  after[Len(ids)]

\* Mutant: the message takes the first block found, whatever the others are.
AttachFirst(m, ids) ==
    {m.by_id[i].block : i \in {j \in ToSet(ids) : Knows(m, j)}}

\* The blocks replayed for a message: one if all its ids have it, else none.
Attached(m, ids) ==
    {d \in Dsml : \A i \in ToSet(ids) : Knows(m, i) /\ m.by_id[i].block = d}

(***************************************************************************)
(* What the redundant parts of the memory owe each other.                  *)
(***************************************************************************)
Consistent(m) ==
    /\ ToSet(m.lru) = DOMAIN m.by_id
    /\ Len(m.lru) = Cardinality(DOMAIN m.by_id)
    /\ m.entries = Len(m.lru)
    /\ \A d \in Dsml : m.refs[d] = Cardinality(EntriesOf(m, d))
    /\ m.bytes = EntryBytes * m.entries
                 + SumFunctionOnSet(BlockBytes, {d \in Dsml : m.refs[d] > 0})
=============================================================================
