---------------------------- MODULE KvDiskCache ----------------------------
(***************************************************************************)
(* The disk cache of session checkpoints in ds4-server (ds4_server.c, "KV  *)
(* Cache"), with the tool call memory whose entries it saves and restores. *)
(*                                                                         *)
(* Only the worker thread writes the directory: it stores, rewrites tool   *)
(* maps, evicts and loads.  A client thread that parses a request reads    *)
(* the tool maps of all files meanwhile.  The process can die between any  *)
(* two system calls; the next one may run with another context size or     *)
(* model and finds the directory as it was left.                           *)
(*                                                                         *)
(* Abstraction.  A text is a sequence of symbols, some of them DSML blocks;*)
(* the file name is its SHA-1, taken to be collision free, so files are    *)
(* indexed by text.  Temporary files are only ever seen by the call that   *)
(* writes them (sha_hex_name skips their names).  A tool map is a set of   *)
(* pairs.  Time only decays the hit bonus of an eviction score, so there is*)
(* no clock: an eviction sees any decayed value (at whole numbers).        *)
(***************************************************************************)
EXTENDS ToolMemory

CONSTANTS
    Texts,       \* the texts under which checkpoints are stored
    Prompts,     \* the rendered prompts that are looked up
    TokensOf,    \* tokens in the payload stored under a text
    BodyBytes,   \* bytes of header, text and payload
    MapHeader,   \* KV_TOOL_MAP_HEADER
    PairBytes,   \* bytes of one pair of a tool map
    Budget,      \* --kv-disk-space-mb
    MinTokens,   \* --kv-cache-min-tokens
    ColdMax,     \* --kv-cache-cold-max-tokens
    Servers,     \* the configurations a process may run with: [ctx, quant]
    RejectDifferentQuant,  \* --kv-cache-reject-different-quant
    MaxHits, MaxCrashes, MaxFaults   \* bounds of the model

ASSUME CacheAssumption ==
    /\ TokensOf \in [Texts -> Nat \ {0}]
    /\ BodyBytes \in [Texts -> Nat \ {0}]
    /\ {MapHeader, PairBytes, Budget, MinTokens, ColdMax} \subseteq Nat
    /\ {MaxHits, MaxCrashes, MaxFaults} \subseteq Nat
    /\ Servers \subseteq [ctx : Nat, quant : {2, 4}]
    /\ RejectDifferentQuant \in BOOLEAN

VARIABLES
    dir,      \* the checkpoint files, by text
    mem,      \* s->tool_mem
    server,   \* the running configuration
    phase,    \* where the worker is in a cache operation
    key,      \* the text it stores or loads
    asked,    \* the prompt it looked up
    tmp,      \* the file it is writing
    pairs,    \* the pairs of a tool map it has read and not yet put
    list,     \* kc->entry during eviction: sizes and scores are read from it
    total,    \* the bytes it still counts
    protect,  \* protected_sha
    reader,   \* the client thread: the ids it wants, the files left to read,
              \* the pairs it has read and not yet put
    sampled,  \* ghost: the block sampled for each id
    crashes, faults

evictVars == <<list, total, protect>>
workerVars == <<phase, key, asked, tmp, pairs, evictVars>>
counters == <<crashes, faults>>
vars == <<dir, mem, server, workerVars, reader, sampled, counters>>

NoText == <<>>
NoFiles == [k \in {} |-> {}]
NoReader == [wanted |-> <<>>, todo |-> {}, pairs |-> <<>>]

(***************************************************************************)
(* Files.  `body' says that header, text and payload are complete; `flag'  *)
(* is KV_EXT_TOOL_MAP.                                                     *)
(***************************************************************************)
NewFile(flag) ==
    [ctx |-> server.ctx, quant |-> server.quant, hits |-> 0, flag |-> flag,
     map |-> {}, body |-> FALSE]

MapBytes(map) ==
    IF map = {} THEN 0 ELSE MapHeader + PairBytes * Cardinality(map)

FileBytes(k, f) == BodyBytes[k] + MapBytes(f.map)

Without(k) == [j \in DOMAIN dir \ {k} |-> dir[j]]

With(k, f) == [j \in DOMAIN dir \cup {k} |-> IF j = k THEN f ELSE dir[j]]

\* kv_read_entry_file: what kv_cache_refresh lists.
Readable == {k \in DOMAIN dir : dir[k].body}

\* A file the running server can load.
Usable(f) ==
    /\ f.ctx <= server.ctx
    /\ RejectDifferentQuant => f.quant = server.quant

\* kv_tool_map_measure_locked: the entries of the blocks in the text.
MapOf(t) == {p \in Ids \X (Dsml \cap ToSet(t)) : p[1] \in EntriesOf(mem, p[2])}

\* kv_cache_file_size_fits: with one percent headroom, rounded up.
Fits(t, map) ==
    LET bytes == BodyBytes[t] + MapBytes(map)
    IN  bytes + ((bytes + 99) \div 100) <= Budget

Finish ==
    /\ phase' = "idle"
    /\ key' = NoText
    /\ asked' = NoText
    /\ tmp' = {}
    /\ UNCHANGED pairs

(***************************************************************************)
(* kv_cache_store_live_prefix_text.                                        *)
(***************************************************************************)
\* Mutant: the test for a file of a larger context is the wrong way round.
CompatibleReversed(t) ==
    t \in Readable /\ server.ctx <= dir[t].ctx
                   /\ (RejectDifferentQuant => dir[t].quant = server.quant)

\* kv_cache_existing_compatible: a readable file that this server cannot use
\* is unlinked, to be replaced.
Compatible(t) == t \in Readable /\ Usable(dir[t])

Store(t) ==
    /\ phase = "idle"
    /\ TokensOf[t] >= MinTokens
    /\ \A d \in ToSet(t) \cap Dsml : \E i \in DOMAIN sampled : sampled[i] = d
    /\ Fits(t, MapOf(t))
    /\ key' = t
    /\ IF Compatible(t)
       THEN /\ MapOf(t) # {}
            /\ phase' = "truncate"
            /\ UNCHANGED <<dir, tmp>>
       ELSE /\ phase' = "write"
            /\ tmp' = {NewFile(MapOf(t) # {})}
            /\ dir' = IF t \in Readable THEN Without(t) ELSE dir
    /\ UNCHANGED <<mem, server, asked, pairs, evictVars, reader, sampled, counters>>

\* Mutant: a failed write is not noticed.
WriteFailsUnnoticed ==
    /\ phase = "write"
    /\ faults < MaxFaults
    /\ faults' = faults + 1
    /\ phase' = "rename"
    /\ UNCHANGED <<dir, mem, server, key, asked, tmp, pairs, evictVars, reader, sampled,
                   crashes>>

\* The disk is full, or the file cannot be renamed: unlink(tmp).
WriteFails ==
    /\ phase \in {"write", "rename"}
    /\ faults < MaxFaults
    /\ faults' = faults + 1
    /\ Finish
    /\ UNCHANGED <<dir, mem, server, evictVars, reader, sampled, crashes>>

\* The temporary file: header, text, ds4_session_save_payload, the tool map,
\* which is measured again, fclose, and the final size check.
WriteFile ==
    /\ phase = "write"
    /\ IF Fits(key, MapOf(key))
       THEN /\ phase' = "rename"
            /\ tmp' = {[f EXCEPT !.body = TRUE, !.map = MapOf(key)] : f \in tmp}
            /\ UNCHANGED <<key, asked, pairs>>
       ELSE Finish
    /\ UNCHANGED <<dir, mem, server, evictVars, reader, sampled, counters>>

Rename ==
    /\ phase = "rename"
    /\ \E f \in tmp : dir' = With(key, f)
    /\ phase' = "scan"
    /\ protect' = {key}
    /\ tmp' = {}
    /\ UNCHANGED <<mem, server, key, asked, pairs, list, total, reader, sampled,
                   counters>>

(***************************************************************************)
(* kv_cache_rewrite_tool_map: in place, in a file that is already there.   *)
(***************************************************************************)
Truncate ==
    /\ phase = "truncate"
    /\ dir' = [dir EXCEPT ![key].map = {}]
    /\ phase' = "remap"
    /\ UNCHANGED <<mem, server, key, asked, tmp, pairs, evictVars, reader, sampled,
                   counters>>

Remap ==
    /\ phase = "remap"
    /\ dir' = [dir EXCEPT ![key].map = MapOf(key)]
    /\ IF MapOf(key) # {}
       THEN phase' = "flag" /\ UNCHANGED <<key, asked, tmp, pairs>>
       ELSE Finish
    /\ UNCHANGED <<mem, server, evictVars, reader, sampled, counters>>

\* The map is cut short; the reader takes the pairs that are there.
RemapFails ==
    /\ phase = "remap"
    /\ faults < MaxFaults
    /\ faults' = faults + 1
    /\ \E part \in SUBSET MapOf(key) : dir' = [dir EXCEPT ![key].map = part]
    /\ Finish
    /\ UNCHANGED <<mem, server, evictVars, reader, sampled, crashes>>

Flag ==
    /\ phase = "flag"
    /\ dir' = [dir EXCEPT ![key].flag = TRUE]
    /\ Finish
    /\ UNCHANGED <<mem, server, evictVars, reader, sampled, counters>>

(***************************************************************************)
(* kv_cache_evict: after a store with the new file protected, at start-up  *)
(* without.  A file too large for the budget is not worth protecting.      *)
(***************************************************************************)
CacheBytes == SumFunction([k \in Readable |-> FileBytes(k, dir[k])])

\* Mutant: the sizes are taken from the headers, without the tool maps.
ScanHeaders ==
    /\ phase = "scan"
    /\ list' = [k \in Readable |-> dir[k]]
    /\ total' = SumFunctionOnSet(BodyBytes, Readable)
    /\ protect' = protect \cap Readable
    /\ phase' = "evict"
    /\ UNCHANGED <<dir, mem, server, key, asked, tmp, pairs, reader, sampled, counters>>

Scan ==
    /\ phase = "scan"
    /\ list' = [k \in Readable |-> dir[k]]
    /\ total' = CacheBytes
    /\ protect' = {k \in protect \cap Readable : FileBytes(k, dir[k]) <= Budget}
    /\ phase' = "evict"
    /\ UNCHANGED <<dir, mem, server, key, asked, tmp, pairs, reader, sampled, counters>>

\* kv_entry_eviction_score, (effective_hits + 1) * tokens / file_size: is the
\* score of k below that of j?  Compared by cross-multiplication; `hits' are
\* the effective hits.
ScoresLess(k, j, hits) ==
    (hits[k] + 1) * TokensOf[k] * FileBytes(j, list[j]) <
        (hits[j] + 1) * TokensOf[j] * FileBytes(k, list[k])

\* Mutant: the file just stored has no protected score.
VictimsUnprotected(hits) ==
    {k \in DOMAIN list : \A j \in DOMAIN list : ~ ScoresLess(j, k, hits)}

\* The files with the least score; the protected one scores DBL_MAX.  Ties are
\* broken by last use and directory order, so by anything.
Victims(hits) ==
    LET open == IF DOMAIN list = protect THEN protect ELSE DOMAIN list \ protect
    IN  {k \in open : \A j \in open : ~ ScoresLess(j, k, hits)}

\* Hits halve with every half-life that a file is not used.
Decayed == {hits \in [DOMAIN list -> 0 .. MaxHits] :
               \A k \in DOMAIN list : hits[k] <= list[k].hits}

Evict ==
    /\ phase = "evict"
    /\ total > Budget
    /\ \E hits \in Decayed : \E k \in Victims(hits) :
          LET bytes == FileBytes(k, list[k])
          IN  /\ dir' = Without(k)
              /\ total' = IF total >= bytes THEN total - bytes ELSE 0
              /\ list' = [j \in DOMAIN list \ {k} |-> list[j]]
    /\ UNCHANGED <<mem, server, phase, key, asked, tmp, pairs, protect, reader, sampled,
                   counters>>

\* unlink fails: give up by pretending there is nothing left to free.
UnlinkFails ==
    /\ phase = "evict"
    /\ total > Budget
    /\ faults < MaxFaults
    /\ faults' = faults + 1
    /\ \E hits \in Decayed : \E k \in Victims(hits) :
          list' = [j \in DOMAIN list \ {k} |-> list[j]]
    /\ total' = 0
    /\ UNCHANGED <<dir, mem, server, phase, key, asked, tmp, pairs, protect, reader, sampled,
                   crashes>>

EvictDone ==
    /\ phase = "evict"
    /\ total <= Budget \/ DOMAIN list = {}
    /\ Finish
    /\ list' = NoFiles
    /\ total' = 0
    /\ protect' = {}
    /\ UNCHANGED <<dir, mem, server, reader, sampled, counters>>

(***************************************************************************)
(* kv_cache_try_load_text.                                                 *)
(***************************************************************************)
Candidates(p) ==
    {k \in Readable : IsPrefix(k, p) /\ TokensOf[k] >= MinTokens /\ Usable(dir[k])}

\* kv_cache_find_text_prefix: the longest text.
kv_cache_find_text_prefix(p) ==
    {k \in Candidates(p) : \A j \in Candidates(p) : Len(j) <= Len(k)}

\* kv_tool_map_load_from_pos refuses a map with too many pairs.
LoadableMap(f) ==
    IF f.flag /\ Cardinality(f.map) <= 4 * MaxEntries THEN f.map ELSE {}

Load(p) ==
    /\ phase = "idle"
    /\ \E k \in kv_cache_find_text_prefix(p) :
          /\ dir[k].hits < MaxHits
          /\ pairs' \in SetToSeqs(LoadableMap(dir[k]))
          /\ key' = k
    /\ asked' = p
    /\ phase' = "touch"
    /\ UNCHANGED <<dir, mem, server, tmp, evictVars, reader, sampled, counters>>

\* kv_tool_map_load_from_pos, one pair.
LoadPair ==
    /\ phase = "touch"
    /\ pairs # <<>>
    /\ mem' = tool_memory_put(mem, Head(pairs)[1], Head(pairs)[2], "disk")
    /\ pairs' = Tail(pairs)
    /\ UNCHANGED <<dir, server, phase, key, asked, tmp, evictVars, reader, sampled,
                   counters>>

\* A long checkpoint is consumed, another one has its hit counted.
Touch ==
    /\ phase = "touch"
    /\ pairs = <<>>
    /\ dir' = IF ColdMax > 0 /\ TokensOf[key] > ColdMax
              THEN Without(key)
              ELSE [dir EXCEPT ![key].hits = @ + 1]
    /\ Finish
    /\ UNCHANGED <<mem, server, evictVars, reader, sampled, counters>>

\* The payload does not hold the tokens of the header: the file is discarded.
LoadCorrupt(p) ==
    /\ phase = "idle"
    /\ faults < MaxFaults
    /\ faults' = faults + 1
    /\ \E k \in kv_cache_find_text_prefix(p) : dir' = Without(k)
    /\ UNCHANGED <<mem, server, workerVars, reader, sampled, crashes>>

(***************************************************************************)
(* Tool calls: the model samples a block, the worker assigns ids that are  *)
(* not in the memory (random, so new) and remembers it.                    *)
(***************************************************************************)
Generate(ids, d) ==
    /\ phase = "idle"
    /\ ToSet(ids) \cap (DOMAIN sampled \cup DOMAIN mem.by_id) = {}
    /\ mem' = tool_memory_remember(mem, ids, d)
    /\ sampled' = [i \in DOMAIN sampled \cup ToSet(ids) |->
                     IF i \in ToSet(ids) THEN d ELSE sampled[i]]
    /\ UNCHANGED <<dir, server, workerVars, reader, counters>>

(***************************************************************************)
(* A client thread: kv_cache_restore_tool_memory_for_messages over the     *)
(* files of the directory, one at a time and in any order, then            *)
(* tool_memory_attach_to_messages.                                         *)
(***************************************************************************)
StartRestore(ids) ==
    /\ phase # "down"
    /\ reader = NoReader
    /\ ToSet(ids) \subseteq DOMAIN sampled
    /\ reader' = [NoReader EXCEPT !.wanted = ids, !.todo = DOMAIN dir]
    /\ UNCHANGED <<dir, mem, server, workerVars, sampled, counters>>

RestoreFrom(k) ==
    /\ k \in reader.todo
    /\ reader.pairs = <<>>
    /\ LET wanted == IF k \in DOMAIN dir
                     THEN {p \in LoadableMap(dir[k]) : p[1] \in ToSet(reader.wanted)}
                     ELSE {}
       IN  \E order \in SetToSeqs(wanted) :
               reader' = [reader EXCEPT !.todo = @ \ {k}, !.pairs = order]
    /\ UNCHANGED <<dir, mem, server, workerVars, sampled, counters>>

RestorePair ==
    /\ reader.pairs # <<>>
    /\ LET p == Head(reader.pairs)
       IN  mem' = tool_memory_put(mem, p[1], p[2], "disk")
    /\ reader' = [reader EXCEPT !.pairs = Tail(@)]
    /\ UNCHANGED <<dir, server, workerVars, sampled, counters>>

tool_memory_attach_to_messages ==
    /\ reader # NoReader
    /\ reader.todo = {} /\ reader.pairs = <<>>
    /\ mem' = AttachTouches(mem, reader.wanted)
    /\ reader' = NoReader
    /\ UNCHANGED <<dir, server, workerVars, sampled, counters>>

(***************************************************************************)
(* The process dies and another one opens the directory (kv_cache_open).   *)
(***************************************************************************)
Crash ==
    /\ phase # "down"
    /\ crashes < MaxCrashes
    /\ crashes' = crashes + 1
    /\ phase' = "down"
    /\ key' = NoText
    /\ asked' = NoText
    /\ tmp' = {}
    /\ pairs' = <<>>
    /\ list' = NoFiles
    /\ total' = 0
    /\ protect' = {}
    /\ mem' = EmptyMemory
    /\ reader' = NoReader
    /\ UNCHANGED <<dir, server, sampled, faults>>

kv_cache_open ==
    /\ phase = "down"
    /\ server' \in Servers
    /\ phase' = "scan"
    /\ UNCHANGED <<dir, mem, key, asked, tmp, pairs, evictVars, reader, sampled,
                   counters>>

Init ==
    /\ dir = NoFiles
    /\ mem = EmptyMemory
    /\ server \in Servers
    /\ phase = "idle"
    /\ key = NoText
    /\ asked = NoText
    /\ tmp = {}
    /\ pairs = <<>>
    /\ list = NoFiles
    /\ total = 0
    /\ protect = {}
    /\ reader = NoReader
    /\ sampled = [i \in {} |-> {}]
    /\ crashes = 0 /\ faults = 0

\* The ids of one turn, in the order of its calls.
Calls == {<<i>> : i \in Ids} \cup {p \in Ids \X Ids : p[1] # p[2]}

Next ==
    \/ \E t \in Texts : Store(t)
    \/ WriteFile \/ WriteFails \/ Rename
    \/ Truncate \/ Remap \/ RemapFails \/ Flag
    \/ Scan \/ Evict \/ UnlinkFails \/ EvictDone
    \/ \E p \in Prompts : Load(p)
    \/ \E p \in Prompts : LoadCorrupt(p)
    \/ LoadPair \/ Touch
    \/ \E ids \in Calls, d \in Dsml : Generate(ids, d)
    \/ \E ids \in Calls : StartRestore(ids)
    \/ \E k \in Texts : RestoreFrom(k)
    \/ RestorePair
    \/ tool_memory_attach_to_messages
    \/ Crash \/ kv_cache_open

Spec == Init /\ [][Next]_vars
-----------------------------------------------------------------------------
Phases == {"idle", "write", "rename", "truncate", "remap", "flag",
           "scan", "evict", "touch", "down"}

FileType ==
    [ctx : Nat, quant : {2, 4}, hits : 0 .. MaxHits, flag : BOOLEAN,
     map : SUBSET (Ids \X Dsml), body : BOOLEAN]

\* Every variable has its type, and the memory is within its limits.
TypeOK ==
    /\ \A k \in DOMAIN dir : k \in Texts /\ dir[k] \in FileType
    /\ DOMAIN mem.by_id \subseteq Ids
    /\ mem.entries \in 0 .. MaxEntries
    /\ mem.bytes \in 0 .. MaxBytes
    /\ server \in Servers
    /\ phase \in Phases
    /\ key \in Texts \cup {NoText}
    /\ tmp \subseteq FileType /\ Cardinality(tmp) <= 1
    /\ DOMAIN list \subseteq DOMAIN dir
    /\ total \in Nat
    /\ protect \subseteq Texts

\* The counters, the reference counts, the LRU list and the two trees of the
\* tool memory agree after any mixture of remembering, restoring from disk,
\* replacing, touching and pruning (tool_memory_put_locked and below), and
\* the memory stays within its limits.
MemoryConsistent == TypeOK /\ Consistent(mem)

\* Whatever is replayed for a message is the block the model sampled for each
\* of its calls, wherever the entries come from: this process, a file written
\* by another one, or a map that was being rewritten when it was read.
ReplaysWhatWasSampled ==
    \A i, j \in DOMAIN sampled : \A d \in Attached(mem, <<i, j>>) :
        sampled[i] = d /\ sampled[j] = d

\* A process that dies or fails at any point of a store leaves no incomplete
\* checkpoint under a final name (temporary file and rename), and no tool map
\* that is untrue or about another text, also when a rewrite was cut short: "We
\* persist only mappings whose DSML block appears in the saved cache text"
\* (ds4_server.c:8188).
CheckpointsAreComplete ==
    \A k \in DOMAIN dir :
        /\ dir[k].body
        /\ \A p \in dir[k].map :
              p[2] \in ToSet(k) /\ p[1] \in DOMAIN sampled /\ sampled[p[1]] = p[2]

\* When an eviction ends without an I/O fault, the directory fits the budget:
\* the running total that decides when to stop is the size of the files that
\* are there, their tool maps included (kv_cache_evict).
EvictionReachesBudget ==
    [][phase = "evict" /\ phase' = "idle" /\ faults = 0 => CacheBytes <= Budget]_vars

\* "Without a protected score, a full cache can choose that brand-new zero-hit
\* file" (ds4_server.c:8813): the eviction a store runs never deletes what was
\* just stored.
StoreKeepsItsCheckpoint ==
    [][phase = "evict" /\ protect # {} => protect \subseteq DOMAIN dir']_vars

\* A checkpoint that the running server can load goes away only by eviction,
\* by being consumed, or because it is corrupt: never because a store of the
\* same text began and failed (kv_cache_existing_compatible).
UsableCheckpointsStay ==
    [][\A k \in Readable \ DOMAIN dir' :
           Usable(dir[k]) => phase \in {"evict", "touch"} \/ faults' > faults]_vars

=============================================================================
