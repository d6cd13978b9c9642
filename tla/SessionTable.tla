---------------------------- MODULE SessionTable ----------------------------
(***************************************************************************)
(* The session table of the TP/EP HTTP appliance (TpEpHttpSessionTable in  *)
(* appliance/request_scheduler.cu): a fixed array of resident KV slots,    *)
(* each owned by at most one cache key, with LRU eviction.                 *)
(*                                                                         *)
(* The table is a value: the operators below take a table and return what  *)
(* the C++ methods return or leave behind.  ApplianceServer.tla keeps the  *)
(* table in a variable and calls them in the order the request loop does.  *)
(*                                                                         *)
(* Abstraction.  A prompt stands for its token ids and for the fingerprint *)
(* of those ids: the 64-bit FNV-1a hash is taken to be collision free.     *)
(* NoPrompt is a request without prompt text or prompt tokens, an unknown  *)
(* fingerprint and an empty token-id vector.  kv_valid and hc_valid are    *)
(* only ever assigned together, so one field `valid' stands for both.      *)
(***************************************************************************)
EXTENDS Integers, FiniteSets

CONSTANTS
    NSlots,     \* --slots: the number of resident KV slots
    BasePos,    \* --position: the position a fresh session starts from
    Ctx,        \* the context window (262144 in the code)
    Prompts,    \* the prompts clients send
    NoPrompt,   \* no prompt in the request
    PromptLen   \* the number of token ids of each prompt

ASSUME SlotsAssumption == NSlots \in Nat \ {0}

ASSUME PositionAssumption == BasePos \in Nat /\ Ctx \in Nat

ASSUME PromptAssumption ==
    /\ NoPrompt \notin Prompts
    /\ PromptLen \in [Prompts -> Nat \ {0}]

Slots == 0 .. NSlots - 1

NoSlot == -1

AnyPrompt == Prompts \cup {NoPrompt}

(***************************************************************************)
(* A slot.  `key' is meaningful once the slot is occupied.  `fp' is the    *)
(* prompt fingerprint (NoPrompt: not known), `prompt' the prompt_token_ids *)
(* the resident state was last rebuilt from.                               *)
(***************************************************************************)
FreeSlot ==
    [occupied |-> FALSE, valid |-> FALSE, key |-> <<>>, fp |-> NoPrompt,
     prompt |-> NoPrompt, pos |-> 0, prompt_tokens |-> 0,
     generated_tokens |-> 0, last_used |-> 0]

\* The slots whose cache keys come from the set K.
SlotType(K) ==
    [occupied : BOOLEAN, valid : BOOLEAN, key : K \cup {<<>>},
     fp : AnyPrompt, prompt : AnyPrompt, pos : Nat, prompt_tokens : Nat,
     generated_tokens : Nat, last_used : Nat]

\* TpEpHttpSessionTable::init
EmptyTable == [s \in Slots |-> FreeSlot]

\* The least element of a non-empty set of naturals: the slot that a loop
\* over the slots in id order meets first.
Least(S) == CHOOSE m \in S : \A n \in S : m <= n

\* Mutant: only valid slots are searched, so a session whose batch failed is
\* given a second slot.
HoldsKeyIfValid(t, s, key) == t[s].occupied /\ t[s].valid /\ t[s].key = key

HoldsKey(t, s, key) == t[s].occupied /\ t[s].key = key

find(t, key) ==
    LET owners == {s \in Slots : HoldsKey(t, s, key)}
    IN  IF owners = {} THEN NoSlot ELSE Least(owners)

slot_prompt_matches(slot, prompt) == prompt = NoPrompt \/ slot.fp = prompt

\* preview_hit and preview_position share this condition.
preview_hit(t, key, prompt) ==
    /\ find(t, key) # NoSlot
    /\ t[find(t, key)].valid
    /\ slot_prompt_matches(t[find(t, key)], prompt)

preview_position(t, key, prompt) ==
    IF preview_hit(t, key, prompt) THEN t[find(t, key)].pos ELSE BasePos

\* Engine steps needed before the last prompt token: all ids but the last.
PrefillSteps(prompt) == IF prompt = NoPrompt THEN 0 ELSE PromptLen[prompt] - 1

\* tp_ep_http_context_admission: final_position <= ctx
context_admission(t, key, prompt, requested) ==
    LET hit     == preview_hit(t, key, prompt)
        start   == IF hit THEN t[find(t, key)].pos ELSE BasePos
        prefill == IF hit THEN 0 ELSE PrefillSteps(prompt)
    IN  start + prefill + requested <= Ctx

(***************************************************************************)
(* assign.  The slot found for the key; else the first unoccupied slot;    *)
(* else the least recently used slot outside protected_slots, lowest id    *)
(* first among equals; else none.                                          *)
(***************************************************************************)
Unoccupied(t) == {s \in Slots : ~ t[s].occupied}

LeastRecentlyUsed(t, prot) ==
    LET open == Slots \ prot
    IN  {s \in open : \A r \in open : t[s].last_used <= t[r].last_used}

TargetSlot(t, key, prot) ==
    IF find(t, key) # NoSlot THEN find(t, key)
    ELSE IF Unoccupied(t) # {} THEN Least(Unoccupied(t))
    ELSE IF Slots \ prot # {} THEN Least(LeastRecentlyUsed(t, prot))
    ELSE NoSlot

\* TpEpHttpSessionAssignment of a member that got a slot
AsgType == [slot : Slots, hit : BOOLEAN, pos_in : Nat]

assign_result(t, key, prompt, prot) ==
    [slot   |-> TargetSlot(t, key, prot),
     hit    |-> preview_hit(t, key, prompt),
     pos_in |-> preview_position(t, key, prompt)]

\* A slot taken over by a new key: every field is reset.
ClaimedSlot(key, prompt, now) ==
    [occupied |-> TRUE, valid |-> FALSE, key |-> key, fp |-> prompt,
     prompt |-> prompt, pos |-> BasePos, prompt_tokens |-> 0,
     generated_tokens |-> 0, last_used |-> now]

\* A miss on a slot the key already owns: the resident state is dropped, but
\* the fingerprint is replaced only when the request carries a prompt.
RebuiltSlot(slot, prompt, now) ==
    [slot EXCEPT !.valid = FALSE,
                 !.pos = BasePos,
                 !.fp = IF prompt = NoPrompt THEN @ ELSE prompt,
                 !.prompt = prompt,
                 !.prompt_tokens = 0,
                 !.generated_tokens = 0,
                 !.last_used = now]

assign_table(t, key, prompt, prot, now) ==
    LET s == TargetSlot(t, key, prot)
    IN  IF s = NoSlot THEN t
        ELSE [t EXCEPT ![s] =
                IF find(t, key) = NoSlot THEN ClaimedSlot(key, prompt, now)
                ELSE IF preview_hit(t, key, prompt) THEN [@ EXCEPT !.last_used = now]
                ELSE RebuiltSlot(@, prompt, now)]

(***************************************************************************)
(* commit: the slot becomes valid at pos_in + position_advance.            *)
(***************************************************************************)
CommittedSlot(slot, pos, prompt_tokens, generated, now) ==
    [slot EXCEPT !.valid = TRUE,
                 !.pos = pos,
                 !.prompt_tokens = @ + prompt_tokens,
                 !.generated_tokens = @ + generated,
                 !.last_used = now]

commit_table(t, a, prompt_tokens, generated, advance, now) ==
    [t EXCEPT ![a.slot] =
        CommittedSlot(@, a.pos_in + advance, prompt_tokens, generated, now)]
=============================================================================
