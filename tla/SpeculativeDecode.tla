--------------------------- MODULE SpeculativeDecode ---------------------------
(***************************************************************************)
(* Speculative greedy decoding of one session on a GPU back end            *)
(* (ds4_session_eval_speculative_argmax).                                  *)
(*                                                                         *)
(* A call evaluates one token the normal way, lets the MTP block draft a   *)
(* short continuation, and verifies the drafts with the target model in    *)
(* one pass.  The pass advances the graph's state through all the drafts;  *)
(* when only some are right, the state must be taken back to the accepted  *)
(* prefix: from a prefix captured on the way, or from a snapshot followed  *)
(* by a replay.  Any GPU call may fail, and each path has its own way out. *)
(*                                                                         *)
(* The state of the graph (compressor frontiers, row counters) is named by *)
(* the tokens it describes; Mixed is a state that describes no prefix, left*)
(* by a failed pass.  Logits are named by the tokens they were computed    *)
(* from and by their largest entry.                                        *)
(***************************************************************************)
EXTENDS Integers, SequencesExt

CONSTANTS
    Vocab, Eos,     \* the tokens, and the one that ends an answer
    Ctx,            \* ctx_size
    Window,         \* raw_window: most MTP rows that are visible at once
    AcceptedCap,    \* accepted_cap, the room in the caller's array
    MaxTokens,      \* bound on the max_tokens of a call
    Targets,        \* target models: the token that follows n tokens
    Ties,           \* lengths after which two logits are nearly tied
    Options,        \* option records, see OptionType
    MaxFaults       \* bound on GPU failures

OptionType ==
    [depth : 2..16,      \* --mtp-draft, mtp_draft_tokens
     strict : BOOLEAN,   \* --quality or DS4_MTP_STRICT
     batch : BOOLEAN,    \* DS4_MTP_BATCH_VERIFY
     capture : BOOLEAN,  \* DS4_MTP_CAPTURE_PREFIX1
     force : BOOLEAN,    \* DS4_MTP_FORCE_SNAPSHOT
     replay : BOOLEAN,   \* DS4_MTP_EXACT_REPLAY
     margin : BOOLEAN]   \* --mtp-margin above zero

ASSUME SpeculativeAssumption ==
    /\ Eos \in Vocab
    /\ {Window, MaxTokens} \subseteq Nat \ {0}
    /\ AcceptedCap \in 2..17 /\ Ctx \in Nat /\ Ctx > 2
    /\ Targets \subseteq [1..Ctx -> Vocab] /\ Ties \subseteq 1..Ctx
    /\ Options \subseteq OptionType
    /\ MaxFaults \in Nat

VARIABLES
    checkpoint, valid,   \* the session's tokens, checkpoint_valid
    logits,              \* s->logits
    graph,               \* what the graph's state describes
    mtp_n_raw,           \* visible rows of the MTP cache
    draft,               \* mtp_draft_valid, mtp_draft_token
    call, pc,            \* locals of the running call, and where it is
    out,                 \* every token a call has given to its caller
    target, opts,        \* the model and the options of this process
    faults,
    passed_over          \* a failure the code does not act upon has left its mark

session == <<checkpoint, valid, logits, graph, mtp_n_raw, draft>>
fixed == <<target, opts>>
vars == <<session, call, pc, out, fixed, faults, passed_over>>

Prompt == <<"prompt">>
Mixed == <<"mixed">>
NoCall == <<>>
NoDraft == [valid |-> FALSE, token |-> Eos]
-----------------------------------------------------------------------------
(***************************************************************************)
(* The target model.  The decode kernels give one answer for a prefix; the *)
(* batch kernels may prefer another token where two are nearly tied.       *)
(***************************************************************************)
ExactTops(p) == IF IsPrefix(Mixed, p) THEN Vocab ELSE {target[Len(p)]}
BatchTops(p) == IF Len(p) \in Ties THEN Vocab ELSE ExactTops(p)

Logits(p, top) == [of |-> p, top |-> top]

Fault == faults < MaxFaults /\ faults' = faults + 1
Works == UNCHANGED faults

DraftN == Len(call.drafts)
First(n) == SubSeq(call.drafts, 1, n)
(* What the layers describe after n drafts, seen from the start of the pass. *)
After(n) == call.base_graph \o First(n)
(* The session's tokens without the drafts: checkpoint.len = start. *)
AtStart == SubSeq(checkpoint, 1, call.start)

(* DS4_MTP_KEEP_ACCEPTED *)
KeepAccepted(n) == Min({call.base_raw + n, Window})

(* The call returns: what it accepted reaches the caller. *)
Return(tokens) ==
    /\ out' = out \o tokens
    /\ pc' = "idle"
    /\ call' = NoCall

(* The call returns -1: the session is unusable until it is synchronised. *)
ReturnError ==
    /\ valid' = FALSE
    /\ pc' = "idle"
    /\ call' = NoCall
    /\ UNCHANGED out

(* The first n drafts are accepted with the logits that follow them. *)
Accept(tokens, n, after) ==
    /\ checkpoint' = tokens
    /\ valid' = TRUE
    /\ logits' = after
    /\ draft' = NoDraft
    /\ mtp_n_raw' = KeepAccepted(n)
    /\ Return(call.accepted \o First(Min({n, AcceptedCap - 1})))
-----------------------------------------------------------------------------
(***************************************************************************)
(* ds4_session_eval_internal with the caller's greedy token, then the      *)
(* reasons not to speculate at all, in the code's order.                   *)
(***************************************************************************)
DraftCap(max) == Min({opts.depth, max - 1, AcceptedCap - 1, Ctx - Len(checkpoint) - 2})

(* The caller's loop: it stops at an end token, sampled or accepted. *)
MayDecode ==
    /\ pc = "idle"
    /\ valid
    /\ Len(checkpoint) < Ctx
    /\ Eos \notin {logits.top} \cup Range(out)

Begin(max) ==
    /\ MayDecode
    /\ checkpoint' = Append(checkpoint, logits.top)
    /\ graph' = Append(graph, logits.top)
    /\ \E top \in ExactTops(graph') : logits' = Logits(graph', top)
    /\ \/ \E t \in Vocab :
             /\ Works
             /\ mtp_n_raw' = Min({mtp_n_raw + 1, Window})
             /\ \/ /\ DraftCap(max) <= 0
                   /\ draft' = [valid |-> TRUE, token |-> t]
                   /\ Return(<<logits.top>>)
                \/ /\ DraftCap(max) > 0
                   /\ logits'.top # t
                   /\ draft' = NoDraft
                   /\ Return(<<logits.top>>)
                \/ /\ DraftCap(max) > 0
                   /\ logits'.top = t
                   /\ draft' = NoDraft
                   /\ call' = [start |-> Len(checkpoint'), base_graph |-> graph',
                               base_raw |-> mtp_n_raw', accepted |-> <<logits.top>>,
                               drafts |-> <<t>>, cap |-> DraftCap(max), snap |-> <<>>,
                               rows |-> <<>>, replayed |-> FALSE, verified |-> 0, top |-> t]
                   /\ pc' = "draft"
                   /\ UNCHANGED out
       \/ /\ Fault
          /\ draft' = NoDraft
          /\ Return(<<logits.top>>)
          /\ UNCHANGED mtp_n_raw
    /\ UNCHANGED <<valid, fixed, passed_over>>

EvalFails ==
    /\ MayDecode
    /\ Fault
    /\ draft' = NoDraft
    /\ graph' = Mixed
    /\ ReturnError
    /\ UNCHANGED <<checkpoint, logits, mtp_n_raw, fixed, passed_over>>

-----------------------------------------------------------------------------
(* The MTP block drafts from its own drafts until the cap or an end token. *)
DraftsMade == DraftN = call.cap \/ Last(call.drafts) = Eos

DraftNext ==
    /\ pc = "draft"
    /\ ~DraftsMade
    /\ \E t \in Vocab : call' = [call EXCEPT !.drafts = Append(@, t)]
    /\ mtp_n_raw' = Min({mtp_n_raw + 1, Window})
    /\ UNCHANGED <<checkpoint, valid, logits, graph, draft, pc, out, fixed, faults, passed_over>>

DraftFails ==
    /\ pc = "draft"
    /\ ~DraftsMade
    /\ Fault
    /\ Return(call.accepted)
    /\ UNCHANGED <<session, fixed, passed_over>>

(* A small margin between two drafts: only the first is evaluated. *)
MarginSkip ==
    /\ pc = "draft"
    /\ DraftsMade /\ DraftN = 2
    /\ opts.margin /\ ~opts.strict
    /\ \/ /\ Works
          /\ graph' = Append(graph, call.drafts[1])
          /\ \E top \in ExactTops(graph') :
                Accept(checkpoint \o First(1), 1, Logits(graph', top))
       \/ /\ Fault
          /\ graph' = Mixed
          /\ ReturnError
          /\ UNCHANGED <<checkpoint, logits, draft, mtp_n_raw>>
    /\ UNCHANGED <<fixed, passed_over>>

-----------------------------------------------------------------------------
(***************************************************************************)
(* Before a verifier runs, the state it will overwrite is copied aside     *)
(* unless a captured prefix is enough.                                     *)
(***************************************************************************)
use_decode2_exact == DraftN = 2 /\ opts.strict /\ ~opts.batch

capture_prefix1 == DraftN = 2 /\ (~opts.strict \/ opts.capture)

snapshot_required ==
    \/ DraftN > 2
    \/ DraftN = 2 /\ (~capture_prefix1 \/ opts.replay)
    \/ opts.force

have_frontier == call.snap # <<>>

spec_frontier_snapshot ==
    /\ pc = "draft"
    /\ DraftsMade
    /\ \/ /\ use_decode2_exact \/ snapshot_required
          /\ \/ /\ Works
                /\ call' = [call EXCEPT !.snap = <<graph, mtp_n_raw>>]
                /\ pc' = "verify"
             \/ /\ Fault
                /\ pc' = "sequential"
                /\ UNCHANGED call
       \/ /\ ~use_decode2_exact /\ ~snapshot_required
          /\ Works
          /\ pc' = "verify"
          /\ UNCHANGED call
    /\ UNCHANGED <<session, out, fixed, passed_over>>

(* The graph after spec_frontier_restore; the MTP counter is set in any case. *)
spec_frontier_restore(works) ==
    /\ graph' = IF works THEN call.snap[1] ELSE Mixed
    /\ mtp_n_raw' = call.snap[2]

(***************************************************************************)
(* Both verifiers move every layer through all the drafts and report what  *)
(* the target says after each but the last.                                *)
(***************************************************************************)
Verify ==
    /\ pc = "verify"
    /\ Works
    /\ graph' = After(DraftN)
    /\ \E rows \in [1..(DraftN - 1) -> Vocab] :
          /\ \A i \in DOMAIN rows :
                rows[i] \in IF use_decode2_exact THEN ExactTops(After(i)) ELSE BatchTops(After(i))
          /\ call' = [call EXCEPT !.rows = rows]
    /\ IF use_decode2_exact
       THEN pc' = "decode2" /\ UNCHANGED checkpoint
       ELSE pc' = "settle" /\ checkpoint' = checkpoint \o call.drafts
    /\ UNCHANGED <<valid, logits, mtp_n_raw, draft, out, fixed, passed_over>>

VerifyFails ==
    /\ pc = "verify"
    /\ Fault
    /\ graph' = Mixed
    /\ checkpoint' = IF use_decode2_exact THEN checkpoint ELSE checkpoint \o call.drafts
    /\ pc' = "giveup"
    /\ UNCHANGED <<valid, logits, mtp_n_raw, draft, call, out, fixed, passed_over>>

-----------------------------------------------------------------------------
(* The exact verifier for two drafts. *)
Decode2Accepts ==
    /\ pc = "decode2"
    /\ call.rows[1] = call.drafts[2]
    /\ Works
    /\ \E top \in ExactTops(graph) : Accept(checkpoint \o call.drafts, 2, Logits(graph, top))
    /\ UNCHANGED <<graph, fixed, passed_over>>

(* Mutant: the layers stay where the verifier left them. *)
CommitNothing == UNCHANGED graph

spec_frontier_commit_prefix1 == graph' = After(1)

Decode2CommitsPrefix1 ==
    /\ pc = "decode2"
    /\ call.rows[1] # call.drafts[2]
    /\ \/ /\ Works
          /\ spec_frontier_commit_prefix1
          /\ Accept(AtStart \o First(1), 1, Logits(After(1), call.rows[1]))
       \/ /\ Fault
          /\ graph' = Mixed
          /\ checkpoint' = AtStart
          /\ pc' = "giveup"
          /\ UNCHANGED <<valid, logits, mtp_n_raw, draft, call, out>>
    /\ UNCHANGED <<fixed, passed_over>>

-----------------------------------------------------------------------------
(* Mutant: one draft too many is taken for verified. *)
commit_one_more == Min({DraftN, 1 + Cardinality({i \in DOMAIN call.rows : call.rows[i] = call.drafts[i + 1]}) + 1})

(***************************************************************************)
(* The batch verifier.  The first draft is known to be right; each further *)
(* one is when the target said it after the ones before.                   *)
(***************************************************************************)
commit_drafts ==
    CHOOSE n \in 1..DraftN :
        /\ \A i \in 1..(n - 1) : call.rows[i] = call.drafts[i + 1]
        /\ n < DraftN => call.rows[n] # call.drafts[n + 1]

(* A measuring option: take everything back and evaluate token by token. *)
ReplayExactly ==
    /\ pc = "settle"
    /\ opts.replay /\ have_frontier /\ ~call.replayed
    /\ \/ /\ Works
          /\ graph' = call.snap[1] \o First(commit_drafts)
          /\ \E top \in ExactTops(graph') :
                Accept(AtStart \o First(commit_drafts), commit_drafts, Logits(graph', top))
       \/ /\ Fault
          /\ graph' = Mixed
          /\ mtp_n_raw' = call.snap[2]
          /\ \E n \in 0..(commit_drafts - 1) : checkpoint' = AtStart \o First(n)
          /\ call' = [call EXCEPT !.replayed = TRUE]
          /\ UNCHANGED <<valid, logits, draft, pc, out>>
    /\ UNCHANGED <<fixed, passed_over>>

Settling == pc = "settle" /\ (opts.replay /\ have_frontier => call.replayed)

(* All drafts are right: the last row of logits is read and nothing moves. *)
AcceptAll ==
    /\ Settling
    /\ commit_drafts = DraftN
    /\ Works
    /\ \E top \in BatchTops(After(DraftN)) :
          Accept(checkpoint, DraftN, Logits(After(DraftN), top))
    /\ passed_over' = (passed_over \/ call.replayed)
    /\ UNCHANGED <<graph, fixed>>

CommitPrefix1 ==
    /\ Settling
    /\ DraftN = 2 /\ commit_drafts = 1 /\ capture_prefix1
    /\ \/ /\ Works
          /\ spec_frontier_commit_prefix1
          /\ Accept(AtStart \o First(1), 1, Logits(After(1), call.rows[1]))
       \/ /\ Fault
          /\ graph' \in {Mixed, After(1)}
          /\ checkpoint' = AtStart
          /\ pc' = "giveup"
          /\ UNCHANGED <<valid, logits, mtp_n_raw, draft, call, out>>
    /\ UNCHANGED <<fixed, passed_over>>

RowUnreadable ==
    /\ Settling
    /\ commit_drafts = DraftN
    /\ Fault
    /\ pc' = "takeback"
    /\ UNCHANGED <<session, call, out, fixed, passed_over>>

(* Otherwise, or when that row cannot be read, the state goes back to the start. *)
TakingBack ==
    \/ pc = "takeback"
    \/ Settling /\ commit_drafts < DraftN /\ ~(DraftN = 2 /\ capture_prefix1)

TakeBack ==
    /\ TakingBack
    /\ checkpoint' = AtStart
    /\ IF have_frontier
       THEN spec_frontier_restore(TRUE) /\ pc' = "again"
       ELSE UNCHANGED <<graph, mtp_n_raw>> /\ pc' = "giveup"
    /\ UNCHANGED <<valid, logits, draft, call, out, fixed, faults, passed_over>>

TakeBackFails ==
    /\ TakingBack
    /\ have_frontier
    /\ Fault
    /\ checkpoint' = AtStart
    /\ spec_frontier_restore(FALSE)
    /\ pc' = "giveup"
    /\ UNCHANGED <<valid, logits, draft, call, out, fixed, passed_over>>

(* The accepted prefix is evaluated again: one token by decode, more by batch. *)
EvaluateAgain ==
    /\ pc = "again"
    /\ \/ /\ Works
          /\ graph' = graph \o First(commit_drafts)
          /\ \E top \in IF DraftN = 2 /\ commit_drafts = 1
                        THEN ExactTops(graph') ELSE BatchTops(graph') :
                Accept(checkpoint \o First(commit_drafts), commit_drafts, Logits(graph', top))
       \/ /\ Fault
          /\ graph' = Mixed
          /\ pc' = "giveup"
          /\ UNCHANGED <<checkpoint, valid, logits, mtp_n_raw, draft, call, out>>
    /\ UNCHANGED <<fixed, passed_over>>

(***************************************************************************)
(* A verifier failed.  With a snapshot the state is restored, whether or   *)
(* not the copy works; without one the call fails.                         *)
(***************************************************************************)
GiveUp ==
    /\ pc = "giveup"
    /\ checkpoint' = AtStart
    /\ \/ /\ have_frontier
          /\ \/ Works /\ spec_frontier_restore(TRUE) /\ UNCHANGED passed_over
             \/ Fault /\ spec_frontier_restore(FALSE) /\ passed_over' = TRUE
          /\ pc' = "sequential"
          /\ UNCHANGED <<valid, call, out>>
       \/ /\ ~have_frontier
          /\ Works
          /\ ReturnError
          /\ mtp_n_raw' = KeepAccepted(0)
          /\ UNCHANGED <<graph, passed_over>>
    /\ UNCHANGED <<logits, draft, fixed>>

-----------------------------------------------------------------------------
(* The safety fallback: ordinary decode, one draft at a time. *)
target_top == IF call.verified = 0 THEN logits.top ELSE call.top

SequentialGoesOn ==
    /\ call.verified < DraftN
    /\ Len(call.accepted) < AcceptedCap
    /\ target_top = call.drafts[call.verified + 1]
    /\ call.verified > 0 => call.drafts[call.verified] # Eos

SequentialStep ==
    /\ pc = "sequential"
    /\ SequentialGoesOn
    /\ Works
    /\ graph' = Append(graph, target_top)
    /\ checkpoint' = Append(checkpoint, target_top)
    /\ \E top \in ExactTops(graph') :
          call' = [call EXCEPT !.accepted = Append(@, target_top), !.verified = @ + 1,
                               !.top = top]
    /\ UNCHANGED <<valid, logits, mtp_n_raw, draft, pc, out, fixed, passed_over>>

(* An evaluation fails, or the logits cannot be read back at the end. *)
SequentialFails ==
    /\ pc = "sequential"
    /\ SequentialGoesOn \/ call.verified > 0
    /\ graph' = IF SequentialGoesOn THEN Mixed ELSE graph
    /\ Fault
    /\ ReturnError
    /\ UNCHANGED <<checkpoint, logits, mtp_n_raw, draft, fixed, passed_over>>

SequentialDone ==
    /\ pc = "sequential"
    /\ ~SequentialGoesOn
    /\ Works
    /\ logits' = IF call.verified > 0 THEN Logits(graph, call.top) ELSE logits
    /\ mtp_n_raw' = KeepAccepted(call.verified)
    /\ Return(call.accepted)
    /\ UNCHANGED <<checkpoint, valid, graph, draft, fixed, passed_over>>

-----------------------------------------------------------------------------
(* The next request after an error: the text so far is prefilled again. *)
ds4_session_sync ==
    /\ pc = "idle"
    /\ ~valid
    /\ Len(Prompt \o out) < Ctx
    /\ checkpoint' = Prompt \o out
    /\ graph' = Prompt \o out
    /\ \E top \in BatchTops(graph') : logits' = Logits(graph', top)
    /\ valid' = TRUE
    /\ draft' = NoDraft
    /\ mtp_n_raw' = 0
    /\ UNCHANGED <<call, pc, out, fixed, faults, passed_over>>

Init ==
    /\ target \in Targets
    /\ opts \in Options
    /\ checkpoint = Prompt
    /\ graph = Prompt
    /\ valid = TRUE
    /\ \E top \in BatchTops(Prompt) : logits = Logits(Prompt, top)
    /\ mtp_n_raw = 0
    /\ draft = NoDraft
    /\ call = NoCall
    /\ pc = "idle"
    /\ out = <<>>
    /\ faults = 0
    /\ passed_over = FALSE

Next ==
    \/ \E max \in 1..MaxTokens : Begin(max)
    \/ EvalFails
    \/ DraftNext
    \/ DraftFails
    \/ MarginSkip
    \/ spec_frontier_snapshot
    \/ Verify
    \/ VerifyFails
    \/ Decode2Accepts
    \/ Decode2CommitsPrefix1
    \/ ReplayExactly
    \/ AcceptAll
    \/ CommitPrefix1
    \/ RowUnreadable
    \/ TakeBack
    \/ TakeBackFails
    \/ EvaluateAgain
    \/ GiveUp
    \/ SequentialStep
    \/ SequentialFails
    \/ SequentialDone
    \/ ds4_session_sync

Spec == Init /\ [][Next]_vars
-----------------------------------------------------------------------------
(***************************************************************************)
(* Whenever a call has returned and the session counts as valid, its three *)
(* views of the conversation agree: the checkpoint's tokens, the layers'   *)
(* state and the logits; and the caller has been given exactly these       *)
(* tokens.  "the exact normal one-token decode path instead of returning   *)
(* wrong state" (ds4.c, safety fallback).  The prefix fits the context.    *)
(***************************************************************************)
SessionAgrees ==
    pc = "idle" /\ valid /\ ~passed_over =>
        /\ graph = checkpoint
        /\ logits.of = checkpoint
        /\ checkpoint = Prompt \o out
        /\ Len(checkpoint) <= Ctx

(***************************************************************************)
(* "The target model still defines the exact output stream": whatever MTP  *)
(* proposes, every token given to the caller is what the target model says *)
(* after the tokens before it, except where two logits are nearly tied and *)
(* a batch kernel may choose; and nothing follows an end token.            *)
(***************************************************************************)
TargetDefinesStream ==
    ~passed_over =>
        /\ \A i \in DOMAIN out : i \notin Ties => out[i] = target[i]
        /\ \A i \in DOMAIN out : out[i] = Eos => i = Len(out)

=============================================================================
