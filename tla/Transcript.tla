------------------------------ MODULE Transcript ------------------------------
(***************************************************************************)
(* Conversations as ds4-server sees them: what a client remembers of its   *)
(* turns, the prompt text rendered from them, and the tokens of the live   *)
(* session.  A piece of text is one symbol; what is abstracted is its      *)
(* wording, not where a turn starts and ends or what is hidden.            *)
(*                                                                         *)
(*   "sys"                the system prompt and the tool descriptions      *)
(*   a message of Msgs    <|User|> and what the user wrote                 *)
(*   "result"             <|User|><tool_result>...</tool_result>           *)
(*   "think"              <|Assistant|><think>                             *)
(*   "reason"             the reasoning the model sampled                  *)
(*   "say" / "cut"        </think> and an answer, whole or cut at a stop   *)
(*   "call"               the DSML block of a tool call, as sampled        *)
(*   "json"               the same call rendered again from its JSON       *)
(*   "eos"                <|end_of_sentence|>                              *)
(*                                                                         *)
(* Tokens are the same symbols, and two more: "say2" and "call2" are other *)
(* tokenizations the model may sample for the text of "say" and "call".    *)
(***************************************************************************)
EXTENDS Integers, Sequences, SequencesExt

CONSTANTS
    Clients,   \* the clients, each with one conversation it may edit
    Profile,   \* [Clients -> [api, tools, think, shows]], how a client asks
    Msgs,      \* the user messages
    System     \* the system prompt every client sends: <<"sys">>, or <<>> for none

Apis == {"openai", "anthropic", "responses"}

ASSUME ProfileAssumption ==
    /\ Profile \in [Clients -> [api : Apis, tools : BOOLEAN, think : BOOLEAN,
                                shows : BOOLEAN]]
    /\ System \in {<<>>, <<"sys">>}
    /\ Msgs \cap {"sys", "result", "think", "reason", "say", "cut", "call", "json", "eos",
                   "say2", "call2"} = {}

TextSymbols == Msgs \cup {"sys", "result", "think", "reason", "say", "cut", "call", "json", "eos"}
Tokens == TextSymbols \cup {"say2", "call2"}

(***************************************************************************)
(* Rendering tokens forgets how the text was split into them; tokenizing   *)
(* text always gives the tokenizer's own split.                            *)
(***************************************************************************)
render_tokens_text(tokens) ==
    [i \in DOMAIN tokens |-> CASE tokens[i] = "say2"  -> "say"
                               [] tokens[i] = "call2" -> "call"
                               [] OTHER -> tokens[i]]

ds4_tokenize_rendered_chat(text) == text

(***************************************************************************)
(* A turn the client remembers: its message, the answer it was shown, and  *)
(* the id of the tool call in it (0 when there is none).                   *)
(***************************************************************************)
Turns == [ask : Msgs \cup {"result"}, ans : {"say", "cut", "call"}, id : Nat]

Prefix(c) == IF Profile[c].think THEN <<"think">> ELSE <<>>

(***************************************************************************)
(* An old turn in a new prompt.  Reasoning is rendered only in a tool      *)
(* context, and only when the client sends it back, which clients do for   *)
(* tool-call turns; a call is the sampled DSML when tool memory still has  *)
(* it, and otherwise rebuilt from the client's JSON.                       *)
(***************************************************************************)
RenderTurn(c, t, exact) ==
    LET p == Profile[c]
        reasoning == IF p.shows /\ t.ans = "call" THEN <<"reason">> ELSE <<>>
        opening == IF p.think /\ p.tools THEN <<"think">> \o reasoning ELSE <<>>
        answer == IF t.ans = "call" /\ ~exact THEN "json" ELSE t.ans
    IN  <<t.ask>> \o opening \o <<answer, "eos">>

render_chat_prompt_text(c, turns, ask, exact) ==
    System \o FlattenSeq([i \in DOMAIN turns |-> RenderTurn(c, turns[i], exact)])
        \o <<ask>> \o Prefix(c)

(***************************************************************************)
(* What a request that carries only tool results adds to the live session. *)
(***************************************************************************)
render_live_tool_tail(c) == <<"eos", "result">> \o Prefix(c)

(***************************************************************************)
(* What the next prompt is expected to begin with after this answer: for a *)
(* Responses client, for a thinking client without tools, and for the      *)
(* checkpoint of a tool call that is not replayed exactly.                 *)
(***************************************************************************)
build_responses_visible_assistant_suffix(c, ans) ==
    (IF Profile[c].think /\ Profile[c].shows /\ ans = "call" THEN <<"reason">> ELSE <<>>)
        \o <<ans, "eos">>

build_toolless_thinking_visible_text(text, ans) == Front(text) \o <<ans, "eos">>

(* Mutant: the call is left out of the rebuilt checkpoint. *)
CheckpointWithoutCall(c) ==
    (IF Profile[c].think THEN <<"reason">> ELSE <<>>) \o <<"eos">>

build_tool_checkpoint_suffix(c) ==
    (IF Profile[c].think THEN <<"reason">> ELSE <<>>) \o <<"call", "eos">>

(***************************************************************************)
(* What a text says: its messages and answers, without the system prompt,  *)
(* the reasoning and the turn ends, whichever way a call is spelled.       *)
(***************************************************************************)
Saying(x) == CASE x \in {"sys", "think", "reason", "eos"} -> <<>>
               [] x = "json" -> <<"call">>
               [] OTHER -> <<x>>

Meaning(text) == FlattenSeq([i \in DOMAIN text |-> Saying(text[i])])

CommonPrefix(s, t) ==
    CHOOSE n \in 0..Len(s) :
        /\ n <= Len(t)
        /\ SubSeq(s, 1, n) = SubSeq(t, 1, n)
        /\ n < Len(s) /\ n < Len(t) => s[n + 1] # t[n + 1]

After(text, prefix) == SubSeq(text, Len(prefix) + 1, Len(text))
=============================================================================
