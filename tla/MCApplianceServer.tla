-------------------------- MODULE MCApplianceServer --------------------------
(***************************************************************************)
(* Instances of ApplianceServer for TLC.  Each shape set is one kind of    *)
(* traffic; a run picks one and the bounds that make it interesting.       *)
(***************************************************************************)
EXTENDS ApplianceServer, TLC

CONSTANTS c1, c2, c3, c4, kA, kB, kC, p, q

MCPromptLen == (p :> 1) @@ (q :> 2)

Gen(session, prompt, text, max) ==
    [kind |-> "generate", session |-> session, prompt |-> prompt,
     text |-> text, max |-> max]

Get(kind) == [Gen(NoSession, NoPrompt, FALSE, 0) EXCEPT !.kind = kind]

\* Named sessions competing for too few slots, with and without a prompt,
\* and one request whose prompt cannot be tokenized.
SessionShapes ==
    {Gen(k, pr, FALSE, 1) : k \in {kA, kB, kC}, pr \in {NoPrompt, q}}
        \cup {Gen(kA, p, FALSE, 1)}

\* Every kind of request: status, unknown path, a prompt-hash key without
\* max_tokens, an ephemeral key with it.
ServiceShapes ==
    {Get("status"), Get("unknown"),
     Gen(NoSession, p, TRUE, 0), Gen(NoSession, NoPrompt, FALSE, 2)}

MCSymmetry == Permutations(Clients)
=============================================================================
