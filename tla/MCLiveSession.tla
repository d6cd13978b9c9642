----------------------------- MODULE MCLiveSession -----------------------------
(***************************************************************************)
(* Small instances of LiveSession: which clients talk to the server.       *)
(***************************************************************************)
EXTENDS LiveSession

NoSystem == <<>>
SharedSystem == <<"sys">>

Client(api, tools, think, shows) ==
    [api |-> api, tools |-> tools, think |-> think, shows |-> shows]

(* Two agents with tools, one per protocol that binds tool calls to the session. *)
Agents == [agent1 |-> Client("responses", TRUE, TRUE, TRUE),
           agent2 |-> Client("anthropic", TRUE, FALSE, FALSE)]

(* A thinking chat, and a tool client whose calls are rendered again from JSON. *)
ChatAndTool == [chat1 |-> Client("openai", FALSE, TRUE, FALSE),
                tool1 |-> Client("anthropic", TRUE, FALSE, FALSE)]
=============================================================================
