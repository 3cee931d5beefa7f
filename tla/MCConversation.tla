--------------------------- MODULE MCConversation ---------------------------
(***************************************************************************)
(* An instance of Conversation for TLC: two tasks and one permit, what     *)
(* trusted people, strangers and bots write, and a branch of two files.    *)
(***************************************************************************)
EXTENDS Conversation

Says(who, words) == [who |-> who, mentions |-> {"codasaurus"} \cup words]

MCComment ==
    {Says("trusted", {c}) : c \in {"review", "summarize", "improve", "fix"}}
    \cup {Says("stranger", {"review"}), Says("bot", {"help", "review"})}
=============================================================================
