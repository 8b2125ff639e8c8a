------------------------------ MODULE MCServer ------------------------------
(***************************************************************************)
(* Requests for Server: each way of answering.                             *)
(***************************************************************************)
EXTENDS Server, TLC

CONSTANTS c1, c2

Wants(api, stream, tools, usage) ==
  [api |-> api, stream |-> stream, tools |-> tools, usage |-> usage]

Wishes == { Wants("openai", FALSE, FALSE, FALSE), Wants("openai", TRUE, FALSE, TRUE),
            Wants("anthropic", TRUE, FALSE, FALSE), Wants("anthropic", TRUE, TRUE, FALSE) }

Few == { Wants("anthropic", TRUE, FALSE, FALSE) }

Exchange == Permutations(Turn)
=============================================================================
