-------------------------------- MODULE Llm --------------------------------
(***************************************************************************)
(* LLMClient.generate_chat_completion as its callers see it: a call that   *)
(* is posted, posted again when the transport fails, and ends in a text or *)
(* in an error.  A missing or foreign LLM_BASE_URL answers with a fixed    *)
(* text instead of calling; to a caller that parses it, it is any text.    *)
(***************************************************************************)
EXTENDS Naturals

CONSTANTS
  Clients,    \* requests being served
  LlmRetries  \* LLM_RETRY_CONFIG.max_retries (1)

ASSUME LlmAssumption == LlmRetries \in Nat

VARIABLES
  at,    \* the await a request is in
  tries  \* posts of its LLM call that failed

llmVars == <<at, tries>>

(* The awaits of a call to the LLM, by the purpose of the call. *)
LlmCalls == {"llm", "llm2", "selfcheck", "suggest"}

Calling(c) == at[c] \in LlmCalls

(* The request goes on to another await; a call it makes there is fresh. *)
Goes(c, place) ==
  /\ at' = [at EXCEPT ![c] = place]
  /\ tries' = [tries EXCEPT ![c] = 0]

(* Variant: after the last attempt the count starts over. *)
PostAgain_Endless(c) ==
  /\ Calling(c)
  /\ tries' = [tries EXCEPT ![c] = IF @ < LlmRetries THEN @ + 1 ELSE 0]
  /\ UNCHANGED at

(* The post raised, the delay is slept and it is posted again.  Only what   *)
(* the transport raises is tried again: a status is looked at after.        *)
PostAgain(c) ==
  /\ Calling(c)
  /\ tries[c] < LlmRetries
  /\ tries' = [tries EXCEPT ![c] = @ + 1]
  /\ UNCHANGED at

(* The call ends: with a text, or with an error for the last failure of the *)
(* transport, for a status, a body without choices or without content.      *)
CallEnds(c) == IF Calling(c) THEN {"text", "error"} ELSE {}
=============================================================================
