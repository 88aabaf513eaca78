---------------------------- MODULE MCChatSession ----------------------------
(***************************************************************************)
(* Small instances of the chat session.  Nothing distinguishes two ids,    *)
(* threads, conversations or requests.                                     *)
(***************************************************************************)
EXTENDS ChatSession, TLC

Symmetry ==
  Permutations(ProposalId) \cup Permutations(Worker)
    \cup Permutations(Conversation) \cup Permutations(Request)
=============================================================================
