---------------------------- MODULE MCChatStore -----------------------------
(***************************************************************************)
(* Instances of ChatStore.  The same two participants, Ann and Bob, share  *)
(* every channel; other users are outsiders.                               *)
(***************************************************************************)
EXTENDS ChatStoreInv, TLC

CONSTANTS Ann, Bob

MCParticipants == [c \in Channels |-> {Ann, Bob}]

\* Requests of a kind are alike, and so are keys.
SendSymmetry   == Permutations(CreateReqs) \cup Permutations(Keys)
ReviseSymmetry == Permutations(EditReqs) \cup Permutations(RecallReqs)
ReadSymmetry   == SendSymmetry \cup Permutations(ReadReqs)
=============================================================================
