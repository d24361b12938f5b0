---------------------------- MODULE SeqAllocator ----------------------------
(***************************************************************************)
(* What the allocation of sequence numbers promises to the users of one    *)
(* conversation: every answer is a block of consecutive numbers, and no    *)
(* number is ever handed out twice.  The answer to a question is an empty  *)
(* block.  Gaps are allowed, and no order between blocks is promised.      *)
(* SeqConversation implements this specification.                          *)
(***************************************************************************)
EXTENDS Naturals, Sequences

VARIABLE
    blocks   \* the answers so far, in order: records with seq and size

(* The numbers of a block: the size numbers that follow seq.               *)
Numbers(b) == (b.seq + 1) .. (b.seq + b.size)

Init == blocks = << >>

(* One answer, with numbers that were never handed out before.             *)
Grant ==
    /\ Len(blocks') = Len(blocks) + 1
    /\ LET b == blocks'[Len(blocks')] IN
        /\ blocks' = Append(blocks, b)
        /\ b.seq \in Nat /\ b.size \in Nat
        /\ \A i \in 1 .. Len(blocks) : Numbers(b) \cap Numbers(blocks[i]) = {}

Spec == Init /\ [][Grant]_blocks
=============================================================================
