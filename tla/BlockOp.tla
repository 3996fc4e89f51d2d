------------------------------ MODULE BlockOp ------------------------------
(***************************************************************************)
(* pci_generic_block_op() (lib/generic.c): a block of registers is         *)
(* accessed in pieces of 1, 2 and 4 bytes.  A piece is the pair of its     *)
(* position and its length.                                                *)
(***************************************************************************)
EXTENDS Integers, Sequences

Piece(makes, pos, len) == IF makes THEN <<<<pos, len>>>> ELSE <<>>

\* A fault: the second step is left out.
PiecesUnaligned(pos, len) ==
  LET odd == IF pos % 2 = 1 /\ len >= 1 THEN 1 ELSE 0
      q == pos + odd
      quads == (len - odd) \div 4
      r == q + 4 * quads
      rest == (len - odd) % 4
  IN Piece(odd = 1, pos, 1)
     \o [k \in 1..quads |-> <<q + 4 * (k - 1), 4>>]
     \o Piece(rest >= 2, r, 2)
     \o Piece(rest % 2 = 1, r + rest - 1, 1)

Pieces(pos, len) ==
  LET odd == IF pos % 2 = 1 /\ len >= 1 THEN 1 ELSE 0
      p == pos + odd
      half == IF p % 4 # 0 /\ len - odd >= 2 THEN 2 ELSE 0
      q == p + half
      quads == (len - odd - half) \div 4
      r == q + 4 * quads
      rest == (len - odd - half) % 4
  IN Piece(odd = 1, pos, 1)
     \o Piece(half = 2, p, 2)
     \o [k \in 1..quads |-> <<q + 4 * (k - 1), 4>>]
     \o Piece(rest >= 2, r, 2)
     \o Piece(rest % 2 = 1, r + rest - 1, 1)
============================================================================
