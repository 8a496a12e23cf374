---------------------------- MODULE TorrentHashes ----------------------------
(***************************************************************************)
(* The streaming hasher of one file: v1 piece hashes, v2 piece hashes and  *)
(* the v2 file root, from chunks of any length.                            *)
(*                                                                         *)
(* A hash stands for what is hashed: the v1 hash of a piece is the         *)
(* sequence of its bytes, the v2 hash of a block is that block, and an     *)
(* inner hash is the pair below it.  A byte is named by its file and its   *)
(* place in it; the zero byte of the padding is empty.                     *)
(***************************************************************************)
EXTENDS Integers, Sequences

CONSTANTS
    HashedFiles,     \* names of files
    None,
    BlockLength,     \* BLOCK_LENGTH
    BlocksPerPiece   \* piece_length // BLOCK_LENGTH

\* Powers of two, as a function, which unlike 2^k can be reasoned about.
TwoTo[k \in Nat] == IF k = 0 THEN 1 ELSE 2 * TwoTo[k - 1]

ASSUME HashesAssumption ==
    /\ BlockLength \in Nat \ {0}
    /\ BlocksPerPiece \in Nat \ {0} /\ \E k \in 0..BlocksPerPiece : BlocksPerPiece = TwoTo[k]
    /\ None \notin HashedFiles

PieceLength == BlockLength * BlocksPerPiece

Least(a, b) == IF a <= b THEN a ELSE b

Byte(f, p) == <<f, p>>
ZeroByte == <<>>

\* The bytes of f from place a to before place b.
Stretch(f, a, b) == [i \in 1..(b - a) |-> Byte(f, a + i - 1)]
Zeros(n) == [i \in 1..n |-> ZeroByte]

-----------------------------------------------------------------------------
(* Merkle trees.                                                           *)

ZeroHash == <<"zero">>
BlockHash(block) == <<"block", block>>
NodeHash(left, right) == <<"node", left, right>>

Log2(n) == CHOOSE k \in 0..n : TwoTo[k] = n

NextPowerOfTwo(n) == TwoTo[CHOOSE k \in 0..n : TwoTo[k] >= n /\ (k = 0 \/ TwoTo[k - 1] < n)]

ZeroSubtreeRoot(leaves) ==
    LET root[k \in Nat] ==
            IF k = 0 THEN ZeroHash ELSE NodeHash(root[k - 1], root[k - 1])
    IN  root[Log2(leaves)]

Padded(hashes, target, empty) ==
    [i \in 1..target |-> IF i <= Len(hashes) THEN hashes[i] ELSE empty]

MerkleRoot(hashes, target, empty) ==
    LET level[k \in Nat] ==
            IF k = 0 THEN Padded(hashes, target, empty)
            ELSE [i \in 1..(target \div TwoTo[k]) |->
                     NodeHash(level[k - 1][2 * i - 1], level[k - 1][2 * i])]
    IN  level[Log2(target)][1]

-----------------------------------------------------------------------------

VARIABLES
    stage,     \* "idle", "feeding", "raised", or "done": _result is there
    hashed,    \* [file, size, pad]: what the hasher was made for
    pos,       \* bytes given to update, _bytes_hashed once it has returned
    rest1,     \* remaining, in _update_v1
    rest2,     \* remaining, in _update_v2
    piece,     \* what _v1_hasher has taken of the current piece
    v1pieces,  \* _v1_piece_hashes
    buffer,    \* _block_buffer
    leaves,    \* _piece_leaves
    v2pieces,  \* _v2_piece_hashes
    root       \* v2_file_root, <<>> for None

hashVars == <<stage, hashed, pos, rest1, rest2, piece, v1pieces, buffer, leaves,
              v2pieces, root>>

\* TorrentFileHasher.reset
Restart ==
    /\ pos' = 0 /\ rest1' = <<>> /\ rest2' = <<>>
    /\ piece' = <<>> /\ v1pieces' = <<>>
    /\ buffer' = <<>> /\ leaves' = <<>> /\ v2pieces' = <<>> /\ root' = <<>>

Unused == [file |-> None, size |-> 0, pad |-> FALSE]

HashInit ==
    /\ stage = "idle" /\ hashed = Unused
    /\ pos = 0 /\ rest1 = <<>> /\ rest2 = <<>>
    /\ piece = <<>> /\ v1pieces = <<>>
    /\ buffer = <<>> /\ leaves = <<>> /\ v2pieces = <<>> /\ root = <<>>

\* The accumulator is thrown away.
Discard == stage' = "idle" /\ hashed' = Unused /\ Restart

\* TorrentFileHasher(expected_size, piece_length, pad_v1_tail)
Accumulate(f, size, pad) ==
    /\ stage' = "feeding"
    /\ hashed' = [file |-> f, size |-> size, pad |-> pad]
    /\ Restart

\* reset, by a writer that is truncated to 0 or an attempt from the start: also
\* after finalize, or after either of them raised.
Reset ==
    /\ stage # "idle" /\ rest1 = <<>> /\ rest2 = <<>>
    /\ Restart
    /\ stage' = "feeding"
    /\ UNCHANGED hashed

\* update: a chunk of n bytes comes in.
Update(n) ==
    /\ stage = "feeding" /\ rest1 = <<>> /\ rest2 = <<>>
    /\ IF pos + n > hashed.size
       THEN stage' = "raised" /\ UNCHANGED <<pos, rest1, rest2>>
       ELSE /\ rest1' = Stretch(hashed.file, pos, pos + n)
            /\ rest2' = Stretch(hashed.file, pos, pos + n)
            /\ pos' = pos + n
            /\ UNCHANGED stage
    /\ UNCHANGED <<hashed, piece, v1pieces, buffer, leaves, v2pieces, root>>

\* Mutant: a chunk is taken whole, over the end of the piece.
FillPiece_whole ==
    /\ rest1 # <<>>
    /\ LET grown == piece \o rest1
           full == Len(grown) >= PieceLength
       IN  /\ rest1' = <<>>
           /\ piece' = IF full THEN <<>> ELSE grown
           /\ v1pieces' = IF full THEN Append(v1pieces, grown) ELSE v1pieces
    /\ UNCHANGED <<stage, hashed, pos, rest2, buffer, leaves, v2pieces, root>>

\* One round of the loop of _update_v1.
FillPiece ==
    /\ rest1 # <<>>
    /\ LET take == Least(Len(rest1), PieceLength - Len(piece))
           grown == piece \o SubSeq(rest1, 1, take)
           full == Len(grown) = PieceLength
       IN  /\ rest1' = SubSeq(rest1, take + 1, Len(rest1))
           /\ piece' = IF full THEN <<>> ELSE grown
           /\ v1pieces' = IF full THEN Append(v1pieces, grown) ELSE v1pieces
    /\ UNCHANGED <<stage, hashed, pos, rest2, buffer, leaves, v2pieces, root>>

\* What _finish_block makes of the leaves and of the piece hashes.
LeavesWith(block) ==
    IF Len(leaves) + 1 = BlocksPerPiece THEN <<>> ELSE Append(leaves, BlockHash(block))

PiecesWith(block) ==
    IF Len(leaves) + 1 = BlocksPerPiece
    THEN Append(v2pieces, MerkleRoot(Append(leaves, BlockHash(block)), BlocksPerPiece, ZeroHash))
    ELSE v2pieces

\* One round of the loop of _update_v2, which runs after that of _update_v1.
FillBlock ==
    /\ rest1 = <<>> /\ rest2 # <<>>
    /\ LET take == Least(Len(rest2), BlockLength - Len(buffer))
           grown == buffer \o SubSeq(rest2, 1, take)
           full == Len(grown) = BlockLength
       IN  /\ rest2' = SubSeq(rest2, take + 1, Len(rest2))
           /\ buffer' = IF full THEN <<>> ELSE grown
           /\ leaves' = IF full THEN LeavesWith(grown) ELSE leaves
           /\ v2pieces' = IF full THEN PiecesWith(grown) ELSE v2pieces
    /\ UNCHANGED <<stage, hashed, pos, rest1, piece, v1pieces, root>>

\* Mutant: the last piece of a longer file is padded like a file of its own.
Target_of_leaves(n) == NextPowerOfTwo(n)

\* Blocks under the last piece: a file of one piece has a tree of its own size.
Target(n) ==
    IF hashed.size <= PieceLength THEN NextPowerOfTwo(n) ELSE BlocksPerPiece

FileRoot(pieces) ==
    IF pieces = <<>> THEN <<>>
    ELSE IF hashed.size <= PieceLength THEN pieces[1]
    ELSE MerkleRoot(pieces, NextPowerOfTwo(Len(pieces)), ZeroSubtreeRoot(BlocksPerPiece))

\* finalize, at the end of the stream.
Finalize ==
    /\ stage = "feeding" /\ rest1 = <<>> /\ rest2 = <<>>
    /\ IF pos # hashed.size
       THEN stage' = "raised" /\ UNCHANGED <<piece, v1pieces, buffer, leaves, v2pieces, root>>
       ELSE LET tail == IF hashed.pad THEN Zeros(PieceLength - Len(piece)) ELSE <<>>
                last == IF buffer = <<>> THEN leaves ELSE LeavesWith(buffer)
                roots == IF buffer = <<>> THEN v2pieces ELSE PiecesWith(buffer)
            IN  /\ stage' = "done"
                /\ v1pieces' = IF piece = <<>> THEN v1pieces ELSE Append(v1pieces, piece \o tail)
                /\ v2pieces' = IF last = <<>> THEN roots
                               ELSE Append(roots, MerkleRoot(last, Target(Len(last)), ZeroHash))
                /\ root' = FileRoot(v2pieces')
                /\ piece' = <<>> /\ buffer' = <<>> /\ leaves' = <<>>
    /\ UNCHANGED <<hashed, pos, rest1, rest2>>

HashStep ==
    \/ \E n \in Nat \ {0} : Update(n)
    \/ FillPiece \/ FillBlock \/ Reset \/ Finalize

HashNext ==
    \/ \E f \in HashedFiles, size \in Nat, pad \in BOOLEAN : Accumulate(f, size, pad)
    \/ HashStep
    \/ Discard

HashSpec == HashInit /\ [][HashNext]_hashVars

-----------------------------------------------------------------------------
(* What the hashes should be, from the file as a whole.                    *)

\* (size + piece_length - 1) // piece_length
PieceCount(size) == (size + PieceLength - 1) \div PieceLength

PieceEnd(i, size) == Least(i * PieceLength, size)

V1Of(f, size, pad) ==
    [i \in 1..PieceCount(size) |->
        Stretch(f, (i - 1) * PieceLength, PieceEnd(i, size))
            \o IF pad THEN Zeros(i * PieceLength - PieceEnd(i, size)) ELSE <<>>]

\* The hashes of the blocks of f; behind its end they are zero.
BlocksOf(f, size) ==
    [b \in Nat |->
        IF b * BlockLength >= size THEN ZeroHash
        ELSE BlockHash(Stretch(f, b * BlockLength, Least((b + 1) * BlockLength, size)))]

\* Tree(leaf)[h][b] is the root of the tree of height h whose leaves begin at leaf[b].
Tree(leaf) ==
    LET tree[k \in Nat] ==
            IF k = 0 THEN leaf
            ELSE [b \in Nat |-> NodeHash(tree[k - 1][b], tree[k - 1][b + TwoTo[k - 1]])]
    IN  tree

TreeAt(f, size, h, b) == Tree(BlocksOf(f, size))[h][b]

Height(size) ==
    CHOOSE h \in 0..size : TwoTo[h] * BlockLength >= size
                             /\ \A g \in 0..(h - 1) : TwoTo[g] * BlockLength < size

RootOf(f, size) == IF size = 0 THEN <<>> ELSE TreeAt(f, size, Height(size), 0)

V2Of(f, size) ==
    IF size = 0 THEN <<>>
    ELSE IF size <= PieceLength THEN <<RootOf(f, size)>>
    ELSE [i \in 1..PieceCount(size) |->
             TreeAt(f, size, Log2(BlocksPerPiece), (i - 1) * BlocksPerPiece)]

-----------------------------------------------------------------------------
(* Properties.                                                             *)

\* However the bytes were cut into chunks, and whatever was hashed before a
\* reset: the v1 hashes are those of the pieces of the file, the last one padded
\* if there is more than one file (TorrentFileHasher.update, finalize).
PiecesRight ==
    stage = "done" => v1pieces = V1Of(hashed.file, hashed.size, hashed.pad)

\* The v2 hashes are the subtrees and the root of one tree over the blocks of the
\* whole file, which the code never builds (_finish_block, _file_root, merkle_root).
RootsRight ==
    stage = "done" => /\ v2pieces = V2Of(hashed.file, hashed.size)
                      /\ root = RootOf(hashed.file, hashed.size)

=============================================================================
